---------------------------- MODULE Shelf_proofs ----------------------------
(***************************************************************************)
(* What the recovery tables promise about every combination of facts, and  *)
(* what the commands of Shelf and their recovery promise together, proved  *)
(* of any paths, contents and bounds: types, what recovery may touch and   *)
(* how long it may take, that no item is without its exclude, that items   *)
(* at rest are whole, no content is lost, a stop is refused by recovery    *)
(* only in the known windows, the excludes stay accounted for, no plaintext *)
(* is exposed, and that Shelf implements ItemBook.  An assumption on what  *)
(* users do or on which commands are run stands in the theorem that needs  *)
(* it.                                                                     *)
(***************************************************************************)
EXTENDS Shelf, RecoveryFacts, TLAPS

(***************************************************************************)
(* The truth tables.  A lemma per table lists its rows and says they are   *)
(* told apart by phase and by facts; the rest follows from decide_table.   *)
(***************************************************************************)

(* The rows of a table differ pairwise in their phase and in their facts,  *)
(* which are of the operation's type and none of them unexpected.          *)
TableSound(rows, space) ==
  \A i, j \in DOMAIN rows :
    /\ rows[i].expected \in space
    /\ \A k \in DOMAIN rows[i].expected : rows[i].expected[k] # Unexpected
    /\ rows[i].phase = rows[j].phase => i = j
    /\ rows[i].expected = rows[j].expected => i = j

(* The table of an add. *)
LEMMA AddTableSound == TableSound(AddRows, AddFactSpace)
<1>1. DOMAIN AddRows = 1..5
  BY DEF AddRows, Row
<1>2. /\ AddRows[1].expected = <<"Source", "Missing", "Absent", "BeforeState">>
      /\ AddRows[2].expected = <<"Source", "Missing", "Absent", "Present">>
      /\ AddRows[3].expected = <<"Missing", "Source", "Absent", "Present">>
      /\ AddRows[4].expected = <<"Materialized", "Source", "Absent", "Present">>
      /\ AddRows[5].expected = <<"Materialized", "Source", "Present", "Present">>
  BY DEF AddRows, Row
<1>3. /\ AddRows[1].phase = "RecordCreated"
      /\ AddRows[2].phase = "ExcludeWritten"
      /\ AddRows[3].phase = "StoreTransferred"
      /\ AddRows[4].phase = "RepoMaterialized"
      /\ AddRows[5].phase = "ManifestSaved"
  BY DEF AddRows, Row
<1>4. \A i \in 1..5 : AddRows[i].expected \in AddFactSpace
  <2>1. AddRows[1].expected \in AddFactSpace
    BY <1>2 DEF AddFactSpace, Unexpected
  <2>2. AddRows[2].expected \in AddFactSpace
    BY <1>2 DEF AddFactSpace, Unexpected
  <2>3. AddRows[3].expected \in AddFactSpace
    BY <1>2 DEF AddFactSpace, Unexpected
  <2>4. AddRows[4].expected \in AddFactSpace
    BY <1>2 DEF AddFactSpace, Unexpected
  <2>5. AddRows[5].expected \in AddFactSpace
    BY <1>2 DEF AddFactSpace, Unexpected
  <2>. QED BY <2>1, <2>2, <2>3, <2>4, <2>5
<1>5. \A i \in 1..5 : \A k \in DOMAIN AddRows[i].expected : AddRows[i].expected[k] # Unexpected
  BY <1>2 DEF Unexpected
<1>6. \A i, j \in 1..5 : AddRows[i].phase = AddRows[j].phase => i = j
  BY <1>3
<1>7. \A i, j \in 1..5 : AddRows[i].expected = AddRows[j].expected => i = j
  BY <1>2
<1>. QED BY <1>1, <1>4, <1>5, <1>6, <1>7 DEF TableSound

(* The table of a restore. *)
LEMMA RestoreTableSound == TableSound(RestoreRows, RestoreFactSpace)
<1>1. DOMAIN RestoreRows = 1..5
  BY DEF RestoreRows, Row
<1>2. /\ RestoreRows[1].expected = <<"Original", "CanonicalPresent", "Present", "BeforeState">>
      /\ RestoreRows[2].expected = <<"Regular", "CanonicalPresent", "Present", "BeforeState">>
      /\ RestoreRows[3].expected = <<"Regular", "BackupPresent", "Present", "BeforeState">>
      /\ RestoreRows[4].expected = <<"Regular", "BackupPresent", "Absent", "BeforeState">>
      /\ RestoreRows[5].expected = <<"Regular", "BackupPresent", "Absent", "FinalState">>
  BY DEF RestoreRows, Row
<1>3. /\ RestoreRows[1].phase = "RecordCreated"
      /\ RestoreRows[2].phase = "RepoRegularized"
      /\ RestoreRows[3].phase = "StoreStaged"
      /\ RestoreRows[4].phase = "ManifestRemoved"
      /\ RestoreRows[5].phase = "ExcludeUpdated"
  BY DEF RestoreRows, Row
<1>4. \A i \in 1..5 : RestoreRows[i].expected \in RestoreFactSpace
  <2>1. RestoreRows[1].expected \in RestoreFactSpace
    BY <1>2 DEF RestoreFactSpace, Unexpected
  <2>2. RestoreRows[2].expected \in RestoreFactSpace
    BY <1>2 DEF RestoreFactSpace, Unexpected
  <2>3. RestoreRows[3].expected \in RestoreFactSpace
    BY <1>2 DEF RestoreFactSpace, Unexpected
  <2>4. RestoreRows[4].expected \in RestoreFactSpace
    BY <1>2 DEF RestoreFactSpace, Unexpected
  <2>5. RestoreRows[5].expected \in RestoreFactSpace
    BY <1>2 DEF RestoreFactSpace, Unexpected
  <2>. QED BY <2>1, <2>2, <2>3, <2>4, <2>5
<1>5. \A i \in 1..5 : \A k \in DOMAIN RestoreRows[i].expected : RestoreRows[i].expected[k] # Unexpected
  BY <1>2 DEF Unexpected
<1>6. \A i, j \in 1..5 : RestoreRows[i].phase = RestoreRows[j].phase => i = j
  BY <1>3
<1>7. \A i, j \in 1..5 : RestoreRows[i].expected = RestoreRows[j].expected => i = j
  BY <1>2
<1>. QED BY <1>1, <1>4, <1>5, <1>6, <1>7 DEF TableSound

(* The table of a move. *)
LEMMA MoveTableSound == TableSound(MoveRows, MoveFactSpace)
<1>1. DOMAIN MoveRows = 1..6
  BY DEF MoveRows, Row
<1>2. /\ MoveRows[1].expected = <<"OldMaterialized", "OldPresent", "OldPath", "BeforeState">>
      /\ MoveRows[2].expected = <<"OldMaterialized", "OldPresent", "OldPath", "OldAndNew">>
      /\ MoveRows[3].expected = <<"OldMaterialized", "NewPresent", "OldPath", "OldAndNew">>
      /\ MoveRows[4].expected = <<"NewMaterialized", "NewPresent", "OldPath", "OldAndNew">>
      /\ MoveRows[5].expected = <<"NewMaterialized", "NewPresent", "NewPath", "OldAndNew">>
      /\ MoveRows[6].expected = <<"NewMaterialized", "NewPresent", "NewPath", "NewOnly">>
  BY DEF MoveRows, Row
<1>3. /\ MoveRows[1].phase = "RecordCreated"
      /\ MoveRows[2].phase = "DestinationExcluded"
      /\ MoveRows[3].phase = "StoreTransferred"
      /\ MoveRows[4].phase = "RepoMoved"
      /\ MoveRows[5].phase = "ManifestSaved"
      /\ MoveRows[6].phase = "ExcludeFinalized"
  BY DEF MoveRows, Row
<1>4. \A i \in 1..6 : MoveRows[i].expected \in MoveFactSpace
  <2>1. MoveRows[1].expected \in MoveFactSpace
    BY <1>2 DEF MoveFactSpace, Unexpected
  <2>2. MoveRows[2].expected \in MoveFactSpace
    BY <1>2 DEF MoveFactSpace, Unexpected
  <2>3. MoveRows[3].expected \in MoveFactSpace
    BY <1>2 DEF MoveFactSpace, Unexpected
  <2>4. MoveRows[4].expected \in MoveFactSpace
    BY <1>2 DEF MoveFactSpace, Unexpected
  <2>5. MoveRows[5].expected \in MoveFactSpace
    BY <1>2 DEF MoveFactSpace, Unexpected
  <2>6. MoveRows[6].expected \in MoveFactSpace
    BY <1>2 DEF MoveFactSpace, Unexpected
  <2>. QED BY <2>1, <2>2, <2>3, <2>4, <2>5, <2>6
<1>5. \A i \in 1..6 : \A k \in DOMAIN MoveRows[i].expected : MoveRows[i].expected[k] # Unexpected
  BY <1>2 DEF Unexpected
<1>6. \A i, j \in 1..6 : MoveRows[i].phase = MoveRows[j].phase => i = j
  BY <1>3
<1>7. \A i, j \in 1..6 : MoveRows[i].expected = MoveRows[j].expected => i = j
  BY <1>2
<1>. QED BY <1>1, <1>4, <1>5, <1>6, <1>7 DEF TableSound

(* The table of a sync. *)
LEMMA SyncTableSound == TableSound(SyncRows, SyncFactSpace)
<1>1. DOMAIN SyncRows = 1..2
  BY DEF SyncRows, Row
<1>2. /\ SyncRows[1].expected = <<"BeforeReplacement">>
      /\ SyncRows[2].expected = <<"Synchronized">>
  BY DEF SyncRows, Row
<1>3. /\ SyncRows[1].phase = "RecordCreated"
      /\ SyncRows[2].phase = "ContentSynchronized"
  BY DEF SyncRows, Row
<1>4. \A i \in 1..2 : SyncRows[i].expected \in SyncFactSpace
  <2>1. SyncRows[1].expected \in SyncFactSpace
    BY <1>2 DEF SyncFactSpace, Unexpected
  <2>2. SyncRows[2].expected \in SyncFactSpace
    BY <1>2 DEF SyncFactSpace, Unexpected
  <2>. QED BY <2>1, <2>2
<1>5. \A i \in 1..2 : \A k \in DOMAIN SyncRows[i].expected : SyncRows[i].expected[k] # Unexpected
  BY <1>2 DEF Unexpected
<1>6. \A i, j \in 1..2 : SyncRows[i].phase = SyncRows[j].phase => i = j
  BY <1>3
<1>7. \A i, j \in 1..2 : SyncRows[i].expected = SyncRows[j].expected => i = j
  BY <1>2
<1>. QED BY <1>1, <1>4, <1>5, <1>6, <1>7 DEF TableSound

(* The table of a relink. *)
LEMMA RelinkTableSound == TableSound(RelinkRows, RelinkFactSpace)
<1>1. DOMAIN RelinkRows = 1..4
  BY DEF RelinkRows, Row
<1>2. /\ RelinkRows[1].expected = <<"BeforeDirectionBackupAbsent", "Detached", "BeforeState">>
      /\ RelinkRows[2].expected = <<"BeforeDirectionBackupAbsent", "Detached", "Present">>
      /\ RelinkRows[3].expected = <<"SynchronizedBackupPresent", "Detached", "Present">>
      /\ RelinkRows[4].expected = <<"SynchronizedBackupPresent", "Attached", "Present">>
  BY DEF RelinkRows, Row
<1>3. /\ RelinkRows[1].phase = "RecordCreated"
      /\ RelinkRows[2].phase = "ExcludeWritten"
      /\ RelinkRows[3].phase = "ContentSynchronized"
      /\ RelinkRows[4].phase = "OwnershipAttached"
  BY DEF RelinkRows, Row
<1>4. \A i \in 1..4 : RelinkRows[i].expected \in RelinkFactSpace
  <2>1. RelinkRows[1].expected \in RelinkFactSpace
    BY <1>2 DEF RelinkFactSpace, Unexpected
  <2>2. RelinkRows[2].expected \in RelinkFactSpace
    BY <1>2 DEF RelinkFactSpace, Unexpected
  <2>3. RelinkRows[3].expected \in RelinkFactSpace
    BY <1>2 DEF RelinkFactSpace, Unexpected
  <2>4. RelinkRows[4].expected \in RelinkFactSpace
    BY <1>2 DEF RelinkFactSpace, Unexpected
  <2>. QED BY <2>1, <2>2, <2>3, <2>4
<1>5. \A i \in 1..4 : \A k \in DOMAIN RelinkRows[i].expected : RelinkRows[i].expected[k] # Unexpected
  BY <1>2 DEF Unexpected
<1>6. \A i, j \in 1..4 : RelinkRows[i].phase = RelinkRows[j].phase => i = j
  BY <1>3
<1>7. \A i, j \in 1..4 : RelinkRows[i].expected = RelinkRows[j].expected => i = j
  BY <1>2
<1>. QED BY <1>1, <1>4, <1>5, <1>6, <1>7 DEF TableSound

(* All five tables. *)
LEMMA TablesSound ==
  ASSUME NEW op \in DurableOperations
  PROVE  TableSound(Tables[op], FactSpace[op])
<1>1. CASE op = "add"
  BY <1>1, AddTableSound DEF Tables, FactSpace
<1>2. CASE op = "restore"
  BY <1>2, RestoreTableSound DEF Tables, FactSpace
<1>3. CASE op = "move"
  BY <1>3, MoveTableSound DEF Tables, FactSpace
<1>4. CASE op = "sync"
  BY <1>4, SyncTableSound DEF Tables, FactSpace
<1>5. CASE op = "relink"
  BY <1>5, RelinkTableSound DEF Tables, FactSpace
<1>. QED BY <1>1, <1>2, <1>3, <1>4, <1>5 DEF DurableOperations

(* What decide_table answers, and why: the facts are the ones the recorded *)
(* phase's row expects, or the ones the row after it expects, or neither.  *)
LEMMA DecisionOf ==
  ASSUME NEW op, NEW phase, NEW facts
  PROVE  LET decision == Decision(op, phase, facts)
             rows == Tables[op]
         IN  \/ \E i \in DOMAIN rows :
                  /\ rows[i].phase = phase /\ rows[i].expected = facts
                  /\ decision = [kind |-> "perform", name |-> rows[i].action]
             \/ \E i \in DOMAIN rows :
                  /\ rows[i].phase = phase
                  /\ i + 1 \in DOMAIN rows /\ rows[i + 1].expected = facts
                  /\ decision = [kind |-> "advance", to |-> rows[i + 1].phase]
             \/ /\ decision = [kind |-> "conflict"]
                /\ \A i \in DOMAIN rows : rows[i].phase = phase =>
                     /\ rows[i].expected # facts
                     /\ i + 1 \in DOMAIN rows => rows[i + 1].expected # facts
<1>. DEFINE rows == Tables[op]
            here == {i \in DOMAIN rows : rows[i].phase = phase}
            Matches(i) == i \in DOMAIN rows /\ rows[i].expected = facts
            now == CHOOSE i \in here : Matches(i)
            next == CHOOSE i \in here : Matches(i + 1)
<1>1. CASE \E i \in here : Matches(i)
  <2>1. now \in here /\ Matches(now)
    BY <1>1
  <2>2. Decision(op, phase, facts) = [kind |-> "perform", name |-> rows[now].action]
    BY <1>1 DEF Decision, DecideIn
  <2>. QED BY <2>1, <2>2
<1>2. CASE ~(\E i \in here : Matches(i)) /\ \E i \in here : Matches(i + 1)
  <2>1. next \in here /\ Matches(next + 1)
    BY <1>2
  <2>2. Decision(op, phase, facts) = [kind |-> "advance", to |-> rows[next + 1].phase]
    BY <1>2 DEF Decision, DecideIn
  <2>. QED BY <2>1, <2>2
<1>3. CASE ~(\E i \in here : Matches(i)) /\ ~(\E i \in here : Matches(i + 1))
  BY <1>3 DEF Decision, DecideIn
<1>. QED BY <1>1, <1>2, <1>3

(* Whatever the phase and whatever else was observed, one unexpected fact  *)
(* is a conflict: no table has a row that expects one anywhere.            *)
THEOREM UnexpectedConflicts == UnexpectedIsConflict
<1>. SUFFICES ASSUME NEW op \in DurableOperations, NEW phase \in STRING,
                     NEW facts \in FactSpace[op] \cup {Unobserved[op]},
                     NEW k \in DOMAIN facts, facts[k] = Unexpected
              PROVE  Decision(op, phase, facts).kind = "conflict"
  BY DEF UnexpectedIsConflict
<1>1. \A i \in DOMAIN Tables[op] : Tables[op][i].expected # facts
  BY TablesSound DEF TableSound
<1>2. Decision(op, phase, facts) = [kind |-> "conflict"]
  BY <1>1, DecisionOf
<1>. QED BY <1>2

(* Whatever facts a collector returns, recovery acts on the recorded phase *)
(* only when no other row of the table expects those facts, and leaves the *)
(* phase only for the very next one.                                       *)
THEOREM NextPhaseOnly == OnlyNextPhaseSkipped
<1>. SUFFICES ASSUME NEW op \in DurableOperations, NEW i \in DOMAIN Tables[op],
                     NEW facts \in FactSpace[op]
              PROVE  LET decision == Decision(op, Tables[op][i].phase, facts)
                     IN  /\ decision.kind = "perform" =>
                               RowsFor(op, facts) = {i} /\ decision.name = Tables[op][i].action
                         /\ decision.kind = "advance" =>
                               RowsFor(op, facts) = {i + 1}
                               /\ decision.to = Tables[op][i + 1].phase
                         /\ decision.kind = "conflict" => RowsFor(op, facts) \cap {i, i + 1} = {}
  BY DEF OnlyNextPhaseSkipped
<1>. DEFINE rows == Tables[op]
            decision == Decision(op, rows[i].phase, facts)
<1>1. \A j, k \in DOMAIN rows : /\ rows[j].phase = rows[k].phase => j = k
                                /\ rows[j].expected = rows[k].expected => j = k
  BY TablesSound DEF TableSound
<1>2. CASE rows[i].expected = facts /\ decision = [kind |-> "perform", name |-> rows[i].action]
  <2>1. RowsFor(op, facts) = {i}
    BY <1>1, <1>2 DEF RowsFor
  <2>. QED BY <2>1, <1>2
<1>3. CASE /\ i + 1 \in DOMAIN rows /\ rows[i + 1].expected = facts
           /\ decision = [kind |-> "advance", to |-> rows[i + 1].phase]
  <2>1. RowsFor(op, facts) = {i + 1}
    BY <1>1, <1>3 DEF RowsFor
  <2>. QED BY <2>1, <1>3
<1>4. CASE /\ decision = [kind |-> "conflict"] /\ rows[i].expected # facts
           /\ i + 1 \in DOMAIN rows => rows[i + 1].expected # facts
  <2>1. RowsFor(op, facts) \cap {i, i + 1} = {}
    BY <1>4 DEF RowsFor
  <2>. QED BY <2>1, <1>4
<1>5. \/ rows[i].expected = facts /\ decision = [kind |-> "perform", name |-> rows[i].action]
      \/ /\ i + 1 \in DOMAIN rows /\ rows[i + 1].expected = facts
         /\ decision = [kind |-> "advance", to |-> rows[i + 1].phase]
      \/ /\ decision = [kind |-> "conflict"] /\ rows[i].expected # facts
         /\ i + 1 \in DOMAIN rows => rows[i + 1].expected # facts
  BY <1>1, DecisionOf
<1>. QED BY <1>2, <1>3, <1>4, <1>5

(***************************************************************************)
(* The steps of Shelf                                                      *)
(***************************************************************************)

Ops == {"add", "restore", "move"}

(* The rows of an add, and that each is for a phase an add passes before the last. *)
LEMMA RowsOfAdd ==
  /\ Rows["add"] = AddRows
  /\ DOMAIN AddRows = 1..5
  /\ \A i \in 1..5 : AddRows[i].phase \in Phases("add") \ {"PostCommitValidated"}
BY DEF Rows, AddRows, Row, Phases, PhaseAfter

(* The same for a restore. *)
LEMMA RowsOfRestore ==
  /\ Rows["restore"] = RestoreRows
  /\ DOMAIN RestoreRows = 1..5
  /\ \A i \in 1..5 : RestoreRows[i].phase \in Phases("restore") \ {"PostCommitValidated"}
BY DEF Rows, RestoreRows, Row, Phases, PhaseAfter

(* The same for a move. *)
LEMMA RowsOfMove ==
  /\ Rows["move"] = MoveRows
  /\ DOMAIN MoveRows = 1..6
  /\ \A i \in 1..6 : MoveRows[i].phase \in Phases("move") \ {"PostCommitValidated"}
BY DEF Rows, MoveRows, Row, Phases, PhaseAfter

(* Every row names a phase of its operation and an action recovery knows. *)
LEMMA RowPhases ==
  ASSUME NEW op \in Ops, NEW i \in DOMAIN Rows[op]
  PROVE  /\ Rows[op][i].phase \in Phases(op) \ {"PostCommitValidated"}
         /\ Rows[op][i].action \in RowActions
<1>1. Rows[op][i].phase \in Phases(op) \ {"PostCommitValidated"}
  BY RowsOfAdd, RowsOfRestore, RowsOfMove DEF Ops
<1>2. Rows[op][i].action \in RowActions
  BY DEF RowActions, Rows, Ops
<1> QED BY <1>1, <1>2

(* Decide performs the action of the recorded phase's row, or advances to the row
   after it; in either case the facts are the ones that row expects. *)
LEMMA DecideResult ==
  ASSUME NEW op \in Ops, NEW phase, NEW facts
  PROVE  \/ \E i \in DOMAIN Rows[op] :
              /\ Rows[op][i].phase = phase /\ Rows[op][i].expected = facts
              /\ Decide(op, phase, facts) = [kind |-> "perform", name |-> Rows[op][i].action]
         \/ \E i \in DOMAIN Rows[op] :
              /\ Rows[op][i].phase = phase
              /\ i + 1 \in DOMAIN Rows[op] /\ Rows[op][i + 1].expected = facts
              /\ Decide(op, phase, facts) = [kind |-> "advance", to |-> Rows[op][i + 1].phase]
         \/ Decide(op, phase, facts) = [kind |-> "conflict"]
<1> DEFINE rows == Rows[op]
           here == {i \in DOMAIN rows : rows[i].phase = phase}
           Matches(i) == i \in DOMAIN rows /\ rows[i].expected = facts
           i1 == CHOOSE i \in here : Matches(i)
           i2 == CHOOSE i \in here : Matches(i + 1)
<1>1. CASE \E i \in here : Matches(i)
  <2>1. i1 \in here /\ Matches(i1)
    BY <1>1
  <2>2. Decide(op, phase, facts) = [kind |-> "perform", name |-> Rows[op][i1].action]
    BY <1>1 DEF Decide, DecideIn
  <2> QED BY <2>1, <2>2
<1>2. CASE ~(\E i \in here : Matches(i)) /\ \E i \in here : Matches(i + 1)
  <2>1. i2 \in here /\ Matches(i2 + 1)
    BY <1>2
  <2>2. Decide(op, phase, facts) = [kind |-> "advance", to |-> Rows[op][i2 + 1].phase]
    BY <1>2 DEF Decide, DecideIn
  <2> QED BY <2>1, <2>2
<1>3. CASE ~(\E i \in here : Matches(i)) /\ ~(\E i \in here : Matches(i + 1))
  BY <1>3 DEF Decide, DecideIn
<1> QED BY <1>1, <1>2, <1>3

(* The fields of a record are typed, and another phase of its operation makes a
   record again. *)
LEMMA RecordFields ==
  ASSUME NEW r \in Records
  PROVE  /\ r.op \in Ops /\ r.phase \in Phases(r.op)
         /\ r.path \in Paths /\ r.dest \in Paths
         /\ r.strategy \in {"symlink", "copy"} /\ r.fp \in Contents
         /\ r.exclBefore \in BOOLEAN /\ r.keepIgnore \in BOOLEAN /\ r.backupKnown \in BOOLEAN
         /\ \A ph \in Phases(r.op) : [r EXCEPT !.phase = ph] \in Records
         /\ [r EXCEPT !.backupKnown = TRUE] \in Records
         /\ [r EXCEPT !.backupKnown = TRUE].op = r.op
         /\ [r EXCEPT !.backupKnown = TRUE].phase = r.phase
<1> DEFINE R(op) == [op : {op}, phase : Phases(op), path : Paths, dest : Paths,
          strategy : {"symlink", "copy"}, fp : Contents,
          exclBefore : BOOLEAN, keepIgnore : BOOLEAN, backupKnown : BOOLEAN]
<1>1. DOMAIN PhaseAfter = Ops
  BY DEF PhaseAfter, Ops
<1>2. PICK op \in Ops : r \in R(op)
  BY <1>1 DEF Records
<1>3. \A x : x \in R(op) => x \in Records
  BY <1>1 DEF Records
<1>4. r.op = op
  BY <1>2
<1> HIDE <1>1
<1> QED BY <1>2, <1>3, <1>4

(* A record that a step is to advance is not finalized. *)
Coherent ==
  rec # NoRecord /\ pc \notin {"idle", "refused", "drop"}
    => rec.phase # "PostCommitValidated"

TypeInv == TypeOK /\ Coherent

(* The initial states are well typed. *)
LEMMA TypeInit == Init => TypeInv
BY DEF Init, TypeInv, TypeOK, Coherent, Steps

(* The steps a process may be at include recovery's actions. *)
LEMMA StepsKnown ==
  /\ {"idle", "refused", "act", "install", "unlink", "verify", "identify", "create",
      "persist", "drop", "decide"} \subseteq Steps
  /\ RowActions \subseteq Steps
  /\ "DeleteBackupAndComplete" \in Steps
<1>1. RestoreRows[5].action = "DeleteBackupAndComplete"
  BY DEF RestoreRows, Row
<1>2. RestoreRows[5].action \in RowActions
  BY RowsOfRestore, RowPhases DEF Ops
<1> QED BY <1>1, <1>2 DEF Steps

(* A well-typed record that is there is a record. *)
LEMMA RecNow ==
  ASSUME TypeInv, rec # NoRecord
  PROVE  /\ rec \in Records /\ rec.op \in Ops /\ rec.phase \in Phases(rec.op)
         /\ rec.path \in Paths /\ rec.dest \in Paths
         /\ rec.strategy \in {"symlink", "copy"} /\ rec.fp \in Contents
         /\ rec.exclBefore \in BOOLEAN /\ rec.keepIgnore \in BOOLEAN
         /\ rec.backupKnown \in BOOLEAN
         /\ \A ph \in Phases(rec.op) : [rec EXCEPT !.phase = ph] \in Records
         /\ [rec EXCEPT !.backupKnown = TRUE] \in Records
BY RecordFields DEF TypeInv, TypeOK

(* An iteration of the recovery loop keeps the types, whatever the facts. *)
LEMMA TypeDecide ==
  ASSUME TypeInv, NEW facts, DecideWith(facts)
  PROVE  TypeInv'
<1> DEFINE decision == Decide(rec.op, rec.phase, facts)
<1>1. rec # NoRecord /\ pc = "decide"
  BY DEF DecideWith
<1>2. /\ rec.op \in Ops /\ rec \in Records
      /\ \A ph \in Phases(rec.op) : [rec EXCEPT !.phase = ph] \in Records
  BY <1>1, RecNow
<1>3. CASE /\ decision.kind = "perform" /\ turns <= MaxTurns[rec.op]
           /\ pc' = (IF decision.name = "DeleteRecordOnly" THEN "drop" ELSE decision.name)
           /\ turns' = turns + 1 /\ rec' = rec
  <2>1. decision.name \in RowActions
    BY <1>2, <1>3, DecideResult, RowPhases
  <2>2. pc' \in Steps
    BY <1>3, <2>1, StepsKnown
  <2>3. turns' \in 0..11
    BY <1>2, <1>3 DEF TypeInv, TypeOK, MaxTurns, Ops
  <2> QED BY <1>1, <1>3, <2>2, <2>3 DEF DecideWith, TypeInv, TypeOK, Coherent, disk, user
<1>4. CASE /\ decision.kind = "advance" /\ turns <= MaxTurns[rec.op]
           /\ rec' = [rec EXCEPT !.phase = decision.to]
           /\ turns' = turns + 1 /\ pc' = pc
  <2>1. decision.to \in Phases(rec.op) \ {"PostCommitValidated"}
    BY <1>2, <1>4, DecideResult, RowPhases
  <2>2. rec' \in Records /\ rec'.phase = decision.to
    BY <1>2, <1>4, <2>1 DEF Records
  <2>3. turns' \in 0..11
    BY <1>2, <1>4 DEF TypeInv, TypeOK, MaxTurns, Ops
  <2> QED BY <1>1, <1>4, <2>1, <2>2, <2>3 DEF DecideWith, TypeInv, TypeOK, Coherent, disk, user
<1>5. CASE pc' = "refused" /\ turns' = 0 /\ rec' = rec
  BY <1>5, StepsKnown DEF DecideWith, TypeInv, TypeOK, Coherent, disk, user
<1> QED BY <1>1, <1>2, <1>3, <1>4, <1>5 DEF DecideWith, TypeInv, TypeOK, MaxTurns, Ops

(* What an add transfers into the store is a regular file. *)
LEMMA AddTransfersFile ==
  ASSUME rec.op = "add", TransferReady
  PROVE  repo[rec.path] \in Contents
<1>1. TransferEnds(rec)[1] = repo[rec.path]
  BY DEF TransferEnds
<1>2. CanonicalKind(repo[rec.path]) = "RegularFile"
  BY <1>1 DEF TransferReady, TransferFacts
<1> QED BY <1>2 DEF CanonicalKind

(* Every step of an add, by the command or by recovery, keeps the types. *)
LEMMA TypeAddStep ==
  ASSUME TypeInv, AddStep
  PROVE  TypeInv'
<1> USE RecNow, StepsKnown DEF TypeInv, TypeOK, Coherent, At, Doing, Goto, disk, user
<1>1. CASE AddExclude
  BY <1>1 DEF AddExclude
<1>2. CASE AddTransfer
  <2>1. repo[rec.path] \in Contents
    BY <1>2, AddTransfersFile DEF AddTransfer
  <2> QED BY <1>2, <2>1 DEF AddTransfer
<1>3. CASE AddInstall
  BY <1>3 DEF AddInstall
<1>4. CASE AddUnlink
  BY <1>4 DEF AddUnlink
<1>5. CASE AddMaterialize
  BY <1>5 DEF AddMaterialize
<1>6. CASE AddInstallCopy
  BY <1>6 DEF AddInstallCopy
<1>7. CASE AddSaveManifest
  BY <1>7 DEF AddSaveManifest
<1>8. CASE AddValidate
  BY <1>8 DEF AddValidate
<1>9. CASE AddRemoveOwnedExclude
  BY <1>9 DEF AddRemoveOwnedExclude
<1>10. CASE AddDecide
  BY <1>10, TypeDecide DEF AddDecide
<1> QED BY <1>1, <1>2, <1>3, <1>4, <1>5, <1>6, <1>7, <1>8, <1>9, <1>10 DEF AddStep

(* Every step of a restore keeps the types. *)
LEMMA TypeRestoreStep ==
  ASSUME TypeInv, RestoreStep
  PROVE  TypeInv'
<1> USE RecNow, StepsKnown DEF TypeInv, TypeOK, Coherent, At, Doing, Goto, disk, user
<1>1. CASE RestoreRegularize
  BY <1>1 DEF RestoreRegularize
<1>2. CASE RestoreInstall
  BY <1>2 DEF RestoreInstall
<1>3. CASE RestoreVerify
  BY <1>3 DEF RestoreVerify
<1>4. CASE RestoreStage
  BY <1>4 DEF RestoreStage, MoveCanonical
<1>5. CASE RestoreIdentify
  BY <1>5 DEF RestoreIdentify
<1>6. CASE RestoreRemoveManifest
  BY <1>6 DEF RestoreRemoveManifest
<1>7. CASE RestoreExclude
  BY <1>7 DEF RestoreExclude
<1>8. CASE RestoreCheck
  BY <1>8 DEF RestoreCheck
<1>9. CASE RestoreDeleteBackup
  BY <1>9 DEF RestoreDeleteBackup
<1>10. CASE RestoreDecide
  BY <1>10, TypeDecide DEF RestoreDecide
<1> QED BY <1>1, <1>2, <1>3, <1>4, <1>5, <1>6, <1>7, <1>8, <1>9, <1>10 DEF RestoreStep

(* Every step of a move keeps the types. *)
LEMMA TypeMoveStep ==
  ASSUME TypeInv, MoveStep
  PROVE  TypeInv'
<1> USE RecNow, StepsKnown DEF TypeInv, TypeOK, Coherent, At, Doing, Goto, disk, user
<1>1. CASE MoveExclude
  BY <1>1 DEF MoveExclude
<1>2. CASE MoveTransfer
  BY <1>2 DEF MoveTransfer, MoveCanonical
<1>3. CASE MoveRemoveOld
  BY <1>3 DEF MoveRemoveOld
<1>4. CASE MoveCreateNew
  BY <1>4 DEF MoveCreateNew
<1>5. CASE MoveInstallNew
  BY <1>5 DEF MoveInstallNew
<1>6. CASE MoveSaveManifest
  BY <1>6 DEF MoveSaveManifest
<1>7. CASE MoveDropOldExclude
  BY <1>7 DEF MoveDropOldExclude
<1>8. CASE MoveValidate
  BY <1>8 DEF MoveValidate
<1>9. CASE MoveRemoveOwnedExclude
  BY <1>9 DEF MoveRemoveOwnedExclude
<1>10. CASE MoveDecide
  BY <1>10, TypeDecide DEF MoveDecide
<1> QED BY <1>1, <1>2, <1>3, <1>4, <1>5, <1>6, <1>7, <1>8, <1>9, <1>10 DEF MoveStep

(* The start of a command, and a detach, keep the types. *)
LEMMA TypeCommand ==
  ASSUME TypeInv, Command
  PROVE  TypeInv'
<1> USE StepsKnown DEF TypeInv, TypeOK, Coherent, disk, user
<1>1. ASSUME NEW p \in Paths, NEW s \in Strategies, AddBegin(p, s)
      PROVE  TypeInv'
  BY <1>1, ParametersTyped DEF AddBegin, AddPlanned, AddSource, Begin, Goto, Records, PhaseAfter, Phases
<1>2. ASSUME NEW p \in Paths, NEW k \in KeepIgnore, RestoreBegin(p, k)
      PROVE  TypeInv'
  BY <1>2, ParametersTyped
     DEF RestoreBegin, RestorePlanned, RestoreInspected, RestoreAsFound, Begin, Goto, Records, PhaseAfter, Phases, ObservedStrategy
<1>3. ASSUME NEW p \in Paths, NEW q \in Paths, MoveBegin(p, q)
      PROVE  TypeInv'
  BY <1>3 DEF MoveBegin, MovePlanned, Begin, Goto, Records, PhaseAfter, Phases, ObservedStrategy
<1>4. ASSUME NEW p \in Paths, Detach(p)
      PROVE  TypeInv'
  BY <1>4 DEF Detach
<1> QED BY <1>1, <1>2, <1>3, <1>4 DEF Command

(* What all operations share (phase updates, stops, recovery's start) keeps the
   types. *)
LEMMA TypeProcess ==
  ASSUME TypeInv, Persist \/ RemoveRecord \/ Halt \/ BeginRecovery
  PROVE  TypeInv'
<1> USE RecNow, StepsKnown DEF TypeInv, TypeOK, Coherent, Goto, disk, user
<1>1. CASE Persist
  <2> DEFINE next == PhaseAfter[rec.op][rec.phase]
  <2>1. rec # NoRecord /\ rec.phase \in Phases(rec.op) \ {"PostCommitValidated"}
    BY <1>1 DEF Persist
  <2>2. next \in Phases(rec.op)
    BY <2>1, RecNow DEF Ops, Phases, PhaseAfter
  <2>3. rec' \in Records /\ rec'.phase = next
    BY <1>1, <2>1, <2>2, RecNow DEF Persist, Records
  <2> QED BY <1>1, <2>3 DEF Persist
<1>2. CASE RemoveRecord
  BY <1>2 DEF RemoveRecord
<1>3. CASE Halt
  BY <1>3 DEF Halt
<1>4. CASE BeginRecovery
  BY <1>4 DEF BeginRecovery
<1> QED BY <1>1, <1>2, <1>3, <1>4

(* The user's acts keep the types. *)
LEMMA TypeUserAct ==
  ASSUME TypeInv, UserAct
  PROVE  TypeInv'
<1> USE DEF TypeInv, TypeOK, Coherent, Act, Discard, NewEntry, disk, user
<1>1. ASSUME NEW p \in Paths, NEW c \in Contents, Edit(p, c)
      PROVE  TypeInv'
  BY <1>1 DEF Edit
<1>2. ASSUME NEW p \in Paths, NEW c \in Contents, Replace(p, c)
      PROVE  TypeInv'
  BY <1>2 DEF Replace
<1>3. ASSUME NEW p \in Paths, Delete(p)
      PROVE  TypeInv'
  BY <1>3 DEF Delete
<1>4. ASSUME NEW p \in Paths, Track(p)
      PROVE  TypeInv'
  BY <1>4 DEF Track
<1>5. ASSUME NEW p \in Paths, Unexclude(p)
      PROVE  TypeInv'
  BY <1>5 DEF Unexclude
<1> QED BY <1>1, <1>2, <1>3, <1>4, <1>5 DEF UserAct

(* Every step keeps the types. *)
LEMMA TypeNext ==
  ASSUME TypeInv, Next
  PROVE  TypeInv'
BY TypeCommand, TypeAddStep, TypeRestoreStep, TypeMoveStep, TypeProcess, TypeUserAct
   DEF Next, Work

(* A stuttering step keeps the types. *)
LEMMA TypeStutter ==
  ASSUME TypeInv, UNCHANGED vars
  PROVE  TypeInv'
BY DEF vars, TypeInv, TypeOK, Coherent

(* Every reachable state is well typed: a step never writes a phase, a path or a
   content that its record and its files cannot hold, and the recovery loop stays
   within its iterations.  This holds for any sets of paths and contents. *)
THEOREM TypeCorrect == Spec => []TypeOK
<1>1. TypeInv /\ [Next]_vars => TypeInv'
  BY TypeNext, TypeStutter
<1>2. TypeInv => TypeOK
  BY DEF TypeInv
<1> QED BY TypeInit, <1>1, <1>2, PTL DEF Spec

(* What each operation knows of its excludes and its manifest entry at each phase. *)
AddExcludes ==
  /\ ( \/ rec.phase \in {"StoreTransferred", "RepoMaterialized", "ManifestSaved",
                         "PostCommitValidated"}
       \/ rec.phase = "RecordCreated" /\ pc = "persist"
       \/ rec.phase = "ExcludeWritten" /\ pc \in {"act", "install", "unlink", "persist"} )
     => rec.path \in excl \cup unlisted
  /\ rec.phase \in {"RecordCreated", "ExcludeWritten"} => ~Managed(rec.path)

RestoreExcludes ==
  ( \/ rec.phase \in {"ManifestRemoved", "ExcludeUpdated", "PostCommitValidated"}
    \/ rec.phase = "StoreStaged" /\ pc = "persist" )
  => ~Managed(rec.path)

MoveExcludes ==
  /\ rec.path # rec.dest /\ rec.exclBefore
  /\ (rec.phase # "RecordCreated" \/ pc = "persist") => rec.dest \in excl \cup unlisted
  /\ ( \/ rec.phase \in {"ManifestSaved", "ExcludeFinalized", "PostCommitValidated"}
       \/ rec.phase = "RepoMoved" /\ pc = "persist" )
     => ~Managed(rec.path)

RecordedExcludes ==
  rec # NoRecord =>
    /\ rec.op = "add" => AddExcludes
    /\ rec.op = "restore" => RestoreExcludes
    /\ rec.op = "move" => MoveExcludes

ExcludeInv == TypeInv /\ ManagedExcluded /\ RecordedExcludes

(* An advance of an add beyond RecordCreated has seen the exclude; an advance of a
   restore or move to a phase after its manifest save has seen the manifest. *)
LEMMA AddAdvance ==
  ASSUME NEW phase, NEW facts, Decide("add", phase, facts).kind = "advance"
  PROVE  /\ facts[4] = "Present"
         /\ Decide("add", phase, facts).to # "RecordCreated"
         /\ Decide("add", phase, facts).to = "ExcludeWritten" => phase = "RecordCreated"
<1>1. \A j \in 1..5 : j > 1 =>
        /\ AddRows[j].expected[4] = "Present"
        /\ AddRows[j].phase # "RecordCreated"
        /\ AddRows[j].phase = "ExcludeWritten" => j = 2 /\ AddRows[1].phase = "RecordCreated"
  BY DEF AddRows, Row
<1>2. PICK i \in 1..5 : /\ i + 1 \in 1..5 /\ AddRows[i + 1].expected = facts
                        /\ AddRows[i].phase = phase
                        /\ Decide("add", phase, facts) = [kind |-> "advance", to |-> AddRows[i + 1].phase]
  BY DecideResult, RowsOfAdd DEF Ops
<1> QED BY <1>1, <1>2

(* An advance of a restore to ManifestRemoved or later has seen that the manifest
   has no entry. *)
LEMMA RestoreAdvance ==
  ASSUME NEW phase, NEW facts, Decide("restore", phase, facts).kind = "advance"
  PROVE  /\ Decide("restore", phase, facts).to \in {"ManifestRemoved", "ExcludeUpdated"}
              => facts[3] = "Absent"
         /\ Decide("restore", phase, facts).to # "PostCommitValidated"
<1>1. \A j \in 1..5 :
        /\ RestoreRows[j].phase \in {"ManifestRemoved", "ExcludeUpdated"}
             => RestoreRows[j].expected[3] = "Absent"
        /\ RestoreRows[j].phase # "PostCommitValidated"
  BY DEF RestoreRows, Row
<1>2. PICK i \in 1..5 : /\ i + 1 \in 1..5 /\ RestoreRows[i + 1].expected = facts
                        /\ Decide("restore", phase, facts) = [kind |-> "advance", to |-> RestoreRows[i + 1].phase]
  BY DecideResult, RowsOfRestore DEF Ops
<1> QED BY <1>1, <1>2

(* An advance of a move has seen the new exclude, and the new manifest entry when the
   advanced phase says so. *)
LEMMA MoveAdvance ==
  ASSUME NEW phase, NEW facts, Decide("move", phase, facts).kind = "advance"
  PROVE  /\ facts[4] \in {"OldAndNew", "NewOnly"}
         /\ Decide("move", phase, facts).to \in {"ManifestSaved", "ExcludeFinalized"}
              => facts[3] = "NewPath"
         /\ Decide("move", phase, facts).to # "PostCommitValidated"
<1>1. \A j \in 1..6 :
        /\ MoveRows[j].phase # "PostCommitValidated"
        /\ j > 1 => MoveRows[j].expected[4] \in {"OldAndNew", "NewOnly"}
        /\ MoveRows[j].phase \in {"ManifestSaved", "ExcludeFinalized"}
             => MoveRows[j].expected[3] = "NewPath"
  BY DEF MoveRows, Row
<1>2. PICK i \in 1..6 : /\ i + 1 \in 1..6 /\ MoveRows[i + 1].expected = facts
                        /\ Decide("move", phase, facts) = [kind |-> "advance", to |-> MoveRows[i + 1].phase]
  BY DecideResult, RowsOfMove DEF Ops
<1> QED BY <1>1, <1>2

(* An iteration of the recovery loop leaves the disk alone, picks a row's action or
   stops, and changes nothing of the record but its phase. *)
LEMMA DecideFrame ==
  ASSUME TypeInv, NEW facts, DecideWith(facts)
  PROVE  /\ rec # NoRecord /\ pc = "decide"
         /\ UNCHANGED <<disk, user, temp, same>>
         /\ pc' \notin {"act", "install", "unlink", "persist", "verify", "identify", "create"}
         /\ \/ rec' = rec
            \/ LET decision == Decide(rec.op, rec.phase, facts)
               IN  /\ decision.kind = "advance" /\ pc' = pc
                   /\ rec' = [rec EXCEPT !.phase = decision.to]
                   /\ rec'.phase = decision.to
                   /\ rec'.op = rec.op /\ rec'.path = rec.path /\ rec'.dest = rec.dest
                   /\ rec'.exclBefore = rec.exclBefore /\ rec'.strategy = rec.strategy
<1> DEFINE decision == Decide(rec.op, rec.phase, facts)
<1>1. rec # NoRecord /\ pc = "decide" /\ UNCHANGED <<disk, user, temp, same>>
  BY DEF DecideWith
<1>2. rec \in Records /\ rec.op \in Ops
  BY <1>1, RecNow
<1>3. RowActions \cap {"act", "install", "unlink", "persist", "verify", "identify", "create"} = {}
  <2>1. \A i \in 1..5 : AddRows[i].action \notin
          {"act", "install", "unlink", "persist", "verify", "identify", "create"}
    BY DEF AddRows, Row
  <2>2. \A i \in 1..5 : RestoreRows[i].action \notin
          {"act", "install", "unlink", "persist", "verify", "identify", "create"}
    BY DEF RestoreRows, Row
  <2>3. \A i \in 1..6 : MoveRows[i].action \notin
          {"act", "install", "unlink", "persist", "verify", "identify", "create"}
    BY DEF MoveRows, Row
  <2>4. \A op \in DOMAIN Rows : op \in Ops
    BY DEF Rows, Ops
  <2> QED BY <2>1, <2>2, <2>3, <2>4, RowsOfAdd, RowsOfRestore, RowsOfMove DEF RowActions, Ops
<1>4. decision.kind = "perform" => decision.name \in RowActions
  BY <1>2, DecideResult, RowPhases
<1>5. rec' # rec => /\ decision.kind = "advance" /\ pc' = pc
                    /\ rec' = [rec EXCEPT !.phase = decision.to]
  BY DEF DecideWith
<1>6. pc' \notin {"act", "install", "unlink", "persist", "verify", "identify", "create"}
  BY <1>1, <1>3, <1>4 DEF DecideWith
<1>7. ASSUME rec' = [rec EXCEPT !.phase = decision.to]
      PROVE  /\ rec'.phase = decision.to
             /\ rec'.op = rec.op /\ rec'.path = rec.path /\ rec'.dest = rec.dest
             /\ rec'.exclBefore = rec.exclBefore /\ rec'.strategy = rec.strategy
  BY <1>2, <1>7 DEF Records
<1> QED BY <1>1, <1>5, <1>6, <1>7

(* A step of an add keeps every item excluded. *)
LEMMA AddStepExcludes ==
  ASSUME ExcludeInv, AddStep
  PROVE  (ManagedExcluded /\ RecordedExcludes)'
<1> USE RecNow DEF ExcludeInv, TypeInv, TypeOK, ManagedExcluded, RecordedExcludes, AddExcludes,
            Managed, At, Doing, Goto, disk, user
<1>1. CASE AddExclude
  BY <1>1 DEF AddExclude
<1>2. CASE AddTransfer
  BY <1>2 DEF AddTransfer
<1>3. CASE AddInstall
  BY <1>3 DEF AddInstall
<1>4. CASE AddUnlink
  BY <1>4 DEF AddUnlink
<1>5. CASE AddMaterialize
  BY <1>5 DEF AddMaterialize
<1>6. CASE AddInstallCopy
  BY <1>6 DEF AddInstallCopy
<1>7. CASE AddSaveManifest
  BY <1>7 DEF AddSaveManifest
<1>8. CASE AddValidate
  BY <1>8 DEF AddValidate
<1>9. CASE AddRemoveOwnedExclude
  BY <1>9 DEF AddRemoveOwnedExclude
<1>10. CASE AddDecide
  <2> DEFINE decision == Decide("add", rec.phase, AddFacts)
  <2>1. rec.op = "add" /\ DecideWith(AddFacts)
    BY <1>10 DEF AddDecide
  <2>2. CASE rec' = rec
    BY <2>1, <2>2, DecideFrame
  <2>3. CASE rec' # rec
    <3>1. decision.kind = "advance" /\ rec'.phase = decision.to
      BY <2>1, <2>3, DecideFrame
    <3>2. AddFacts[4] = "Present" /\ decision.to # "RecordCreated"
      BY <3>1, AddAdvance
    <3>3. rec.path \in excl
      BY <3>2 DEF AddFacts
    <3>4. decision.to = "ExcludeWritten" => rec.phase = "RecordCreated"
      BY <3>1, AddAdvance
    <3>5. rec'.op = rec.op /\ rec'.path = rec.path /\ rec'.dest = rec.dest
           /\ rec'.exclBefore = rec.exclBefore /\ pc' = "decide"
           /\ UNCHANGED <<excl, unlisted, manifest>>
      BY <2>1, <2>3, DecideFrame
    <3> HIDE DEF decision
    <3>6. AddExcludes'
      BY <2>1, <2>3, <3>1, <3>2, <3>3, <3>4, <3>5, DecideFrame
    <3>7. ManagedExcluded'
      BY <3>5
    <3> QED BY <2>1, <3>5, <3>6, <3>7
  <2> QED BY <2>2, <2>3
<1> QED BY <1>1, <1>2, <1>3, <1>4, <1>5, <1>6, <1>7, <1>8, <1>9, <1>10 DEF AddStep

(* A step of a restore keeps every item excluded: the manifest entry goes first. *)
LEMMA RestoreStepExcludes ==
  ASSUME ExcludeInv, RestoreStep
  PROVE  (ManagedExcluded /\ RecordedExcludes)'
<1> USE RecNow DEF ExcludeInv, TypeInv, TypeOK, ManagedExcluded, RecordedExcludes, RestoreExcludes,
            Managed, At, Doing, Goto, disk, user
<1>1. CASE RestoreRegularize
  BY <1>1 DEF RestoreRegularize
<1>2. CASE RestoreInstall
  BY <1>2 DEF RestoreInstall
<1>3. CASE RestoreVerify
  BY <1>3 DEF RestoreVerify
<1>4. CASE RestoreStage
  BY <1>4 DEF RestoreStage, MoveCanonical
<1>5. CASE RestoreIdentify
  BY <1>5 DEF RestoreIdentify
<1>6. CASE RestoreRemoveManifest
  BY <1>6 DEF RestoreRemoveManifest
<1>7. CASE RestoreExclude
  BY <1>7 DEF RestoreExclude
<1>8. CASE RestoreCheck
  BY <1>8 DEF RestoreCheck
<1>9. CASE RestoreDeleteBackup
  BY <1>9 DEF RestoreDeleteBackup
<1>10. CASE RestoreDecide
  <2> DEFINE decision == Decide("restore", rec.phase, RestoreFacts)
  <2>1. rec.op = "restore" /\ DecideWith(RestoreFacts)
    BY <1>10 DEF RestoreDecide
  <2>2. CASE rec' = rec
    BY <2>1, <2>2, DecideFrame
  <2>3. CASE rec' # rec
    <3>1. decision.kind = "advance" /\ rec'.phase = decision.to
      BY <2>1, <2>3, DecideFrame
    <3>2. decision.to \in {"ManifestRemoved", "ExcludeUpdated"} => RestoreFacts[3] = "Absent"
      BY <3>1, RestoreAdvance
    <3>3. decision.to \in {"ManifestRemoved", "ExcludeUpdated"} => ~Managed(rec.path)
      BY <3>2 DEF RestoreFacts
    <3>4. decision.to # "PostCommitValidated"
      BY <3>1, RestoreAdvance
    <3>5. rec'.op = rec.op /\ rec'.path = rec.path /\ rec'.dest = rec.dest
           /\ rec'.exclBefore = rec.exclBefore /\ pc' = "decide"
           /\ UNCHANGED <<excl, unlisted, manifest>>
      BY <2>1, <2>3, DecideFrame
    <3> QED BY <2>1, <3>1, <3>2, <3>3, <3>4, <3>5
  <2> QED BY <2>2, <2>3
<1> QED BY <1>1, <1>2, <1>3, <1>4, <1>5, <1>6, <1>7, <1>8, <1>9, <1>10 DEF RestoreStep

(* A step of a move keeps every item excluded: the new exclude comes first. *)
LEMMA MoveStepExcludes ==
  ASSUME ExcludeInv, MoveStep
  PROVE  (ManagedExcluded /\ RecordedExcludes)'
<1> USE RecNow DEF ExcludeInv, TypeInv, TypeOK, ManagedExcluded, RecordedExcludes, MoveExcludes,
            Managed, At, Doing, Goto, disk, user
<1>1. CASE MoveExclude
  BY <1>1 DEF MoveExclude
<1>2. CASE MoveTransfer
  BY <1>2 DEF MoveTransfer, MoveCanonical
<1>3. CASE MoveRemoveOld
  BY <1>3 DEF MoveRemoveOld
<1>4. CASE MoveCreateNew
  BY <1>4 DEF MoveCreateNew
<1>5. CASE MoveInstallNew
  BY <1>5 DEF MoveInstallNew
<1>6. CASE MoveSaveManifest
  BY <1>6 DEF MoveSaveManifest
<1>7. CASE MoveDropOldExclude
  BY <1>7 DEF MoveDropOldExclude
<1>8. CASE MoveValidate
  BY <1>8 DEF MoveValidate
<1>9. CASE MoveRemoveOwnedExclude
  BY <1>9 DEF MoveRemoveOwnedExclude
<1>10. CASE MoveDecide
  <2> DEFINE decision == Decide("move", rec.phase, MoveFacts)
  <2>1. rec.op = "move" /\ DecideWith(MoveFacts)
    BY <1>10 DEF MoveDecide
  <2>2. CASE rec' = rec
    BY <2>1, <2>2, DecideFrame
  <2>3. CASE rec' # rec
    <3>1. decision.kind = "advance" /\ rec'.phase = decision.to
      BY <2>1, <2>3, DecideFrame
    <3>2. /\ MoveFacts[4] \in {"OldAndNew", "NewOnly"}
          /\ decision.to \in {"ManifestSaved", "ExcludeFinalized"} => MoveFacts[3] = "NewPath"
      BY <3>1, MoveAdvance
    <3>3. rec.dest \in excl
      BY <3>2 DEF MoveFacts
    <3>4. decision.to \in {"ManifestSaved", "ExcludeFinalized"} => ~Managed(rec.path)
      BY <3>2 DEF MoveFacts
    <3>5. decision.to # "PostCommitValidated"
      BY <3>1, MoveAdvance
    <3>6. rec'.op = rec.op /\ rec'.path = rec.path /\ rec'.dest = rec.dest
           /\ rec'.exclBefore = rec.exclBefore /\ pc' = "decide"
           /\ UNCHANGED <<excl, unlisted, manifest>>
      BY <2>1, <2>3, DecideFrame
    <3> HIDE DEF decision
    <3>7. MoveExcludes'
      BY <2>1, <2>3, <3>1, <3>2, <3>3, <3>4, <3>5, <3>6, DecideFrame
    <3>8. ManagedExcluded'
      BY <3>6
    <3> QED BY <2>1, <3>6, <3>7, <3>8
  <2> QED BY <2>2, <2>3
<1> QED BY <1>1, <1>2, <1>3, <1>4, <1>5, <1>6, <1>7, <1>8, <1>9, <1>10 DEF MoveStep

(* The start of a command keeps every item excluded. *)
LEMMA CommandExcludes ==
  ASSUME ExcludeInv, Command
  PROVE  (ManagedExcluded /\ RecordedExcludes)'
<1> USE DEF ExcludeInv, TypeInv, TypeOK, ManagedExcluded, RecordedExcludes,
            AddExcludes, RestoreExcludes, MoveExcludes, Managed, Goto, disk, user
<1>1. ASSUME NEW p \in Paths, NEW s \in Strategies, AddBegin(p, s)
      PROVE  (ManagedExcluded /\ RecordedExcludes)'
  BY <1>1 DEF AddBegin, AddPlanned, AddAccepted, Begin
<1>2. ASSUME NEW p \in Paths, NEW k \in KeepIgnore, RestoreBegin(p, k)
      PROVE  (ManagedExcluded /\ RecordedExcludes)'
  BY <1>2 DEF RestoreBegin, RestorePlanned, RestoreInspected, RestoreAsFound, RestoreIntegration, Begin
<1>3. ASSUME NEW p \in Paths, NEW q \in Paths, MoveBegin(p, q)
      PROVE  (ManagedExcluded /\ RecordedExcludes)'
  BY <1>3 DEF MoveBegin, MovePlanned, Begin
<1>4. ASSUME NEW p \in Paths, Detach(p)
      PROVE  (ManagedExcluded /\ RecordedExcludes)'
  BY <1>4 DEF Detach
<1> QED BY <1>1, <1>2, <1>3, <1>4 DEF Command

(* Phase updates, stops and the start of recovery keep every item excluded. *)
LEMMA ProcessExcludes ==
  ASSUME ExcludeInv, Persist \/ RemoveRecord \/ Halt \/ BeginRecovery
  PROVE  (ManagedExcluded /\ RecordedExcludes)'
<1> USE DEF ExcludeInv, TypeInv, TypeOK, ManagedExcluded, RecordedExcludes,
            AddExcludes, RestoreExcludes, MoveExcludes, Managed, Goto, disk, user
<1>1. CASE Persist
  <2> DEFINE next == PhaseAfter[rec.op][rec.phase]
  <2>1. rec # NoRecord /\ rec.phase \in Phases(rec.op) \ {"PostCommitValidated"}
    BY <1>1, RecNow DEF Persist, Coherent
  <2>2. rec \in Records /\ rec.op \in Ops
    BY <2>1, RecNow
  <2>3. /\ rec' = [rec EXCEPT !.phase = next] /\ pc = "persist"
        /\ pc' \in {"drop", "decide", "act"} /\ UNCHANGED <<excl, unlisted, manifest>>
    BY <1>1 DEF Persist
  <2>4. /\ rec'.phase = next /\ rec'.op = rec.op /\ rec'.path = rec.path
        /\ rec'.dest = rec.dest /\ rec'.exclBefore = rec.exclBefore
    BY <2>2, <2>3 DEF Records
  <2>5. CASE rec.op = "add"
    <3>1. /\ next = "ExcludeWritten" => rec.phase = "RecordCreated"
          /\ next # "RecordCreated"
      BY <2>1, <2>5 DEF Phases, PhaseAfter
    <3> QED BY <2>1, <2>3, <2>4, <2>5, <3>1 DEF Phases, PhaseAfter
  <2>6. CASE rec.op = "restore"
    BY <2>1, <2>3, <2>4, <2>6 DEF Phases, PhaseAfter
  <2>7. CASE rec.op = "move"
    BY <2>1, <2>3, <2>4, <2>7 DEF Phases, PhaseAfter
  <2> QED BY <2>2, <2>5, <2>6, <2>7 DEF Ops
<1>2. CASE RemoveRecord
  BY <1>2 DEF RemoveRecord
<1>3. CASE Halt
  BY <1>3 DEF Halt
<1>4. CASE BeginRecovery
  BY <1>4 DEF BeginRecovery
<1> QED BY <1>1, <1>2, <1>3, <1>4

(* A user at most takes an entry out of the managed block. *)
LEMMA UserActLists ==
  ASSUME UserAct
  PROVE  /\ UNCHANGED <<manifest, kept, rec, pc>>
         /\ excl' \subseteq excl /\ excl \cup unlisted \subseteq excl' \cup unlisted'
         /\ unlisted \subseteq unlisted'
<1>1. ASSUME NEW p \in Paths, Unexclude(p)
      PROVE  /\ UNCHANGED <<manifest, kept, rec, pc>>
             /\ excl' = excl \ {p} /\ unlisted' = unlisted \cup {p}
  BY <1>1 DEF Unexclude
<1>2. ASSUME NEW p \in Paths, NEW c \in Contents,
             Edit(p, c) \/ Replace(p, c) \/ Delete(p) \/ Track(p)
      PROVE  UNCHANGED <<manifest, excl, kept, unlisted, rec, pc>>
  BY <1>2 DEF Edit, Replace, Delete, Track, NewEntry, disk
<1>3. ASSUME NEW p \in Paths, Delete(p) \/ Track(p)
      PROVE  UNCHANGED <<manifest, excl, kept, unlisted, rec, pc>>
  BY <1>3 DEF Delete, Track, NewEntry, disk
<1> QED BY <1>1, <1>2, <1>3 DEF UserAct

(* A user keeps every item excluded, but for the entries taken out of the block. *)
LEMMA UserActExcludes ==
  ASSUME ExcludeInv, UserAct
  PROVE  (ManagedExcluded /\ RecordedExcludes)'
BY UserActLists DEF ExcludeInv, TypeInv, TypeOK, ManagedExcluded, RecordedExcludes,
   AddExcludes, RestoreExcludes, MoveExcludes, Managed

(* ExcludeInv holds from the start and is kept by every step. *)
LEMMA ExcludesHold == Spec => []ExcludeInv
<1>1. Init => ExcludeInv
  BY TypeInit DEF Init, ExcludeInv, ManagedExcluded, RecordedExcludes, Managed
<1>2. ExcludeInv /\ [Next]_vars => ExcludeInv'
  <2> SUFFICES ASSUME ExcludeInv, [Next]_vars PROVE ExcludeInv'
    OBVIOUS
  <2>1. CASE Next
    <3>1. TypeInv'
      BY <2>1, TypeNext DEF ExcludeInv
    <3>2. (ManagedExcluded /\ RecordedExcludes)'
      BY <2>1, CommandExcludes, AddStepExcludes, RestoreStepExcludes, MoveStepExcludes,
         ProcessExcludes, UserActExcludes DEF Next, Work
    <3> QED BY <3>1, <3>2 DEF ExcludeInv
  <2>2. CASE UNCHANGED vars
    BY <2>2 DEF vars, ExcludeInv, TypeInv, TypeOK, Coherent, ManagedExcluded, RecordedExcludes,
       AddExcludes, RestoreExcludes, MoveExcludes, Managed
  <2> QED BY <2>1, <2>2
<1> QED BY <1>1, <1>2, PTL DEF Spec

(* No moment of any command, stop or recovery leaves an item without its entry in
   the managed exclude block, unless the user deleted that entry.  The theorem is
   about any number of paths and contents and any sequence of user acts; it rests
   on what each recovery row has seen before it advances. *)
THEOREM ItemsStayExcluded == Spec => []ManagedExcluded
<1>1. ExcludeInv => ManagedExcluded
  BY DEF ExcludeInv
<1> QED BY <1>1, ExcludesHold, PTL

(***************************************************************************)
(* Recovery                                                                *)
(***************************************************************************)

(* Only a command, never recovery, is at these steps. *)
ForwardSteps ==
  /\ pc \in {"idle", "refused", "act", "unlink", "verify"} => turns = 0
  /\ rec # NoRecord /\ pc = "install" /\ rec.phase \in {"RecordCreated", "ExcludeWritten"}
       => turns = 0

(* Once the canonical file of a copy has moved, the copy at the old path is no longer
   a materialization, so recovery will not remove it. *)
MovedCopies ==
  rec # NoRecord /\ rec.op = "move" /\ rec.strategy = "copy" =>
    /\ repo[rec.path] # Link
    /\ rec.path # rec.dest
    /\ (rec.phase = "StoreTransferred" \/ (rec.phase = "DestinationExcluded" /\ pc = "persist"))
         => store[rec.path] = Missing

SparingInv == TypeInv /\ ForwardSteps /\ MovedCopies

(* No action of recovery is a resting place or the decision itself. *)
LEMMA ActionsAreSteps ==
  RowActions \cap {"idle", "refused", "decide"} = {}
<1>1. \A i \in 1..5 : AddRows[i].action \notin {"idle", "refused", "decide"}
  BY DEF AddRows, Row
<1>2. \A i \in 1..5 : RestoreRows[i].action \notin {"idle", "refused", "decide"}
  BY DEF RestoreRows, Row
<1>3. \A i \in 1..6 : MoveRows[i].action \notin {"idle", "refused", "decide"}
  BY DEF MoveRows, Row
<1>4. \A op \in DOMAIN Rows : op \in Ops
  BY DEF Rows, Ops
<1> QED BY <1>1, <1>2, <1>3, <1>4, RowsOfAdd, RowsOfRestore, RowsOfMove DEF RowActions, Ops

(* A move that recovery advances to StoreTransferred has its canonical file at the
   new path. *)
LEMMA MoveStoreAdvance ==
  ASSUME NEW phase, NEW facts, Decide("move", phase, facts).kind = "advance",
         Decide("move", phase, facts).to \in {"DestinationExcluded", "StoreTransferred"}
  PROVE  Decide("move", phase, facts).to = "StoreTransferred" => facts[2] = "NewPresent"
<1>1. \A j \in 1..6 :
        MoveRows[j].phase = "StoreTransferred" => MoveRows[j].expected[2] = "NewPresent"
  BY DEF MoveRows, Row
<1>2. PICK i \in 1..6 : /\ i + 1 \in 1..6 /\ MoveRows[i + 1].expected = facts
                        /\ Decide("move", phase, facts) = [kind |-> "advance", to |-> MoveRows[i + 1].phase]
  BY DecideResult, RowsOfMove DEF Ops
<1> QED BY <1>1, <1>2

(* An iteration of the recovery loop keeps the invariant. *)
LEMMA DecideSparing ==
  ASSUME SparingInv, NEW facts, DecideWith(facts), rec.op = "move" => facts = MoveFacts
  PROVE  (ForwardSteps /\ MovedCopies)'
<1>1. /\ rec # NoRecord /\ pc = "decide" /\ UNCHANGED <<repo, store>>
      /\ pc' \notin {"act", "install", "unlink", "persist", "verify"}
  BY DecideFrame DEF SparingInv, disk
<1>2. pc' \in {"idle", "refused"} => turns' = 0
  <2>1. rec.op \in Ops
    BY <1>1, RecNow DEF SparingInv
  <2> QED BY <1>1, <2>1, DecideResult, RowPhases, ActionsAreSteps DEF DecideWith
<1>3. ForwardSteps'
  BY <1>1, <1>2 DEF ForwardSteps
<1>4. CASE rec' = rec
  BY <1>1, <1>3, <1>4 DEF SparingInv, MovedCopies
<1>5. CASE rec' # rec
  <2> DEFINE decision == Decide(rec.op, rec.phase, facts)
  <2>1. /\ decision.kind = "advance" /\ rec'.phase = decision.to
        /\ rec'.op = rec.op /\ rec'.path = rec.path /\ rec'.dest = rec.dest
        /\ rec'.strategy = rec.strategy
    BY <1>5, DecideFrame DEF SparingInv
  <2>2. rec.op = "move" /\ decision.to = "StoreTransferred" => store[rec.path] = Missing
    <3> SUFFICES ASSUME rec.op = "move", decision.to = "StoreTransferred"
                 PROVE  store[rec.path] = Missing
      OBVIOUS
    <3>1. MoveFacts[2] = "NewPresent"
      BY <2>1, MoveStoreAdvance
    <3> QED BY <3>1 DEF MoveFacts
  <2> HIDE DEF decision
  <2> QED BY <1>1, <1>3, <2>1, <2>2 DEF SparingInv, MovedCopies
<1> QED BY <1>3, <1>4, <1>5

(* Every step of an add keeps the invariant. *)
LEMMA AddStepSparing ==
  ASSUME SparingInv, AddStep
  PROVE  (ForwardSteps /\ MovedCopies)'
<1> USE RecNow DEF SparingInv, TypeInv, TypeOK, ForwardSteps, MovedCopies, At, Doing, Goto, disk, user
<1>1. CASE AddExclude
  BY <1>1 DEF AddExclude
<1>2. CASE AddTransfer
  BY <1>2 DEF AddTransfer
<1>3. CASE AddInstall
  BY <1>3 DEF AddInstall
<1>4. CASE AddUnlink
  BY <1>4 DEF AddUnlink
<1>5. CASE AddMaterialize
  BY <1>5 DEF AddMaterialize
<1>6. CASE AddInstallCopy
  BY <1>6 DEF AddInstallCopy
<1>7. CASE AddSaveManifest
  BY <1>7 DEF AddSaveManifest
<1>8. CASE AddValidate
  BY <1>8 DEF AddValidate
<1>9. CASE AddRemoveOwnedExclude
  BY <1>9 DEF AddRemoveOwnedExclude
<1>10. CASE AddDecide
  BY <1>10, DecideSparing DEF AddDecide
<1> QED BY <1>1, <1>2, <1>3, <1>4, <1>5, <1>6, <1>7, <1>8, <1>9, <1>10 DEF AddStep

(* Every step of a restore keeps the invariant. *)
LEMMA RestoreStepSparing ==
  ASSUME SparingInv, RestoreStep
  PROVE  (ForwardSteps /\ MovedCopies)'
<1> USE RecNow DEF SparingInv, TypeInv, TypeOK, ForwardSteps, MovedCopies, At, Doing, Goto, disk, user
<1>1. CASE RestoreRegularize
  BY <1>1 DEF RestoreRegularize
<1>2. CASE RestoreInstall
  BY <1>2 DEF RestoreInstall
<1>3. CASE RestoreVerify
  BY <1>3 DEF RestoreVerify
<1>4. CASE RestoreStage
  BY <1>4 DEF RestoreStage, MoveCanonical
<1>5. CASE RestoreIdentify
  BY <1>5 DEF RestoreIdentify
<1>6. CASE RestoreRemoveManifest
  BY <1>6 DEF RestoreRemoveManifest
<1>7. CASE RestoreExclude
  BY <1>7 DEF RestoreExclude
<1>8. CASE RestoreCheck
  BY <1>8 DEF RestoreCheck
<1>9. CASE RestoreDeleteBackup
  BY <1>9 DEF RestoreDeleteBackup
<1>10. CASE RestoreDecide
  BY <1>10, DecideSparing DEF RestoreDecide
<1> QED BY <1>1, <1>2, <1>3, <1>4, <1>5, <1>6, <1>7, <1>8, <1>9, <1>10 DEF RestoreStep

(* Every step of a move keeps the invariant. *)
LEMMA MoveStepSparing ==
  ASSUME SparingInv, MoveStep
  PROVE  (ForwardSteps /\ MovedCopies)'
<1> USE RecNow DEF SparingInv, TypeInv, TypeOK, ForwardSteps, MovedCopies, At, Doing, Goto, disk, user
<1>1. CASE MoveExclude
  BY <1>1 DEF MoveExclude
<1>2. CASE MoveTransfer
  <2>1. rec.path # rec.dest => store'[rec.path] = Missing
    BY <1>2 DEF MoveTransfer, MoveCanonical
  <2>2. UNCHANGED <<repo, rec, turns>> /\ pc' = "persist" /\ rec.phase = "DestinationExcluded"
    BY <1>2 DEF MoveTransfer, MoveCanonical
  <2> QED BY <2>1, <2>2
<1>3. CASE MoveRemoveOld
  BY <1>3, EntriesDistinct DEF MoveRemoveOld
<1>4. CASE MoveCreateNew
  BY <1>4 DEF MoveCreateNew
<1>5. CASE MoveInstallNew
  BY <1>5 DEF MoveInstallNew
<1>6. CASE MoveSaveManifest
  BY <1>6 DEF MoveSaveManifest
<1>7. CASE MoveDropOldExclude
  BY <1>7 DEF MoveDropOldExclude
<1>8. CASE MoveValidate
  BY <1>8 DEF MoveValidate
<1>9. CASE MoveRemoveOwnedExclude
  BY <1>9 DEF MoveRemoveOwnedExclude
<1>10. CASE MoveDecide
  BY <1>10, DecideSparing DEF MoveDecide
<1> QED BY <1>1, <1>2, <1>3, <1>4, <1>5, <1>6, <1>7, <1>8, <1>9, <1>10 DEF MoveStep

(* Starts, phase updates, stops and detaches keep the invariant. *)
LEMMA ProcessSparing ==
  ASSUME SparingInv, Command \/ Persist \/ RemoveRecord \/ Halt \/ BeginRecovery
  PROVE  (ForwardSteps /\ MovedCopies)'
<1> USE DEF SparingInv, TypeInv, TypeOK, ForwardSteps, MovedCopies, At, Doing, Goto, disk, user, Recovering
<1>1. CASE Command
  BY <1>1, ParametersTyped DEF Command, AddBegin, AddPlanned, AddSource, RestoreBegin,
      RestorePlanned, RestoreInspected, RestoreAsFound, MoveBegin, MovePlanned, Detach, Begin, ObservedStrategy
<1>2. CASE Persist
  <2> DEFINE next == PhaseAfter[rec.op][rec.phase]
  <2>1. rec # NoRecord /\ rec.phase \in Phases(rec.op) \ {"PostCommitValidated"}
    BY <1>2, RecNow DEF Persist, Coherent
  <2>2. rec \in Records /\ rec.op \in Ops
    BY <2>1, RecNow
  <2>3. /\ rec' = [rec EXCEPT !.phase = next] /\ pc = "persist"
        /\ pc' \in {"drop", "decide", "act"} /\ UNCHANGED <<repo, store, turns>>
        /\ pc' = "act" => turns = 0
    BY <1>2 DEF Persist
  <2>4. /\ rec'.phase = next /\ rec'.op = rec.op /\ rec'.path = rec.path
        /\ rec'.dest = rec.dest /\ rec'.strategy = rec.strategy
    BY <2>2, <2>3 DEF Records
  <2>5. rec.op = "move" /\ next = "StoreTransferred" => rec.phase = "DestinationExcluded"
    BY <2>1 DEF Phases, PhaseAfter
  <2> HIDE DEF next
  <2> QED BY <2>1, <2>3, <2>4, <2>5
<1>3. CASE RemoveRecord
  BY <1>3 DEF RemoveRecord
<1>4. CASE Halt
  BY <1>4 DEF Halt
<1>5. CASE BeginRecovery
  BY <1>5 DEF BeginRecovery
<1> QED BY <1>1, <1>2, <1>3, <1>4, <1>5

(* The user's acts keep the invariant. *)
LEMMA UserActSparing ==
  ASSUME SparingInv, UserAct
  PROVE  (ForwardSteps /\ MovedCopies)'
<1> USE EntriesDistinct DEF SparingInv, TypeInv, TypeOK, ForwardSteps, MovedCopies, Act, NewEntry, disk, user
<1>1. ASSUME NEW p \in Paths, NEW c \in Contents, Edit(p, c)
      PROVE  (ForwardSteps /\ MovedCopies)'
  BY <1>1, RecNow DEF Edit
<1>2. ASSUME NEW p \in Paths, NEW c \in Contents, Replace(p, c)
      PROVE  (ForwardSteps /\ MovedCopies)'
  BY <1>2, RecNow DEF Replace
<1>3. ASSUME NEW p \in Paths, Delete(p)
      PROVE  (ForwardSteps /\ MovedCopies)'
  BY <1>3, RecNow DEF Delete
<1>4. ASSUME NEW p \in Paths, Track(p)
      PROVE  (ForwardSteps /\ MovedCopies)'
  BY <1>4 DEF Track
<1>5. ASSUME NEW p \in Paths, Unexclude(p)
      PROVE  (ForwardSteps /\ MovedCopies)'
  BY <1>5 DEF Unexclude
<1> QED BY <1>1, <1>2, <1>3, <1>4, <1>5 DEF UserAct

(* SparingInv holds from the start and is kept by every step. *)
LEMMA SparingHolds == Spec => []SparingInv
<1>1. Init => SparingInv
  BY TypeInit DEF Init, SparingInv, ForwardSteps, MovedCopies
<1>2. SparingInv /\ [Next]_vars => SparingInv'
  <2>1. ASSUME SparingInv, Next PROVE SparingInv'
    <3>1. TypeInv'
      BY <2>1, TypeNext DEF SparingInv
    <3>2. (ForwardSteps /\ MovedCopies)'
      BY <2>1, AddStepSparing, RestoreStepSparing, MoveStepSparing, ProcessSparing,
         UserActSparing DEF Next, Work
    <3> QED BY <3>1, <3>2 DEF SparingInv
  <2>2. ASSUME SparingInv, UNCHANGED vars PROVE SparingInv'
    BY <2>2, TypeStutter DEF vars, SparingInv, ForwardSteps, MovedCopies
  <2> QED BY <2>1, <2>2
<1> QED BY <1>1, <1>2, PTL DEF Spec

(* Recovery changes or removes no regular file of the working tree: it writes only
   where there is no entry, or over a link of its own. *)
THEOREM RecoverySpares == Spec => RecoverySparesFiles
<1>1. SparingInv /\ [Next]_vars =>
        [acts' = acts /\ Recovering =>
           \A p \in Paths : repo[p] \in Contents => repo'[p] = repo[p]]_vars
  <2> SUFFICES ASSUME SparingInv, Next, acts' = acts, turns > 0,
                      NEW p \in Paths, repo[p] \in Contents
               PROVE  repo'[p] = repo[p]
    BY DEF Recovering
  <2>1. ~UserAct
    BY DEF UserAct, Edit, Replace, Delete, Track, Unexclude, Act, SparingInv, TypeInv, TypeOK
  <2>2. CASE Command \/ Persist \/ RemoveRecord \/ Halt \/ BeginRecovery
    BY <2>2 DEF Command, AddBegin, RestoreBegin, MoveBegin, Begin, Detach, Persist,
                RemoveRecord, Halt, BeginRecovery, disk
  <2>3. CASE AddStep
    <3> USE RecNow, EntriesDistinct DEF SparingInv, TypeInv, TypeOK, ForwardSteps, At, Doing
    <3>1. CASE AddMaterialize
      BY <3>1 DEF AddMaterialize, AddCreatable
    <3>2. CASE AddInstallCopy
      BY <3>2 DEF AddInstallCopy, AddMaterializable, AddCreatable
    <3>3. ~AddTransfer /\ ~AddInstall /\ ~AddUnlink
      <4>1. ~AddTransfer
        <5>1. AddTransfer => At("add", "ExcludeWritten", "act")
          BY Zenon DEF AddTransfer
        <5> QED BY <5>1
      <4>2. ~AddInstall
        BY DEF AddInstall
      <4>3. ~AddUnlink
        BY DEF AddUnlink
      <4> QED BY <4>1, <4>2, <4>3
    <3>4. CASE AddDecide
      BY <3>4 DEF AddDecide, DecideWith, disk
    <3>5. CASE AddExclude \/ AddSaveManifest \/ AddValidate \/ AddRemoveOwnedExclude
      BY <3>5 DEF AddExclude, AddSaveManifest, AddValidate, AddRemoveOwnedExclude, disk
    <3> QED BY <2>3, <3>1, <3>2, <3>3, <3>4, <3>5 DEF AddStep
  <2>4. CASE RestoreStep
    <3> USE RecNow DEF SparingInv, TypeInv, TypeOK, ForwardSteps, At, Doing
    <3>1. ~RestoreInstall
      BY DEF RestoreInstall
    <3>2. CASE RestoreDecide
      BY <3>2 DEF RestoreDecide, DecideWith, disk
    <3>3. CASE \/ RestoreRegularize \/ RestoreVerify \/ RestoreStage \/ RestoreIdentify
               \/ RestoreRemoveManifest \/ RestoreExclude \/ RestoreCheck \/ RestoreDeleteBackup
      BY <3>3 DEF RestoreRegularize, RestoreVerify, RestoreStage, MoveCanonical, RestoreIdentify,
                  RestoreRemoveManifest, RestoreExclude, RestoreCheck, RestoreDeleteBackup, disk
    <3> QED BY <2>4, <3>1, <3>2, <3>3 DEF RestoreStep
  <2>5. CASE MoveStep
    <3> USE RecNow, EntriesDistinct DEF SparingInv, TypeInv, TypeOK, ForwardSteps, At, Doing
    <3>1. CASE MoveRemoveOld
      <4>1. rec # NoRecord /\ rec.op = "move" /\ rec.phase = "StoreTransferred"
            /\ IsMaterialized(rec.path, rec.strategy) /\ repo' = [repo EXCEPT ![rec.path] = Missing]
        BY <3>1 DEF MoveRemoveOld, Recovering
      <4>2. repo[rec.path] \notin Contents
        BY <4>1 DEF IsMaterialized, SameContent, MovedCopies
      <4> QED BY <4>1, <4>2
    <3>2. CASE MoveCreateNew
      BY <3>2 DEF MoveCreateNew
    <3>3. CASE MoveInstallNew
      BY <3>3 DEF MoveInstallNew
    <3>4. CASE MoveDecide
      BY <3>4 DEF MoveDecide, DecideWith, disk
    <3>5. CASE \/ MoveExclude \/ MoveTransfer \/ MoveSaveManifest \/ MoveDropOldExclude
               \/ MoveValidate \/ MoveRemoveOwnedExclude
      BY <3>5 DEF MoveExclude, MoveTransfer, MoveCanonical, MoveSaveManifest, MoveDropOldExclude,
                  MoveValidate, MoveRemoveOwnedExclude, disk
    <3> QED BY <2>5, <3>1, <3>2, <3>3, <3>4, <3>5 DEF MoveStep
  <2> QED BY <2>1, <2>2, <2>3, <2>4, <2>5 DEF Next, Work
<1> QED BY <1>1, SparingHolds, PTL DEF Spec, RecoverySparesFiles

(* How many phases an operation has persisted. *)
Rank ==
  [add     |-> [RecordCreated |-> 0, ExcludeWritten |-> 1, StoreTransferred |-> 2,
                RepoMaterialized |-> 3, ManifestSaved |-> 4],
   restore |-> [RecordCreated |-> 0, RepoRegularized |-> 1, StoreStaged |-> 2,
                ManifestRemoved |-> 3, ExcludeUpdated |-> 4],
   move    |-> [RecordCreated |-> 0, DestinationExcluded |-> 1, StoreTransferred |-> 2,
                RepoMoved |-> 3, ManifestSaved |-> 4, ExcludeFinalized |-> 5]]

(* An iteration of the loop persists one phase more, so the phase bounds the
   iterations spent; each action belongs to the iteration that chose it. *)
TurnsOfPhase ==
  /\ Running => rec # NoRecord
  /\ ~Running => turns = 0
  /\ pc = "decide" => turns <= Rank[rec.op][rec.phase] + 1
  /\ Running /\ pc \notin {"decide", "drop"} => turns <= Rank[rec.op][rec.phase] + 2

TurnsInv == TypeInv /\ TurnsOfPhase

(* Persisting a phase raises the rank by one. *)
LEMMA RankOfPhases ==
  ASSUME NEW op \in Ops, NEW phase \in Phases(op) \ {"PostCommitValidated"}
  PROVE  /\ Rank[op][phase] \in 0..5
         /\ Rank[op][phase] + 1 <= MaxTurns[op]
         /\ PhaseAfter[op][phase] # "PostCommitValidated"
              => Rank[op][PhaseAfter[op][phase]] = Rank[op][phase] + 1
BY DEF Ops, Phases, PhaseAfter, Rank, MaxTurns

(* The rank of a row's phase is its place in the table. *)
LEMMA RankOfRows ==
  ASSUME NEW op \in Ops, NEW i \in DOMAIN Rows[op], i + 1 \in DOMAIN Rows[op]
  PROVE  Rank[op][Rows[op][i + 1].phase] = Rank[op][Rows[op][i].phase] + 1
<1>1. \A j \in 1..5 : Rank["add"][AddRows[j].phase] = j - 1
  BY DEF AddRows, Row, Rank
<1>2. \A j \in 1..5 : Rank["restore"][RestoreRows[j].phase] = j - 1
  BY DEF RestoreRows, Row, Rank
<1>3. \A j \in 1..6 : Rank["move"][MoveRows[j].phase] = j - 1
  BY DEF MoveRows, Row, Rank
<1> QED BY <1>1, <1>2, <1>3, RowsOfAdd, RowsOfRestore, RowsOfMove DEF Ops

(* An iteration of the loop raises the rank or leads to the step that will. *)
LEMMA DecideTurns ==
  ASSUME TurnsInv, NEW facts, DecideWith(facts)
  PROVE  TurnsOfPhase'
<1> DEFINE decision == Decide(rec.op, rec.phase, facts)
<1>1. rec # NoRecord /\ pc = "decide"
  BY DEF DecideWith
<1>2. rec.op \in Ops /\ rec \in Records /\ rec.phase \in Phases(rec.op) \ {"PostCommitValidated"}
  BY <1>1, RecNow DEF TurnsInv, TypeInv, Coherent
<1>3. Rank[rec.op][rec.phase] \in 0..5 /\ turns \in Nat /\ turns <= Rank[rec.op][rec.phase] + 1
  BY <1>1, <1>2, RankOfPhases DEF TurnsInv, TypeInv, TypeOK, TurnsOfPhase
<1>4. CASE decision.kind = "perform" /\ turns' = turns + 1 /\ rec' = rec
           /\ pc' = (IF decision.name = "DeleteRecordOnly" THEN "drop" ELSE decision.name)
  <2>1. decision.name \in RowActions
    BY <1>2, <1>4, DecideResult, RowPhases
  <2>2. pc' \notin {"idle", "refused", "decide"}
    BY <1>4, <2>1, ActionsAreSteps
  <2> QED BY <1>1, <1>3, <1>4, <2>2 DEF TurnsOfPhase, Running
<1>5. CASE decision.kind = "advance" /\ turns' = turns + 1 /\ pc' = pc
           /\ rec' = [rec EXCEPT !.phase = decision.to]
  <2>1. PICK i \in DOMAIN Rows[rec.op] :
          /\ Rows[rec.op][i].phase = rec.phase
          /\ i + 1 \in DOMAIN Rows[rec.op] /\ decision.to = Rows[rec.op][i + 1].phase
    BY <1>2, <1>5, DecideResult
  <2>2. Rank[rec.op][decision.to] = Rank[rec.op][rec.phase] + 1
    BY <1>2, <2>1, RankOfRows
  <2>3. rec'.phase = decision.to /\ rec'.op = rec.op /\ rec' # NoRecord
    <3>1. rec' \in Records
      BY <1>2, <1>5, <2>1, RecordFields, RowPhases
    <3> QED BY <1>2, <1>5, <3>1, RecordDistinct DEF Records
  <2> QED BY <1>1, <1>3, <1>5, <2>2, <2>3 DEF TurnsOfPhase, Running
<1>6. CASE pc' = "refused" /\ turns' = 0
  BY <1>6 DEF TurnsOfPhase, Running
<1> QED BY <1>4, <1>5, <1>6 DEF DecideWith

(* Every other step of an operation stays in its iteration. *)
LEMMA StepTurns ==
  ASSUME TurnsInv, AddStep \/ RestoreStep \/ MoveStep
  PROVE  TurnsOfPhase'
<1>1. CASE AddDecide \/ RestoreDecide \/ MoveDecide
  BY <1>1, DecideTurns DEF AddDecide, RestoreDecide, MoveDecide
<1>2. CASE RestoreIdentify
  <2>1. pc = "identify" /\ pc' = "persist" /\ turns' = turns /\ rec # NoRecord
    BY <1>2 DEF RestoreIdentify, At, Goto
  <2>2. rec' = [rec EXCEPT !.backupKnown = TRUE]
    BY <1>2 DEF RestoreIdentify
  <2>3. rec' \in Records /\ rec'.phase = rec.phase /\ rec'.op = rec.op
    <3>1. rec \in Records
      BY <2>1, RecNow DEF TurnsInv
    <3> QED BY <2>2, <3>1, RecordFields
  <2>4. turns <= Rank[rec.op][rec.phase] + 2
    BY <2>1 DEF TurnsInv, TurnsOfPhase, Running
  <2> QED BY <2>1, <2>3, <2>4, RecordDistinct DEF TurnsOfPhase, Running
<1>3. ASSUME rec # NoRecord, Running, pc # "decide", rec' = rec, turns' = turns,
             pc' \notin {"idle", "refused", "decide"}, pc # "drop"
      PROVE  TurnsOfPhase'
  BY <1>3 DEF TurnsInv, TurnsOfPhase, Running
<1>4. CASE AddExclude
  BY <1>3, <1>4 DEF AddExclude, At, Doing, Goto, Running
<1>5. CASE AddTransfer
  BY <1>3, <1>5 DEF AddTransfer, At, Doing, Goto, Running
<1>6. CASE AddInstall
  BY <1>3, <1>6 DEF AddInstall, At, Doing, Goto, Running
<1>7. CASE AddUnlink
  BY <1>3, <1>7 DEF AddUnlink, At, Doing, Goto, Running
<1>8. CASE AddMaterialize
  BY <1>3, <1>8 DEF AddMaterialize, At, Doing, Goto, Running
<1>9. CASE AddInstallCopy
  BY <1>3, <1>9 DEF AddInstallCopy, At, Doing, Goto, Running
<1>10. CASE AddSaveManifest
  BY <1>3, <1>10 DEF AddSaveManifest, At, Doing, Goto, Running
<1>11. CASE AddValidate
  BY <1>3, <1>11 DEF AddValidate, At, Doing, Goto, Running
<1>12. CASE AddRemoveOwnedExclude
  BY <1>3, <1>12 DEF AddRemoveOwnedExclude, At, Doing, Goto, Running
<1>13. CASE RestoreRegularize
  BY <1>3, <1>13 DEF RestoreRegularize, At, Doing, Goto, Running
<1>14. CASE RestoreInstall
  BY <1>3, <1>14 DEF RestoreInstall, At, Doing, Goto, Running
<1>15. CASE RestoreVerify
  BY <1>3, <1>15 DEF RestoreVerify, At, Doing, Goto, Running
<1>16. CASE RestoreStage
  BY <1>3, <1>16 DEF RestoreStage, MoveCanonical, At, Doing, Goto, Running
<1>17. CASE RestoreRemoveManifest
  BY <1>3, <1>17 DEF RestoreRemoveManifest, At, Doing, Goto, Running
<1>18. CASE RestoreExclude
  BY <1>3, <1>18 DEF RestoreExclude, At, Doing, Goto, Running
<1>19. CASE RestoreCheck
  BY <1>3, <1>19 DEF RestoreCheck, At, Doing, Goto, Running
<1>20. CASE RestoreDeleteBackup
  BY <1>3, <1>20 DEF RestoreDeleteBackup, At, Doing, Goto, Running
<1>21. CASE MoveExclude
  BY <1>3, <1>21 DEF MoveExclude, At, Doing, Goto, Running
<1>22. CASE MoveTransfer
  BY <1>3, <1>22 DEF MoveTransfer, MoveCanonical, At, Doing, Goto, Running
<1>23. CASE MoveRemoveOld
  BY <1>3, <1>23 DEF MoveRemoveOld, At, Doing, Goto, Running
<1>24. CASE MoveCreateNew
  BY <1>3, <1>24 DEF MoveCreateNew, At, Doing, Goto, Running
<1>25. CASE MoveInstallNew
  BY <1>3, <1>25 DEF MoveInstallNew, At, Doing, Goto, Running
<1>26. CASE MoveSaveManifest
  BY <1>3, <1>26 DEF MoveSaveManifest, At, Doing, Goto, Running
<1>27. CASE MoveDropOldExclude
  BY <1>3, <1>27 DEF MoveDropOldExclude, At, Doing, Goto, Running
<1>28. CASE MoveValidate
  BY <1>3, <1>28 DEF MoveValidate, At, Doing, Goto, Running
<1>29. CASE MoveRemoveOwnedExclude
  BY <1>3, <1>29 DEF MoveRemoveOwnedExclude, At, Doing, Goto, Running
<1> QED BY <1>1, <1>2, <1>4, <1>5, <1>6, <1>7, <1>8, <1>9, <1>10, <1>11, <1>12, <1>13, <1>14,
         <1>15, <1>16, <1>17, <1>18, <1>19, <1>20, <1>21, <1>22, <1>23, <1>24, <1>25, <1>26,
         <1>27, <1>28, <1>29
   DEF AddStep, RestoreStep, MoveStep

(* Starts, phase updates and stops keep the invariant. *)
LEMMA ProcessTurns ==
  ASSUME TurnsInv, Command \/ Persist \/ RemoveRecord \/ Halt \/ BeginRecovery \/ UserAct
  PROVE  TurnsOfPhase'
<1> USE DEF TurnsInv, TurnsOfPhase, Running
<1>1. CASE Command
  <2>1. ASSUME rec' \in Records, rec'.phase = "RecordCreated", pc' = "act", turns' = 0
        PROVE  TurnsOfPhase'
    <3>1. rec'.op \in Ops
      BY <2>1, RecordFields
    <3>2. Rank[rec'.op]["RecordCreated"] = 0
      BY <3>1 DEF Ops, Rank
    <3> QED BY <2>1, <3>2, RecordDistinct
  <2> USE DEF Begin, Goto, TypeInv, TypeOK, Records, PhaseAfter, Phases, ObservedStrategy
  <2>2. ASSUME NEW p \in Paths, NEW s \in Strategies, AddBegin(p, s)
        PROVE  TurnsOfPhase'
    <3>1. rec' \in Records /\ rec'.phase = "RecordCreated" /\ pc' = "act" /\ turns' = 0
      BY <2>2, ParametersTyped DEF AddBegin, AddPlanned, AddSource
    <3> QED BY <2>1, <3>1
  <2>3. ASSUME NEW p \in Paths, NEW k \in KeepIgnore, RestoreBegin(p, k)
        PROVE  TurnsOfPhase'
    <3>1. rec' \in Records /\ rec'.phase = "RecordCreated" /\ pc' = "act" /\ turns' = 0
      BY <2>3, ParametersTyped DEF RestoreBegin, RestorePlanned, RestoreInspected, RestoreAsFound
    <3> QED BY <2>1, <3>1
  <2>4. ASSUME NEW p \in Paths, NEW q \in Paths, MoveBegin(p, q)
        PROVE  TurnsOfPhase'
    <3>1. rec' \in Records /\ rec'.phase = "RecordCreated" /\ pc' = "act" /\ turns' = 0
      BY <2>4 DEF MoveBegin, MovePlanned
    <3> QED BY <2>1, <3>1
  <2>5. CASE \E p \in Paths : Detach(p)
    BY <2>5 DEF Detach
  <2> QED BY <1>1, <2>2, <2>3, <2>4, <2>5 DEF Command
<1>2. CASE Persist
  <2> DEFINE next == PhaseAfter[rec.op][rec.phase]
  <2>1. /\ rec # NoRecord /\ rec \in Records /\ rec.op \in Ops /\ pc = "persist"
        /\ rec.phase \in Phases(rec.op) \ {"PostCommitValidated"}
    BY <1>2, RecNow DEF Persist, TypeInv, Coherent
  <2>2. next \in Phases(rec.op)
    BY <2>1 DEF Ops, Phases, PhaseAfter
  <2>3. rec' = [rec EXCEPT !.phase = next] /\ turns' = turns
    BY <1>2 DEF Persist, Goto
  <2>4. rec' \in Records /\ rec'.phase = next /\ rec'.op = rec.op
    BY <2>1, <2>2, <2>3, RecordFields DEF Records
  <2>5. /\ Rank[rec.op][rec.phase] \in 0..5 /\ turns \in Nat
        /\ turns <= Rank[rec.op][rec.phase] + 2
    BY <2>1, RankOfPhases DEF TypeInv, TypeOK
  <2>6. CASE next = "PostCommitValidated"
    <3>1. pc' = "drop"
      BY <1>2, <2>6 DEF Persist, Goto
    <3> QED BY <2>4, <3>1, RecordDistinct
  <2>7. CASE next # "PostCommitValidated"
    <3>1. pc' \in {"decide", "act"}
      BY <1>2, <2>7 DEF Persist, Goto
    <3>2. Rank[rec.op][next] = Rank[rec.op][rec.phase] + 1
      BY <2>1, <2>7, RankOfPhases
    <3> HIDE DEF next
    <3> QED BY <2>3, <2>4, <2>5, <3>1, <3>2, RecordDistinct
  <2> QED BY <2>6, <2>7
<1>3. CASE RemoveRecord
  BY <1>3 DEF RemoveRecord
<1>4. CASE Halt
  BY <1>4 DEF Halt
<1>5. CASE BeginRecovery
  <2>1. rec # NoRecord /\ rec' = rec /\ turns' = 1
        /\ pc' = (IF rec.phase = "PostCommitValidated" THEN "drop" ELSE "decide")
    BY <1>5 DEF BeginRecovery
  <2>2. rec.op \in Ops /\ rec.phase \in Phases(rec.op)
    BY <2>1, RecNow
  <2>3. rec.phase # "PostCommitValidated" => Rank[rec.op][rec.phase] \in 0..5
    BY <2>2, RankOfPhases
  <2> QED BY <2>1, <2>3
<1>6. CASE UserAct
  <2>1. UNCHANGED <<rec, pc, turns>>
    BY <1>6 DEF UserAct, Edit, Replace, Delete, Track, Unexclude, NewEntry
  <2> QED BY <2>1
<1> QED BY <1>1, <1>2, <1>3, <1>4, <1>5, <1>6

(* Recovery never runs out of the iterations its loops allow: every iteration persists
   a phase, finishes or refuses, and the loops allow more than there are phases. *)
THEOREM RecoveryBounded == Spec => []RecoveryWithinBound
<1>1. Init => TurnsInv
  BY TypeInit DEF Init, TurnsInv, TurnsOfPhase, Running
<1>2. TurnsInv /\ [Next]_vars => TurnsInv'
  <2>1. ASSUME TurnsInv, Next PROVE TurnsInv'
    <3>1. TypeInv'
      BY <2>1, TypeNext DEF TurnsInv
    <3>2. TurnsOfPhase'
      BY <2>1, StepTurns, ProcessTurns DEF Next, Work
    <3> QED BY <3>1, <3>2 DEF TurnsInv
  <2>2. ASSUME TurnsInv, UNCHANGED vars PROVE TurnsInv'
    BY <2>2, TypeStutter DEF vars, TurnsInv, TurnsOfPhase, Running
  <2> QED BY <2>1, <2>2
<1>3. TurnsInv => RecoveryWithinBound
  <2> SUFFICES ASSUME TurnsInv, pc = "decide" PROVE turns <= MaxTurns[rec.op]
    BY DEF RecoveryWithinBound
  <2>1. rec # NoRecord /\ turns <= Rank[rec.op][rec.phase] + 1 /\ turns \in Nat
    BY DEF TurnsInv, TurnsOfPhase, Running, TypeInv, TypeOK
  <2>2. rec.op \in Ops /\ rec.phase \in Phases(rec.op) \ {"PostCommitValidated"}
    BY <2>1, RecNow DEF TurnsInv, TypeInv, Coherent
  <2>3. Rank[rec.op][rec.phase] \in 0..5 /\ Rank[rec.op][rec.phase] + 1 <= MaxTurns[rec.op]
        /\ MaxTurns[rec.op] \in Nat
    BY <2>2, RankOfPhases DEF MaxTurns, Ops
  <2> QED BY <2>1, <2>3
<1> QED BY <1>1, <1>2, <1>3, PTL DEF Spec

(***************************************************************************)
(* What recovery has seen when it decides                                  *)
(***************************************************************************)

(* The entry at p as the strategy of the record makes it of its content.   *)
Shown(p) == repo[p] = IF rec.strategy = "symlink" THEN Link ELSE rec.fp

(* A decision of recovery for the recorded phase: an action of that phase. *)
Acts(phase, action) == rec.phase = phase /\ pc' = action /\ rec' = rec

(* The record as before, but for its phase. *)
Rephased(to) ==
  /\ rec' # NoRecord /\ rec' \in Records
  /\ rec'.op = rec.op /\ rec'.phase = to /\ rec'.path = rec.path /\ rec'.dest = rec.dest
  /\ rec'.strategy = rec.strategy /\ rec'.fp = rec.fp /\ rec'.exclBefore = rec.exclBefore
  /\ rec'.keepIgnore = rec.keepIgnore /\ rec'.backupKnown = rec.backupKnown

(* Writing a phase of the operation changes nothing else of the record. *)
LEMMA Rephases ==
  ASSUME rec \in Records, NEW to \in Phases(rec.op), rec' = [rec EXCEPT !.phase = to]
  PROVE  Rephased(to)
<1>1. rec' \in Records
  BY RecordFields
<1>2. rec' # NoRecord
  BY <1>1, RecordDistinct
<1>3. /\ rec'.op = rec.op /\ rec'.phase = to /\ rec'.path = rec.path /\ rec'.dest = rec.dest
      /\ rec'.strategy = rec.strategy /\ rec'.fp = rec.fp /\ rec'.exclBefore = rec.exclBefore
      /\ rec'.keepIgnore = rec.keepIgnore /\ rec'.backupKnown = rec.backupKnown
  BY DEF Records
<1> QED BY <1>1, <1>2, <1>3 DEF Rephased

(* The record of a restore that has taken its backup's identity. *)
LEMMA Identifies ==
  ASSUME rec \in Records, rec' = [rec EXCEPT !.backupKnown = TRUE]
  PROVE  /\ rec' # NoRecord /\ rec' \in Records /\ rec'.backupKnown
         /\ rec'.op = rec.op /\ rec'.phase = rec.phase /\ rec'.path = rec.path
         /\ rec'.dest = rec.dest /\ rec'.strategy = rec.strategy /\ rec'.fp = rec.fp
         /\ rec'.exclBefore = rec.exclBefore /\ rec'.keepIgnore = rec.keepIgnore
<1>1. rec' \in Records
  BY RecordFields
<1>2. rec' # NoRecord
  BY <1>1, RecordDistinct
<1>3. /\ rec'.backupKnown
      /\ rec'.op = rec.op /\ rec'.phase = rec.phase /\ rec'.path = rec.path
      /\ rec'.dest = rec.dest /\ rec'.strategy = rec.strategy /\ rec'.fp = rec.fp
      /\ rec'.exclBefore = rec.exclBefore /\ rec'.keepIgnore = rec.keepIgnore
  BY DEF Records
<1> QED BY <1>1, <1>2, <1>3

(* The phase updates of each operation. *)
LEMMA Persists ==
  ASSUME TypeInv, Persist
  PROVE  /\ rec # NoRecord /\ rec \in Records /\ pc = "persist"
         /\ UNCHANGED <<disk, user, temp, same, turns>>
         /\ Rephased(PhaseAfter[rec.op][rec.phase])
         /\ pc' = IF rec'.phase = "PostCommitValidated" THEN "drop"
                  ELSE IF Recovering THEN "decide" ELSE "act"
         /\ rec.op = "add" =>
              \/ rec.phase = "RecordCreated" /\ rec'.phase = "ExcludeWritten"
              \/ rec.phase = "ExcludeWritten" /\ rec'.phase = "StoreTransferred"
              \/ rec.phase = "StoreTransferred" /\ rec'.phase = "RepoMaterialized"
              \/ rec.phase = "RepoMaterialized" /\ rec'.phase = "ManifestSaved"
              \/ rec.phase = "ManifestSaved" /\ rec'.phase = "PostCommitValidated"
         /\ rec.op = "restore" =>
              \/ rec.phase = "RecordCreated" /\ rec'.phase = "RepoRegularized"
              \/ rec.phase = "RepoRegularized" /\ rec'.phase = "StoreStaged"
              \/ rec.phase = "StoreStaged" /\ rec'.phase = "ManifestRemoved"
              \/ rec.phase = "ManifestRemoved" /\ rec'.phase = "ExcludeUpdated"
              \/ rec.phase = "ExcludeUpdated" /\ rec'.phase = "PostCommitValidated"
         /\ rec.op = "move" =>
              \/ rec.phase = "RecordCreated" /\ rec'.phase = "DestinationExcluded"
              \/ rec.phase = "DestinationExcluded" /\ rec'.phase = "StoreTransferred"
              \/ rec.phase = "StoreTransferred" /\ rec'.phase = "RepoMoved"
              \/ rec.phase = "RepoMoved" /\ rec'.phase = "ManifestSaved"
              \/ rec.phase = "ManifestSaved" /\ rec'.phase = "ExcludeFinalized"
              \/ rec.phase = "ExcludeFinalized" /\ rec'.phase = "PostCommitValidated"
<1> DEFINE next == PhaseAfter[rec.op][rec.phase]
<1>1. /\ rec # NoRecord /\ pc = "persist" /\ rec' = [rec EXCEPT !.phase = next]
      /\ UNCHANGED <<disk, user, temp, same, turns>>
      /\ pc' = IF next = "PostCommitValidated" THEN "drop"
               ELSE IF Recovering THEN "decide" ELSE "act"
  BY DEF Persist, Goto
<1>2. rec \in Records /\ rec.op \in Ops /\ rec.phase \in Phases(rec.op) \ {"PostCommitValidated"}
  BY <1>1, RecNow DEF TypeInv, Coherent
<1>3. next \in Phases(rec.op)
  BY <1>2 DEF Ops, Phases, PhaseAfter
<1>4. Rephased(next)
  BY <1>1, <1>2, <1>3, Rephases
<1>5. rec'.phase = next
  BY <1>4 DEF Rephased
<1>6. CASE rec.op = "add"
  BY <1>1, <1>2, <1>4, <1>5, <1>6 DEF Phases, PhaseAfter
<1>7. CASE rec.op = "restore"
  BY <1>1, <1>2, <1>4, <1>5, <1>7 DEF Phases, PhaseAfter
<1>8. CASE rec.op = "move"
  BY <1>1, <1>2, <1>4, <1>5, <1>8 DEF Phases, PhaseAfter
<1> QED BY <1>2, <1>6, <1>7, <1>8 DEF Ops

(* A lost phase update: the phase after the recorded one.                  *)
Skips(phase, to) == rec.phase = phase /\ pc' = pc /\ Rephased(to)

(* A decision to go no further. *)
Refuses == pc' = "refused" /\ rec' = rec

(* What an iteration does with a table: perform, advance or refuse.        *)
LEMMA Decided ==
  ASSUME TypeInv, NEW facts, DecideWith(facts)
  PROVE  /\ rec # NoRecord /\ rec.op \in Ops /\ rec \in Records /\ pc = "decide"
         /\ UNCHANGED <<disk, user, temp, same>>
         /\ \/ Refuses
            \/ \E i \in DOMAIN Rows[rec.op] :
                 /\ rec.phase = Rows[rec.op][i].phase /\ facts = Rows[rec.op][i].expected
                 /\ Acts(rec.phase, IF Rows[rec.op][i].action = "DeleteRecordOnly"
                                    THEN "drop" ELSE Rows[rec.op][i].action)
            \/ \E i \in DOMAIN Rows[rec.op] :
                 /\ rec.phase = Rows[rec.op][i].phase
                 /\ i + 1 \in DOMAIN Rows[rec.op] /\ facts = Rows[rec.op][i + 1].expected
                 /\ Skips(rec.phase, Rows[rec.op][i + 1].phase)
<1> DEFINE decision == Decide(rec.op, rec.phase, facts)
<1>1. rec # NoRecord /\ pc = "decide" /\ UNCHANGED <<disk, user, temp, same>>
  BY DEF DecideWith
<1>2. rec \in Records /\ rec.op \in Ops
  BY <1>1, RecNow
<1>3. \/ Refuses
      \/ /\ decision.kind = "perform"
         /\ pc' = (IF decision.name = "DeleteRecordOnly" THEN "drop" ELSE decision.name)
         /\ rec' = rec
      \/ decision.kind = "advance" /\ rec' = [rec EXCEPT !.phase = decision.to] /\ pc' = pc
  BY DEF DecideWith, Refuses
<1>4. CASE Refuses
  BY <1>1, <1>2, <1>4
<1>5. CASE /\ decision.kind = "perform"
           /\ pc' = (IF decision.name = "DeleteRecordOnly" THEN "drop" ELSE decision.name)
           /\ rec' = rec
  <2>1. PICK i \in DOMAIN Rows[rec.op] :
              /\ Rows[rec.op][i].phase = rec.phase /\ Rows[rec.op][i].expected = facts
              /\ decision = [kind |-> "perform", name |-> Rows[rec.op][i].action]
    BY <1>2, <1>5, DecideResult
  <2>2. Acts(rec.phase, IF Rows[rec.op][i].action = "DeleteRecordOnly"
                        THEN "drop" ELSE Rows[rec.op][i].action)
    BY <1>5, <2>1 DEF Acts
  <2> QED BY <1>1, <1>2, <2>1, <2>2
<1>6. CASE decision.kind = "advance" /\ rec' = [rec EXCEPT !.phase = decision.to] /\ pc' = pc
  <2>1. PICK i \in DOMAIN Rows[rec.op] :
              /\ Rows[rec.op][i].phase = rec.phase
              /\ i + 1 \in DOMAIN Rows[rec.op] /\ Rows[rec.op][i + 1].expected = facts
              /\ decision = [kind |-> "advance", to |-> Rows[rec.op][i + 1].phase]
    BY <1>2, <1>6, DecideResult
  <2>2. Rows[rec.op][i + 1].phase \in Phases(rec.op)
    BY <1>2, <2>1, RowPhases
  <2>3. Skips(rec.phase, Rows[rec.op][i + 1].phase)
    BY <1>2, <1>6, <2>1, <2>2, Rephases DEF Skips
  <2> QED BY <1>1, <1>2, <2>1, <2>3
<1> QED BY <1>3, <1>4, <1>5, <1>6

(* The states the rows of an add stand for. *)
AddSeen(i) ==
  LET p == rec.path IN
  /\ i \in {1, 2} => repo[p] = rec.fp /\ store[p] = Missing
  /\ i = 3 => repo[p] = Missing
  /\ i \in {4, 5} => repo[p] = Link \/ (repo[p] = rec.fp /\ rec.strategy = "copy")
  /\ i \in {3, 4, 5} => store[p] = rec.fp
  /\ Managed(p) <=> i = 5
  /\ i = 1 => (p \in excl) = rec.exclBefore
  /\ i # 1 => p \in excl

(* Facts that match a row of the add table are those states. *)
LEMMA AddReads ==
  ASSUME TypeInv, rec # NoRecord, NEW i \in 1..5, AddFacts = AddRows[i].expected
  PROVE  AddSeen(i)
<1> USE RecNow, EntriesDistinct DEF TypeInv, TypeOK, AddFacts, AddManifestFact, AddSeen, AddRows, Row
<1>1. CASE i = 1
  BY <1>1
<1>2. CASE i = 2
  BY <1>2
<1>3. CASE i = 3
  BY <1>3
<1>4. CASE i = 4
  BY <1>4
<1>5. CASE i = 5
  BY <1>5
<1> QED BY <1>1, <1>2, <1>3, <1>4, <1>5

(* What recovery of an add decides, and what it has seen. *)
LEMMA AddDecided ==
  ASSUME TypeInv, AddDecide
  PROVE  /\ rec # NoRecord /\ rec.op = "add" /\ rec \in Records /\ pc = "decide"
         /\ UNCHANGED <<disk, user, temp, same>>
         /\ \/ Refuses
            \/ Acts("RecordCreated", "drop") /\ AddSeen(1)
            \/ Acts("ExcludeWritten", "RemoveOperationOwnedExclude") /\ AddSeen(2)
            \/ Acts("StoreTransferred", "MaterializeRepo") /\ AddSeen(3)
            \/ Acts("RepoMaterialized", "SaveManifest") /\ AddSeen(4)
            \/ Acts("ManifestSaved", "VerifyPostconditionsAndComplete") /\ AddSeen(5)
            \/ Skips("RecordCreated", "ExcludeWritten") /\ AddSeen(2)
            \/ Skips("ExcludeWritten", "StoreTransferred") /\ AddSeen(3)
            \/ Skips("StoreTransferred", "RepoMaterialized") /\ AddSeen(4)
            \/ Skips("RepoMaterialized", "ManifestSaved") /\ AddSeen(5)
<1>1. rec # NoRecord /\ rec.op = "add" /\ DecideWith(AddFacts)
  BY DEF AddDecide
<1>2. /\ rec \in Records /\ pc = "decide" /\ UNCHANGED <<disk, user, temp, same>>
      /\ \/ Refuses
         \/ \E i \in 1..5 :
              /\ rec.phase = AddRows[i].phase /\ AddFacts = AddRows[i].expected
              /\ Acts(rec.phase, IF AddRows[i].action = "DeleteRecordOnly"
                                 THEN "drop" ELSE AddRows[i].action)
         \/ \E i \in 1..5 :
              /\ rec.phase = AddRows[i].phase
              /\ i + 1 \in 1..5 /\ AddFacts = AddRows[i + 1].expected
              /\ Skips(rec.phase, AddRows[i + 1].phase)
  BY <1>1, Decided, RowsOfAdd
<1>3. ASSUME NEW i \in 1..5, rec.phase = AddRows[i].phase, AddFacts = AddRows[i].expected,
             Acts(rec.phase, IF AddRows[i].action = "DeleteRecordOnly"
                             THEN "drop" ELSE AddRows[i].action)
      PROVE  \/ Acts("RecordCreated", "drop") /\ AddSeen(1)
             \/ Acts("ExcludeWritten", "RemoveOperationOwnedExclude") /\ AddSeen(2)
             \/ Acts("StoreTransferred", "MaterializeRepo") /\ AddSeen(3)
             \/ Acts("RepoMaterialized", "SaveManifest") /\ AddSeen(4)
             \/ Acts("ManifestSaved", "VerifyPostconditionsAndComplete") /\ AddSeen(5)
  <2>1. AddSeen(i)
    BY <1>1, <1>3, AddReads
  <2> QED BY <1>3, <2>1 DEF AddRows, Row, Acts
<1>4. ASSUME NEW i \in 1..5, i + 1 \in 1..5, rec.phase = AddRows[i].phase,
             AddFacts = AddRows[i + 1].expected, Skips(rec.phase, AddRows[i + 1].phase)
      PROVE  \/ Skips("RecordCreated", "ExcludeWritten") /\ AddSeen(2)
             \/ Skips("ExcludeWritten", "StoreTransferred") /\ AddSeen(3)
             \/ Skips("StoreTransferred", "RepoMaterialized") /\ AddSeen(4)
             \/ Skips("RepoMaterialized", "ManifestSaved") /\ AddSeen(5)
  <2>1. AddSeen(i + 1)
    BY <1>1, <1>4, AddReads
  <2>2. i \in {1, 2, 3, 4}
    BY <1>4
  <2> QED BY <1>4, <2>1, <2>2 DEF AddRows, Row, Skips
<1> QED BY <1>1, <1>2, <1>3, <1>4

(* The states the rows of a restore stand for. *)
RestoreSeen(i) ==
  LET p == rec.path IN
  /\ i = 1 => rec.strategy = "symlink" /\ repo[p] = Link
  /\ i # 1 => repo[p] = rec.fp
  /\ i \in {1, 2} => store[p] = rec.fp /\ backup = Missing
  /\ i \in {3, 4, 5} => store[p] = Missing /\ backup = rec.fp
  /\ Managed(p) <=> i \in {1, 2, 3}
  /\ i # 5 => (p \in excl) = rec.exclBefore
  /\ i = 5 => (p \in excl) = rec.keepIgnore
  /\ i = 5 /\ rec.phase # "ExcludeUpdated" => (p \in excl) # rec.exclBefore

(* Facts that match a row of the restore table are those states. *)
LEMMA RestoreReads ==
  ASSUME TypeInv, rec # NoRecord, NEW i \in 1..5, RestoreFacts = RestoreRows[i].expected
  PROVE  RestoreSeen(i)
<1> USE RecNow, EntriesDistinct DEF TypeInv, TypeOK, RestoreFacts, OriginalRestore,
      RestoreExcludeFact, RestoreSeen, RestoreRows, Row
<1>1. CASE i = 1
  BY <1>1
<1>2. CASE i = 2
  BY <1>2
<1>3. CASE i = 3
  BY <1>3
<1>4. CASE i = 4
  BY <1>4
<1>5. CASE i = 5
  BY <1>5
<1> QED BY <1>1, <1>2, <1>3, <1>4, <1>5

(* What recovery of a restore decides, and what it has seen. *)
LEMMA RestoreDecided ==
  ASSUME TypeInv, RestoreDecide
  PROVE  /\ rec # NoRecord /\ rec.op = "restore" /\ rec \in Records /\ pc = "decide"
         /\ UNCHANGED <<disk, user, temp, same>>
         /\ \/ Refuses
            \/ Acts("RecordCreated", "drop") /\ RestoreSeen(1)
            \/ Acts("RepoRegularized", "StageStoreIntoBackup") /\ RestoreSeen(2)
            \/ Acts("StoreStaged", "RemoveManifest") /\ RestoreSeen(3)
            \/ Acts("ManifestRemoved", "ApplyKeepIgnorePolicy") /\ RestoreSeen(4)
            \/ Acts("ExcludeUpdated", "DeleteBackupAndComplete") /\ RestoreSeen(5)
            \/ Skips("RecordCreated", "RepoRegularized") /\ RestoreSeen(2)
            \/ Skips("RepoRegularized", "StoreStaged") /\ RestoreSeen(3)
            \/ Skips("StoreStaged", "ManifestRemoved") /\ RestoreSeen(4)
            \/ Skips("ManifestRemoved", "ExcludeUpdated") /\ RestoreSeen(5)
<1>1. rec # NoRecord /\ rec.op = "restore" /\ DecideWith(RestoreFacts)
  BY DEF RestoreDecide
<1>2. /\ rec \in Records /\ pc = "decide" /\ UNCHANGED <<disk, user, temp, same>>
      /\ \/ Refuses
         \/ \E i \in 1..5 :
              /\ rec.phase = RestoreRows[i].phase /\ RestoreFacts = RestoreRows[i].expected
              /\ Acts(rec.phase, IF RestoreRows[i].action = "DeleteRecordOnly"
                                 THEN "drop" ELSE RestoreRows[i].action)
         \/ \E i \in 1..5 :
              /\ rec.phase = RestoreRows[i].phase
              /\ i + 1 \in 1..5 /\ RestoreFacts = RestoreRows[i + 1].expected
              /\ Skips(rec.phase, RestoreRows[i + 1].phase)
  BY <1>1, Decided, RowsOfRestore
<1>3. ASSUME NEW i \in 1..5, rec.phase = RestoreRows[i].phase, RestoreFacts = RestoreRows[i].expected,
             Acts(rec.phase, IF RestoreRows[i].action = "DeleteRecordOnly"
                             THEN "drop" ELSE RestoreRows[i].action)
      PROVE  \/ Acts("RecordCreated", "drop") /\ RestoreSeen(1)
             \/ Acts("RepoRegularized", "StageStoreIntoBackup") /\ RestoreSeen(2)
             \/ Acts("StoreStaged", "RemoveManifest") /\ RestoreSeen(3)
             \/ Acts("ManifestRemoved", "ApplyKeepIgnorePolicy") /\ RestoreSeen(4)
             \/ Acts("ExcludeUpdated", "DeleteBackupAndComplete") /\ RestoreSeen(5)
  <2>1. RestoreSeen(i)
    BY <1>1, <1>3, RestoreReads
  <2> QED BY <1>3, <2>1 DEF RestoreRows, Row, Acts
<1>4. ASSUME NEW i \in 1..5, i + 1 \in 1..5, rec.phase = RestoreRows[i].phase,
             RestoreFacts = RestoreRows[i + 1].expected, Skips(rec.phase, RestoreRows[i + 1].phase)
      PROVE  \/ Skips("RecordCreated", "RepoRegularized") /\ RestoreSeen(2)
             \/ Skips("RepoRegularized", "StoreStaged") /\ RestoreSeen(3)
             \/ Skips("StoreStaged", "ManifestRemoved") /\ RestoreSeen(4)
             \/ Skips("ManifestRemoved", "ExcludeUpdated") /\ RestoreSeen(5)
  <2>1. RestoreSeen(i + 1)
    BY <1>1, <1>4, RestoreReads
  <2>2. i \in {1, 2, 3, 4}
    BY <1>4
  <2> QED BY <1>4, <2>1, <2>2 DEF RestoreRows, Row, Skips
<1> QED BY <1>1, <1>2, <1>3, <1>4

(* The states the rows of a move stand for. *)
MoveSeen(i) ==
  LET old == rec.path
      new == rec.dest
  IN  /\ i \in {1, 2, 3} => IsMaterialized(old, rec.strategy) /\ repo[new] = Missing
      /\ i \in {4, 5, 6} => repo[old] = Missing /\ IsMaterialized(new, rec.strategy)
      /\ i \in {1, 2} => store[old] = rec.fp /\ store[new] = Missing
      /\ i \in {3, 4, 5, 6} => store[old] = Missing /\ store[new] = rec.fp
      /\ i \in {1, 2, 3, 4} => Managed(old) /\ ~Managed(new)
      /\ i \in {5, 6} => ~Managed(old) /\ Managed(new)
      /\ old \in excl <=> i # 6
      /\ new \in excl <=> i # 1

(* Facts that match a row of the move table are those states. *)
LEMMA MoveReads ==
  ASSUME TypeInv, rec # NoRecord, NEW i \in 1..6, MoveFacts = MoveRows[i].expected
  PROVE  MoveSeen(i)
<1> USE RecNow, EntriesDistinct DEF TypeInv, TypeOK, MoveFacts, MoveSeen, MoveRows, Row
<1>1. CASE i = 1
  BY <1>1
<1>2. CASE i = 2
  BY <1>2
<1>3. CASE i = 3
  BY <1>3
<1>4. CASE i = 4
  BY <1>4
<1>5. CASE i = 5
  BY <1>5
<1>6. CASE i = 6
  BY <1>6
<1> QED BY <1>1, <1>2, <1>3, <1>4, <1>5, <1>6

(* What recovery of a move decides, and what it has seen. *)
LEMMA MoveDecided ==
  ASSUME TypeInv, MoveDecide
  PROVE  /\ rec # NoRecord /\ rec.op = "move" /\ rec \in Records /\ pc = "decide"
         /\ UNCHANGED <<disk, user, temp, same>>
         /\ \/ Refuses
            \/ Acts("RecordCreated", "drop") /\ MoveSeen(1)
            \/ Acts("DestinationExcluded", "RemoveOperationOwnedExclude") /\ MoveSeen(2)
            \/ Acts("StoreTransferred", "MoveRepoMaterialization") /\ MoveSeen(3)
            \/ Acts("RepoMoved", "SaveManifest") /\ MoveSeen(4)
            \/ Acts("ManifestSaved", "RemoveOldExclude") /\ MoveSeen(5)
            \/ Acts("ExcludeFinalized", "VerifyPostconditionsAndComplete") /\ MoveSeen(6)
            \/ Skips("RecordCreated", "DestinationExcluded") /\ MoveSeen(2)
            \/ Skips("DestinationExcluded", "StoreTransferred") /\ MoveSeen(3)
            \/ Skips("StoreTransferred", "RepoMoved") /\ MoveSeen(4)
            \/ Skips("RepoMoved", "ManifestSaved") /\ MoveSeen(5)
            \/ Skips("ManifestSaved", "ExcludeFinalized") /\ MoveSeen(6)
<1>1. rec # NoRecord /\ rec.op = "move" /\ DecideWith(MoveFacts)
  BY DEF MoveDecide
<1>2. /\ rec \in Records /\ pc = "decide" /\ UNCHANGED <<disk, user, temp, same>>
      /\ \/ Refuses
         \/ \E i \in 1..6 :
              /\ rec.phase = MoveRows[i].phase /\ MoveFacts = MoveRows[i].expected
              /\ Acts(rec.phase, IF MoveRows[i].action = "DeleteRecordOnly"
                                 THEN "drop" ELSE MoveRows[i].action)
         \/ \E i \in 1..6 :
              /\ rec.phase = MoveRows[i].phase
              /\ i + 1 \in 1..6 /\ MoveFacts = MoveRows[i + 1].expected
              /\ Skips(rec.phase, MoveRows[i + 1].phase)
  BY <1>1, Decided, RowsOfMove
<1>3. ASSUME NEW i \in 1..6, rec.phase = MoveRows[i].phase, MoveFacts = MoveRows[i].expected,
             Acts(rec.phase, IF MoveRows[i].action = "DeleteRecordOnly"
                             THEN "drop" ELSE MoveRows[i].action)
      PROVE  \/ Acts("RecordCreated", "drop") /\ MoveSeen(1)
             \/ Acts("DestinationExcluded", "RemoveOperationOwnedExclude") /\ MoveSeen(2)
             \/ Acts("StoreTransferred", "MoveRepoMaterialization") /\ MoveSeen(3)
             \/ Acts("RepoMoved", "SaveManifest") /\ MoveSeen(4)
             \/ Acts("ManifestSaved", "RemoveOldExclude") /\ MoveSeen(5)
             \/ Acts("ExcludeFinalized", "VerifyPostconditionsAndComplete") /\ MoveSeen(6)
  <2>1. MoveSeen(i)
    BY <1>1, <1>3, MoveReads
  <2> QED BY <1>3, <2>1 DEF MoveRows, Row, Acts
<1>4. ASSUME NEW i \in 1..6, i + 1 \in 1..6, rec.phase = MoveRows[i].phase,
             MoveFacts = MoveRows[i + 1].expected, Skips(rec.phase, MoveRows[i + 1].phase)
      PROVE  \/ Skips("RecordCreated", "DestinationExcluded") /\ MoveSeen(2)
             \/ Skips("DestinationExcluded", "StoreTransferred") /\ MoveSeen(3)
             \/ Skips("StoreTransferred", "RepoMoved") /\ MoveSeen(4)
             \/ Skips("RepoMoved", "ManifestSaved") /\ MoveSeen(5)
             \/ Skips("ManifestSaved", "ExcludeFinalized") /\ MoveSeen(6)
  <2>1. MoveSeen(i + 1)
    BY <1>1, <1>4, MoveReads
  <2>2. i \in {1, 2, 3, 4, 5}
    BY <1>4
  <2> QED BY <1>4, <2>1, <2>2 DEF MoveRows, Row, Skips
<1> QED BY <1>1, <1>2, <1>3, <1>4

(***************************************************************************)
(* The items                                                               *)
(***************************************************************************)
Whole(p) == Managed(p) <=> store[p] # Missing

(* An add has no item until it has a canonical file, and then keeps that file. *)
AddItems ==
  LET p == rec.path IN
  /\ backup = Missing
  /\ rec.phase \in {"RecordCreated", "ExcludeWritten"} => ~Managed(p) /\ repo[p] # Link
  /\ rec.phase = "RecordCreated" => store[p] = Missing
  /\ rec.phase = "ExcludeWritten" =>
       /\ pc \in {"act", "install", "RemoveOperationOwnedExclude", "drop"} => store[p] = Missing
       /\ pc = "install" => temp \in Contents
       /\ pc \in {"unlink", "persist"} => store[p] # Missing
  /\ rec.phase \notin {"RecordCreated", "ExcludeWritten"} => store[p] # Missing
  /\ rec.phase \notin {"ManifestSaved", "PostCommitValidated"} /\ Managed(p) =>
       rec.phase = "RepoMaterialized" /\ pc \notin {"act", "SaveManifest"}
  /\ rec.phase = "RepoMaterialized" /\ pc = "persist" => Managed(p)
  /\ rec.phase \in {"ManifestSaved", "PostCommitValidated"} => Managed(p)
  /\ pc = "drop" =>
       rec.phase \in {"RecordCreated", "ExcludeWritten", "PostCommitValidated"}

(* A restore has a canonical file or its backup until the item is none any more,
   and ends without either. *)
RestoreItems ==
  LET p == rec.path IN
  /\ rec.phase \in {"RecordCreated", "RepoRegularized"} => Managed(p)
  /\ rec.phase = "StoreStaged" /\ pc \in {"act", "RemoveManifest"} => Managed(p)
  /\ \/ rec.phase \in {"ManifestRemoved", "ExcludeUpdated", "PostCommitValidated"}
     \/ rec.phase = "StoreStaged" /\ pc = "persist"
     => ~Managed(p)
  /\ rec.phase # "RecordCreated" \/ pc = "persist" => repo[p] # Link
  /\ rec.phase = "RecordCreated" => store[p] # Missing /\ backup = Missing
  /\ rec.phase = "RepoRegularized" =>
       /\ store[p] # Missing <=> backup = Missing
       /\ pc \in {"identify", "persist"} => store[p] = Missing
       /\ pc \in {"act", "StageStoreIntoBackup"} => store[p] # Missing
  /\ rec.phase \in {"StoreStaged", "ManifestRemoved"} => store[p] = Missing /\ backup # Missing
  /\ rec.phase \in {"ExcludeUpdated", "PostCommitValidated"} => store[p] = Missing
  /\ rec.phase = "ExcludeUpdated" /\ pc = "persist" => backup = Missing
  /\ rec.phase = "PostCommitValidated" => backup = Missing
  /\ pc = "drop" => rec.phase \in {"RecordCreated", "PostCommitValidated"}

(* On which side of the rename a move is, in the store and in the manifest. *)
Moved == store[rec.path] = Missing /\ store[rec.dest] # Missing

Unmoved == store[rec.path] # Missing /\ store[rec.dest] = Missing

Renamed == ~Managed(rec.path) /\ Managed(rec.dest)

Unrenamed == Managed(rec.path) /\ ~Managed(rec.dest)

(* A move renames the canonical file first and the item then. *)
MoveItems ==
  /\ backup = Missing /\ rec.path # rec.dest
  /\ rec.phase = "RecordCreated" => Unmoved
  /\ rec.phase = "DestinationExcluded" =>
       /\ pc \in {"act", "RemoveOperationOwnedExclude", "drop"} => Unmoved
       /\ pc = "persist" => Moved
       /\ Unmoved \/ Moved
  /\ rec.phase \notin {"RecordCreated", "DestinationExcluded"} => Moved
  /\ rec.phase \in {"RecordCreated", "DestinationExcluded", "StoreTransferred"} => Unrenamed
  /\ rec.phase = "RepoMoved" =>
       /\ pc \in {"act", "SaveManifest"} => Unrenamed
       /\ pc = "persist" => Renamed
       /\ Unrenamed \/ Renamed
  /\ rec.phase \in {"ManifestSaved", "ExcludeFinalized", "PostCommitValidated"} => Renamed
  /\ pc = "drop" =>
       rec.phase \in {"RecordCreated", "DestinationExcluded", "PostCommitValidated"}

(* Without moves a link always has its canonical file, so that no edit     *)
(* through a link makes one appear.                                        *)
LinksResolve ==
  "edit" \in UserActs => \A p \in Paths : repo[p] = Link => store[p] # Missing

(* Every path that no record names is whole; the record says of the others how far
   their operation is. *)
RecordItems ==
  IF rec = NoRecord
  THEN backup = Missing /\ \A p \in Paths : Whole(p)
  ELSE /\ \A p \in Paths \ {rec.path, rec.dest} : Whole(p)
       /\ rec.op # "move" => rec.dest = rec.path
       /\ rec.op = "move" => "move" \in Commands
       /\ rec.op = "add" => AddItems
       /\ rec.op = "restore" => RestoreItems
       /\ rec.op = "move" => MoveItems

(* A step of an add keeps every item whole but the one at hand. *)
LEMMA AddStepItems ==
  ASSUME TypeInv, RecordItems, AddStep
  PROVE  RecordItems'
<1> USE RecNow, EntriesDistinct DEF TypeInv, TypeOK, RecordItems, Whole, Managed, At, Doing, Goto, disk, user, AddItems
<1>1. CASE AddExclude
  BY <1>1 DEF AddExclude
<1>2. CASE AddTransfer
  <2>1. rec.path \in Paths /\ repo[rec.path] \in Contents /\ rec # NoRecord
    BY <1>2, AddTransfersFile DEF AddTransfer
  <2>2. CASE pc' = "install" /\ UNCHANGED <<repo, store>>
    BY <1>2, <2>1, <2>2 DEF AddTransfer
  <2>3. CASE /\ store' = [store EXCEPT ![rec.path] = repo[rec.path]]
             /\ repo' = [repo EXCEPT ![rec.path] = Missing] /\ pc' = "persist"
    BY <1>2, <2>1, <2>3 DEF AddTransfer
  <2> QED BY <1>2, <2>2, <2>3 DEF AddTransfer
<1>3. CASE AddInstall
  BY <1>3 DEF AddInstall, SourceAsExpected, AddSource
<1>4. CASE AddUnlink
  BY <1>4 DEF AddUnlink
<1>5. CASE AddMaterialize
  BY <1>5 DEF AddMaterialize, AddCreatable
<1>6. CASE AddInstallCopy
  BY <1>6 DEF AddInstallCopy
<1>7. CASE AddSaveManifest
  BY <1>7 DEF AddSaveManifest
<1>8. CASE AddValidate
  BY <1>8 DEF AddValidate
<1>9. CASE AddRemoveOwnedExclude
  BY <1>9 DEF AddRemoveOwnedExclude
<1>10. CASE AddDecide
  BY <1>10, AddDecided DEF AddSeen, Acts, Skips, Rephased, Refuses
<1> QED BY <1>1, <1>2, <1>3, <1>4, <1>5, <1>6, <1>7, <1>8, <1>9, <1>10 DEF AddStep

(* So does a step of a restore. *)
LEMMA RestoreStepItems ==
  ASSUME TypeInv, RecordItems, RestoreStep
  PROVE  RecordItems'
<1> USE RecNow, EntriesDistinct DEF TypeInv, TypeOK, RecordItems, Whole, Managed, At, Doing, Goto, disk, user, RestoreItems
<1>1. CASE RestoreRegularize
  BY <1>1 DEF RestoreRegularize
<1>2. CASE RestoreInstall
  BY <1>2 DEF RestoreInstall
<1>3. CASE RestoreVerify
  BY <1>3 DEF RestoreVerify, RegularMatches
<1>4. CASE RestoreStage
  BY <1>4 DEF RestoreStage, Stageable, TransferReady, TransferFacts, TransferEnds, CanonicalKind, MoveCanonical
<1>5. CASE RestoreIdentify
  BY <1>5, Identifies DEF RestoreIdentify
<1>6. CASE RestoreRemoveManifest
  BY <1>6 DEF RestoreRemoveManifest
<1>7. CASE RestoreExclude
  BY <1>7 DEF RestoreExclude
<1>8. CASE RestoreCheck
  BY <1>8 DEF RestoreCheck, RegularMatches
<1>9. CASE RestoreDeleteBackup
  BY <1>9 DEF RestoreDeleteBackup
<1>10. CASE RestoreDecide
  BY <1>10, RestoreDecided DEF RestoreSeen, Acts, Skips, Rephased, Refuses
<1> QED BY <1>1, <1>2, <1>3, <1>4, <1>5, <1>6, <1>7, <1>8, <1>9, <1>10 DEF RestoreStep

(* So does a step of a move. *)
LEMMA MoveStepItems ==
  ASSUME TypeInv, RecordItems, MoveStep
  PROVE  RecordItems'
<1> USE RecNow, EntriesDistinct DEF TypeInv, TypeOK, RecordItems, Whole, Managed, At, Doing, Goto, disk, user, MoveItems, Moved, Unmoved, Renamed, Unrenamed
<1>1. CASE MoveExclude
  BY <1>1 DEF MoveExclude
<1>2. CASE MoveTransfer
  BY <1>2 DEF MoveTransfer, MoveStoreAsFound, TransferReady, TransferFacts, TransferEnds, CanonicalKind, MoveCanonical
<1>3. CASE MoveRemoveOld
  BY <1>3 DEF MoveRemoveOld
<1>4. CASE MoveCreateNew
  BY <1>4 DEF MoveCreateNew
<1>5. CASE MoveInstallNew
  BY <1>5 DEF MoveInstallNew
<1>6. CASE MoveSaveManifest
  BY <1>6 DEF MoveSaveManifest
<1>7. CASE MoveDropOldExclude
  BY <1>7 DEF MoveDropOldExclude
<1>8. CASE MoveValidate
  BY <1>8 DEF MoveValidate
<1>9. CASE MoveRemoveOwnedExclude
  BY <1>9 DEF MoveRemoveOwnedExclude
<1>10. CASE MoveDecide
  BY <1>10, MoveDecided DEF MoveSeen, Acts, Skips, Rephased, Refuses
<1> QED BY <1>1, <1>2, <1>3, <1>4, <1>5, <1>6, <1>7, <1>8, <1>9, <1>10 DEF MoveStep

(* The start of a command, and a detach, keep every item whole. *)
LEMMA CommandItems ==
  ASSUME TypeInv, RecordItems, Command
  PROVE  RecordItems'
<1> USE DEF TypeInv, TypeOK, RecordItems, Whole, Managed, Goto, disk, user
<1>1. ASSUME NEW p \in Paths, NEW s \in Strategies, AddBegin(p, s)
      PROVE  RecordItems'
  BY <1>1, EntriesDistinct DEF AddBegin, AddPlanned, AddAccepted, Begin, AddItems
<1>2. ASSUME NEW p \in Paths, NEW k \in KeepIgnore, RestoreBegin(p, k)
      PROVE  RecordItems'
  BY <1>2 DEF RestoreBegin, RestorePlanned, RestoreInspected, RestoreAsFound, Begin, RestoreItems
<1>3. ASSUME NEW p \in Paths, NEW q \in Paths, MoveBegin(p, q)
      PROVE  RecordItems'
  BY <1>3 DEF MoveBegin, MovePlanned, Begin, MoveItems, Unmoved, Unrenamed
<1>4. ASSUME NEW p \in Paths, Detach(p)
      PROVE  RecordItems'
  BY <1>4 DEF Detach
<1> QED BY <1>1, <1>2, <1>3, <1>4 DEF Command

(* Phase updates, the end of a run, stops and the start of recovery keep every item
   whole. *)
LEMMA ProcessItems ==
  ASSUME TypeInv, RecordItems, Persist \/ RemoveRecord \/ Halt \/ BeginRecovery
  PROVE  RecordItems'
<1> USE RecNow DEF RecordItems, Whole, Managed, Goto, disk, user, AddItems, RestoreItems, MoveItems,
            Moved, Unmoved, Renamed, Unrenamed
<1>1. CASE Persist
  <2>1. CASE rec.op = "add"
    BY <1>1, <2>1, Persists DEF Rephased
  <2>2. CASE rec.op = "restore"
    BY <1>1, <2>2, Persists DEF Rephased
  <2>3. CASE rec.op = "move"
    BY <1>1, <2>3, Persists DEF Rephased
  <2>4. rec.op \in Ops
    BY <1>1, RecNow DEF Persist
  <2> QED BY <2>1, <2>2, <2>3, <2>4 DEF Ops
<1>2. CASE RemoveRecord
  <2>1. /\ rec # NoRecord /\ rec.op \in Ops /\ rec.path \in Paths /\ rec.dest \in Paths
        /\ rec.phase \in Phases(rec.op) /\ pc = "drop" /\ rec' = NoRecord
        /\ UNCHANGED <<repo, store, backup, manifest>>
    BY <1>2, RecNow DEF RemoveRecord
  <2>2. CASE rec.op = "add"
    BY <2>1, <2>2
  <2>3. CASE rec.op = "restore"
    BY <2>1, <2>3
  <2>4. CASE rec.op = "move"
    BY <2>1, <2>4
  <2> QED BY <2>1, <2>2, <2>3, <2>4 DEF Ops
<1>3. CASE Halt
  BY <1>3 DEF Halt
<1>4. CASE BeginRecovery
  BY <1>4 DEF BeginRecovery
<1> QED BY <1>1, <1>2, <1>3, <1>4

(* What users do keeps every item whole, unless they write through a link to nothing. *)
LEMMA UserActItems ==
  ASSUME TypeInv, RecordItems, LinksResolve, UserAct,
         "edit" \in UserActs => "move" \notin Commands
  PROVE  (RecordItems /\ LinksResolve)'
<1> USE RecNow, EntriesDistinct DEF TypeInv, TypeOK, RecordItems, LinksResolve, Whole, Managed, disk, user,
            AddItems, RestoreItems, MoveItems, Moved, Unmoved, Renamed, Unrenamed, Act, NewEntry
<1>1. ASSUME NEW p \in Paths, NEW c \in Contents, Edit(p, c)
      PROVE  (RecordItems /\ LinksResolve)'
  BY <1>1 DEF Edit
<1>2. ASSUME NEW p \in Paths, NEW c \in Contents, Replace(p, c)
      PROVE  (RecordItems /\ LinksResolve)'
  BY <1>2 DEF Replace
<1>3. ASSUME NEW p \in Paths, Delete(p)
      PROVE  (RecordItems /\ LinksResolve)'
  BY <1>3 DEF Delete
<1>4. ASSUME NEW p \in Paths, Track(p) \/ Unexclude(p)
      PROVE  (RecordItems /\ LinksResolve)'
  BY <1>4 DEF Track, Unexclude
<1> QED BY <1>1, <1>2, <1>3, <1>4 DEF UserAct

(* Where no item is ever moved, a link always has its canonical file. *)
LEMMA WorkLinks ==
  ASSUME TypeInv, RecordItems, LinksResolve, Command \/ BeginRecovery \/ Work \/ Halt,
         "edit" \in UserActs => "move" \notin Commands
  PROVE  LinksResolve'
<1> SUFFICES ASSUME "edit" \in UserActs, "move" \notin Commands,
                    NEW p \in Paths, repo'[p] = Link
             PROVE  store'[p] # Missing
  BY DEF LinksResolve
<1>1. repo[p] = Link => store[p] # Missing
  BY DEF LinksResolve
<1> USE RecNow, EntriesDistinct DEF TypeInv, TypeOK, At, Doing, disk
<1>2. rec # NoRecord => rec.op # "move"
  BY DEF RecordItems
<1>3. CASE Command \/ BeginRecovery \/ Halt \/ Persist \/ RemoveRecord
  BY <1>1, <1>3 DEF Command, AddBegin, RestoreBegin, MoveBegin, Begin, Detach, BeginRecovery, Halt,
                    Persist, RemoveRecord
<1>4. CASE AddStep
  <2>1. CASE AddTransfer
    BY <1>1, <2>1, AddTransfersFile DEF AddTransfer
  <2>2. CASE AddInstall
    BY <1>1, <2>2 DEF AddInstall, RecordItems, AddItems
  <2>3. CASE AddUnlink
    BY <1>1, <2>3 DEF AddUnlink
  <2>4. CASE AddMaterialize
    BY <1>1, <2>4 DEF AddMaterialize, AddCreatable
  <2>5. CASE AddInstallCopy
    BY <1>1, <2>5 DEF AddInstallCopy, AddMaterializable, AddCreatable
  <2>6. CASE AddExclude \/ AddSaveManifest \/ AddValidate \/ AddRemoveOwnedExclude
    BY <1>1, <2>6 DEF AddExclude, AddSaveManifest, AddValidate, AddRemoveOwnedExclude
  <2>7. CASE AddDecide
    BY <1>1, <2>7, AddDecided
  <2> QED BY <1>4, <2>1, <2>2, <2>3, <2>4, <2>5, <2>6, <2>7 DEF AddStep
<1>5. CASE RestoreStep
  <2>1. CASE RestoreInstall
    BY <1>1, <2>1 DEF RestoreInstall
  <2>2. CASE RestoreStage
    BY <1>1, <2>2 DEF RestoreStage, MoveCanonical, RecordItems, RestoreItems
  <2>3. CASE \/ RestoreRegularize \/ RestoreVerify \/ RestoreIdentify \/ RestoreRemoveManifest
             \/ RestoreExclude \/ RestoreCheck \/ RestoreDeleteBackup
    BY <1>1, <2>3 DEF RestoreRegularize, RestoreVerify, RestoreIdentify, RestoreRemoveManifest,
                      RestoreExclude, RestoreCheck, RestoreDeleteBackup
  <2>4. CASE RestoreDecide
    BY <1>1, <2>4, RestoreDecided
  <2> QED BY <1>5, <2>1, <2>2, <2>3, <2>4 DEF RestoreStep
<1>6. ~MoveStep
  <2>1. ~MoveDecide
    BY <1>2 DEF MoveDecide
  <2>2. ~MoveExclude /\ ~MoveTransfer /\ ~MoveRemoveOld /\ ~MoveCreateNew /\ ~MoveInstallNew
    BY <1>2 DEF MoveExclude, MoveTransfer, MoveRemoveOld, MoveCreateNew, MoveInstallNew
  <2>3. ~MoveSaveManifest /\ ~MoveDropOldExclude /\ ~MoveValidate /\ ~MoveRemoveOwnedExclude
    BY <1>2 DEF MoveSaveManifest, MoveDropOldExclude, MoveValidate, MoveRemoveOwnedExclude
  <2> QED BY <2>1, <2>2, <2>3 DEF MoveStep
<1> QED BY <1>3, <1>4, <1>5, <1>6 DEF Work

(* The invariant behind AtRestSound. *)
ItemInv == TypeInv /\ RecordItems /\ LinksResolve

(* ItemInv holds from the start and is kept by every step. *)
LEMMA ItemsHold ==
  ASSUME "edit" \in UserActs => "move" \notin Commands
  PROVE  Spec => []ItemInv
<1>1. Init => ItemInv
  BY TypeInit, EntriesDistinct DEF Init, ItemInv, RecordItems, Whole, Managed, LinksResolve, TypeInv, TypeOK
<1>2. ItemInv /\ [Next]_vars => ItemInv'
  <2> SUFFICES ASSUME ItemInv, [Next]_vars PROVE ItemInv'
    OBVIOUS
  <2>1. CASE Next
    <3>1. TypeInv'
      BY <2>1, TypeNext DEF ItemInv
    <3>2. RecordItems'
      BY <2>1, CommandItems, ProcessItems, AddStepItems, RestoreStepItems, MoveStepItems, UserActItems
         DEF Next, Work, ItemInv
    <3>3. LinksResolve'
      BY <2>1, WorkLinks, UserActItems DEF Next, ItemInv
    <3> QED BY <3>1, <3>2, <3>3 DEF ItemInv
  <2>2. CASE UNCHANGED vars
    BY <2>2, TypeStutter DEF vars, ItemInv, RecordItems, LinksResolve, AddItems, RestoreItems,
       MoveItems, Moved, Unmoved, Renamed, Unrenamed, Whole, Managed
  <2> QED BY <2>1, <2>2
<1> QED BY <1>1, <1>2, PTL DEF Spec

(* Once no record is left, the items are exactly the paths with a canonical file, and
   no backup is left over.  Users may do anything meanwhile but, where items are moved,
   write through a link that a move has left without its canonical file. *)
THEOREM ItemsAtRestAreSound ==
  ASSUME "edit" \in UserActs => "move" \notin Commands
  PROVE  Spec => []AtRestSound
<1>1. ItemInv => AtRestSound
  BY DEF ItemInv, RecordItems, Whole, AtRestSound
<1> QED BY <1>1, ItemsHold, PTL

(***************************************************************************)
(* The contents                                                            *)
(***************************************************************************)

(* What an add holds in its temp is what it took, unless that was replaced. *)
AddContents ==
  LET p == rec.path IN
  /\ rec.phase = "ExcludeWritten" /\ pc = "install" =>
       TRUE \in CrossVolume /\ (same => temp = repo[p])
  /\ rec.phase = "ExcludeWritten" /\ pc = "unlink" =>
       TRUE \in CrossVolume /\ (same => store[p] = repo[p])
  /\ rec.phase = "StoreTransferred" /\ pc = "install" =>
       temp = store[p] /\ repo[p] # Link

(* A restore holds a copy of the canonical file in its temp, and deletes a backup
   only if the working tree has the content, unless a user discarded it. *)
RestoreContents ==
  LET p == rec.path IN
  /\ pc = "install" => temp = store[p] \/ temp \in discarded
  /\ pc = "DeleteBackupAndComplete" /\ backup # Missing =>
       backup = repo[p] \/ backup \in discarded

(* A move of a copy removes the old entry only while it equals the canonical file,
   and what appears at the new path is the canonical file's content. *)
MoveContents ==
  /\ rec.strategy = "copy" /\ turns = 0 /\ same /\ pc \in {"act", "persist"} =>
       /\ rec.phase \in {"RecordCreated", "DestinationExcluded"} /\ Unmoved =>
            repo[rec.path] = store[rec.path]
       /\ rec.phase \in {"DestinationExcluded", "StoreTransferred"} /\ Moved
            /\ (rec.phase = "StoreTransferred" => pc = "act")
          => repo[rec.path] = store[rec.dest]
  /\ pc = "install" => temp = store[rec.dest] /\ rec.strategy = "copy"
  /\ pc = "MoveRepoMaterialization" => turns # 0
  /\ "replace" \notin UserActs => repo[rec.dest] \in {Missing, Link, store[rec.dest]}

(* What each operation holds of contents. *)
RecordContents ==
  rec # NoRecord =>
    /\ rec.op = "add" => AddContents
    /\ rec.op = "restore" => RestoreContents
    /\ rec.op = "move" => MoveContents

(* A step of an add knows what its temp and its copy hold. *)
LEMMA AddStepContents ==
  ASSUME ItemInv, RecordContents, AddStep
  PROVE  RecordContents'
<1> USE RecNow, EntriesDistinct DEF ItemInv, TypeInv, TypeOK, RecordItems, RecordContents, At, Doing, Goto, disk, user, AddItems, AddContents
<1>1. CASE AddExclude
  BY <1>1 DEF AddExclude
<1>2. CASE AddTransfer
  BY <1>2 DEF AddTransfer
<1>3. CASE AddInstall
  BY <1>3 DEF AddInstall
<1>4. CASE AddUnlink
  BY <1>4 DEF AddUnlink
<1>5. CASE AddMaterialize
  BY <1>5 DEF AddMaterialize, AddCreatable
<1>6. CASE AddInstallCopy
  BY <1>6 DEF AddInstallCopy
<1>7. CASE AddSaveManifest
  BY <1>7 DEF AddSaveManifest
<1>8. CASE AddValidate
  BY <1>8 DEF AddValidate
<1>9. CASE AddRemoveOwnedExclude
  BY <1>9 DEF AddRemoveOwnedExclude
<1>10. CASE AddDecide
  BY <1>10, AddDecided DEF AddSeen, Acts, Skips, Rephased, Refuses
<1> QED BY <1>1, <1>2, <1>3, <1>4, <1>5, <1>6, <1>7, <1>8, <1>9, <1>10 DEF AddStep

(* So does a step of a restore, of its temp and its backup. *)
LEMMA RestoreStepContents ==
  ASSUME ItemInv, RecordContents, RestoreStep
  PROVE  RecordContents'
<1> USE RecNow, EntriesDistinct DEF ItemInv, TypeInv, TypeOK, RecordItems, RecordContents, At, Doing, Goto, disk, user, RestoreItems, RestoreContents
<1>1. CASE RestoreRegularize
  BY <1>1 DEF RestoreRegularize
<1>2. CASE RestoreInstall
  BY <1>2 DEF RestoreInstall
<1>3. CASE RestoreVerify
  BY <1>3 DEF RestoreVerify
<1>4. CASE RestoreStage
  BY <1>4 DEF RestoreStage, MoveCanonical
<1>5. CASE RestoreIdentify
  BY <1>5, Identifies DEF RestoreIdentify
<1>6. CASE RestoreRemoveManifest
  BY <1>6 DEF RestoreRemoveManifest
<1>7. CASE RestoreExclude
  BY <1>7 DEF RestoreExclude
<1>8. CASE RestoreCheck
  BY <1>8 DEF RestoreCheck, RegularMatches
<1>9. CASE RestoreDeleteBackup
  BY <1>9 DEF RestoreDeleteBackup
<1>10. CASE RestoreDecide
  BY <1>10, RestoreDecided DEF RestoreSeen, Acts, Skips, Rephased, Refuses
<1> QED BY <1>1, <1>2, <1>3, <1>4, <1>5, <1>6, <1>7, <1>8, <1>9, <1>10 DEF RestoreStep

(* So does a step of a move, of its two copies. *)
LEMMA MoveStepContents ==
  ASSUME ItemInv, RecordContents, MoveStep
  PROVE  RecordContents'
<1> USE RecNow, EntriesDistinct DEF ItemInv, TypeInv, TypeOK, RecordItems, RecordContents, At, Doing, Goto, disk, user, MoveItems, MoveContents, Moved, Unmoved
<1>1. CASE MoveExclude
  BY <1>1 DEF MoveExclude
<1>2. CASE MoveTransfer
  BY <1>2 DEF MoveTransfer, MoveStoreAsFound, TransferReady, TransferFacts, TransferEnds, CanonicalKind, MoveCanonical
<1>3. CASE MoveRemoveOld
  BY <1>3 DEF MoveRemoveOld
<1>4. CASE MoveCreateNew
  BY <1>4 DEF MoveCreateNew
<1>5. CASE MoveInstallNew
  BY <1>5 DEF MoveInstallNew
<1>6. CASE MoveSaveManifest
  BY <1>6 DEF MoveSaveManifest
<1>7. CASE MoveDropOldExclude
  BY <1>7 DEF MoveDropOldExclude
<1>8. CASE MoveValidate
  BY <1>8 DEF MoveValidate
<1>9. CASE MoveRemoveOwnedExclude
  BY <1>9 DEF MoveRemoveOwnedExclude
<1>10. CASE MoveDecide
  <2>1. pc' # "refused" => turns' # 0
    BY <1>10 DEF MoveDecide, DecideWith
  <2> QED BY <1>10, <2>1, MoveDecided DEF MoveSeen, Acts, Skips, Rephased, Refuses
<1> QED BY <1>1, <1>2, <1>3, <1>4, <1>5, <1>6, <1>7, <1>8, <1>9, <1>10 DEF MoveStep

(* The start of a command, and a detach, know it too. *)
LEMMA CommandContents ==
  ASSUME ItemInv, RecordContents, Command
  PROVE  RecordContents'
<1> USE DEF ItemInv, TypeInv, TypeOK, RecordContents, Goto, disk, user
<1>1. ASSUME NEW p \in Paths, NEW s \in Strategies, AddBegin(p, s)
      PROVE  RecordContents'
  BY <1>1 DEF AddBegin, Begin, AddContents
<1>2. ASSUME NEW p \in Paths, NEW k \in KeepIgnore, RestoreBegin(p, k)
      PROVE  RecordContents'
  BY <1>2 DEF RestoreBegin, Begin, RestoreContents
<1>3. ASSUME NEW p \in Paths, NEW q \in Paths, MoveBegin(p, q)
      PROVE  RecordContents'
  BY <1>3, EntriesDistinct DEF MoveBegin, MovePlanned, IsMaterialized, ObservedStrategy, SameContent, Begin,
     MoveContents, Moved, Unmoved
<1>4. ASSUME NEW p \in Paths, Detach(p)
      PROVE  RecordContents'
  BY <1>4 DEF Detach
<1> QED BY <1>1, <1>2, <1>3, <1>4 DEF Command

(* Phase updates, the end of a run, stops and the start of recovery know it too. *)
LEMMA ProcessContents ==
  ASSUME ItemInv, RecordContents, Persist \/ RemoveRecord \/ Halt \/ BeginRecovery
  PROVE  RecordContents'
<1> USE RecNow DEF ItemInv, RecordContents, Goto, disk, user, AddContents, RestoreContents, MoveContents,
            Moved, Unmoved, Recovering
<1>1. CASE Persist
  <2>1. CASE rec.op = "add"
    BY <1>1, <2>1, Persists DEF Rephased
  <2>2. CASE rec.op = "restore"
    BY <1>1, <2>2, Persists DEF Rephased
  <2>3. CASE rec.op = "move"
    BY <1>1, <2>3, Persists DEF Rephased, RecordItems, MoveItems
  <2>4. rec.op \in Ops
    BY <1>1, RecNow DEF Persist
  <2> QED BY <2>1, <2>2, <2>3, <2>4 DEF Ops
<1>2. CASE RemoveRecord
  BY <1>2 DEF RemoveRecord
<1>3. CASE Halt
  BY <1>3 DEF Halt
<1>4. CASE BeginRecovery
  BY <1>4 DEF BeginRecovery, TypeInv, TypeOK
<1> QED BY <1>1, <1>2, <1>3, <1>4

(* Whom an in-place edit could betray: a move, and an add that copies. *)
Undetected == "edit" \in UserActs => "move" \notin Commands /\ TRUE \notin CrossVolume

(* What users do either is discarded or ends the identity the run relies on. *)
LEMMA UserActContents ==
  ASSUME ItemInv, RecordContents, UserAct, Undetected
  PROVE  RecordContents'
<1> USE RecNow, EntriesDistinct DEF ItemInv, TypeInv, TypeOK, RecordContents, disk, user, AddContents, RestoreContents,
            MoveContents, Moved, Unmoved, Act, Discard, Undetected
<1>1. ASSUME NEW p \in Paths, NEW c \in Contents, Edit(p, c)
      PROVE  RecordContents'
  BY <1>1 DEF Edit, RecordItems, RestoreItems
<1>2. ASSUME NEW p \in Paths, NEW entry \in Contents \cup {Missing}, NewEntry(p, entry),
             entry \in Contents => "replace" \in UserActs
      PROVE  RecordContents'
  BY <1>2 DEF NewEntry, Running
<1>3. ASSUME NEW p \in Paths, NEW c \in Contents, Replace(p, c)
      PROVE  RecordContents'
  BY <1>2, <1>3 DEF Replace
<1>4. ASSUME NEW p \in Paths, Delete(p)
      PROVE  RecordContents'
  BY <1>2, <1>4 DEF Delete
<1>5. ASSUME NEW p \in Paths, Track(p) \/ Unexclude(p)
      PROVE  RecordContents'
  <2>1. UNCHANGED <<repo, store, backup, rec, pc, turns, temp, same, discarded>>
    BY <1>5 DEF Track, Unexclude
  <2> QED BY <2>1
<1> QED BY <1>1, <1>3, <1>4, <1>5 DEF UserAct

(* The invariant behind ContentKept and the refinement of ItemBook. *)
ContentInv == ItemInv /\ SparingInv /\ RecordContents

(* ContentInv holds from the start and is kept by every step. *)
LEMMA ContentsHold ==
  ASSUME Undetected
  PROVE  Spec => []ContentInv
<1>1. Init => RecordContents
  BY DEF Init, RecordContents
<1>2. ItemInv /\ RecordContents /\ [Next]_vars => RecordContents'
  <2> SUFFICES ASSUME ItemInv, RecordContents, [Next]_vars PROVE RecordContents'
    OBVIOUS
  <2>1. CASE Next
    BY <2>1, CommandContents, ProcessContents, AddStepContents, RestoreStepContents, MoveStepContents,
       UserActContents DEF Next, Work
  <2>2. CASE UNCHANGED vars
    BY <2>2 DEF vars, RecordContents, AddContents, RestoreContents, MoveContents, Moved, Unmoved
  <2> QED BY <2>1, <2>2
<1>3. Spec => []ItemInv
  BY ItemsHold DEF Undetected
<1> QED BY <1>1, <1>2, <1>3, SparingHolds, PTL DEF Spec, ContentInv

(* No step of shelfbox is an act of a user, or changes what users did. *)
LEMMA UsersStay ==
  ASSUME Command \/ BeginRecovery \/ Work \/ Halt
  PROVE  user' = user
<1>1. CASE Command \/ BeginRecovery \/ Halt \/ Persist \/ RemoveRecord
  BY <1>1 DEF Command, AddBegin, RestoreBegin, MoveBegin, Begin, Detach, BeginRecovery, Halt, Persist,
              RemoveRecord
<1>2. CASE AddDecide \/ RestoreDecide \/ MoveDecide
  BY <1>2 DEF AddDecide, RestoreDecide, MoveDecide, DecideWith
<1>3. CASE AddStep /\ ~AddDecide
  BY <1>3 DEF AddStep, AddExclude, AddTransfer, AddInstall, AddUnlink, AddMaterialize, AddInstallCopy,
              AddSaveManifest, AddValidate, AddRemoveOwnedExclude
<1>4. CASE RestoreStep /\ ~RestoreDecide
  BY <1>4 DEF RestoreStep, RestoreRegularize, RestoreInstall, RestoreVerify, RestoreStage, RestoreIdentify,
              RestoreRemoveManifest, RestoreExclude, RestoreCheck, RestoreDeleteBackup
<1>5. CASE MoveStep /\ ~MoveDecide
  BY <1>5 DEF MoveStep, MoveExclude, MoveTransfer, MoveRemoveOld, MoveCreateNew, MoveInstallNew,
              MoveSaveManifest, MoveDropOldExclude, MoveValidate, MoveRemoveOwnedExclude
<1> QED BY <1>1, <1>2, <1>3, <1>4, <1>5 DEF Work

(* A content is held that is at some place. *)
LEMMA HeldAt ==
  ASSUME NEW c \in Contents
  PROVE  /\ (\E p \in Paths : repo[p] = c \/ store[p] = c) \/ backup = c <=> c \in Held
         /\ (\E p \in Paths : repo'[p] = c \/ store'[p] = c) \/ backup' = c <=> c \in Held'
BY DEF Held

(* The last copy of a content goes only if no place loses it that is not discarded. *)
LEMMA KeptSomewhere ==
  ASSUME \A p \in Paths : repo[p] \in Contents => repo[p] \in Held' \cup discarded,
         \A p \in Paths : store[p] \in Contents => store[p] \in Held' \cup discarded,
         backup \in Contents => backup \in Held' \cup discarded
  PROVE  Held \ Held' \subseteq discarded
<1> SUFFICES ASSUME NEW c \in Contents, c \in Held, c \notin Held' PROVE c \in discarded
  BY DEF Held
<1> QED BY HeldAt

(* What stays at its place stays held. *)
LEMMA StaysHeld ==
  ASSUME UNCHANGED <<repo, store, backup>>
  PROVE  Held \ Held' \subseteq discarded
BY DEF Held

(* Where only one path is written to, and that had no file, nothing is lost. *)
LEMMA FilledIn ==
  ASSUME TypeInv, NEW p \in Paths, repo[p] \notin Contents, NEW entry, 
         repo' = [repo EXCEPT ![p] = entry], UNCHANGED <<store, backup>>
  PROVE  Held \ Held' \subseteq discarded
BY KeptSomewhere, HeldAt DEF TypeInv, TypeOK

(* No step of a command or of recovery loses the last copy of a content that users have
   not overwritten or deleted somewhere. *)
THEOREM ContentsAreKept ==
  ASSUME Undetected
  PROVE  Spec => ContentKept
<1>1. ContentInv /\ [Next]_vars => [acts' = acts => Held \ Held' \subseteq discarded]_vars
  <2> SUFFICES ASSUME ContentInv, Next, acts' = acts PROVE Held \ Held' \subseteq discarded
    OBVIOUS
  <2> USE RecNow, EntriesDistinct DEF ContentInv, ItemInv, TypeInv, TypeOK, RecordItems, RecordContents, At, Doing
  <2>1. ~UserAct
    BY DEF UserAct, Edit, Replace, Delete, Track, Unexclude, Act
  <2>2. CASE Command \/ Persist \/ RemoveRecord \/ Halt \/ BeginRecovery
    BY <2>2, StaysHeld DEF Command, AddBegin, RestoreBegin, MoveBegin, Begin, Detach, Persist,
           RemoveRecord, Halt, BeginRecovery, disk
  <2>3. CASE AddStep
    <3>1. CASE AddTransfer
      <4>1. rec.path \in Paths /\ repo[rec.path] \in Contents /\ rec # NoRecord
        BY <3>1, AddTransfersFile DEF AddTransfer
      <4>2. CASE UNCHANGED <<repo, store>>
        BY <3>1, <4>2, StaysHeld DEF AddTransfer
      <4>3. CASE /\ store' = [store EXCEPT ![rec.path] = repo[rec.path]]
                 /\ repo' = [repo EXCEPT ![rec.path] = Missing] /\ pc = "act"
                 /\ rec.phase = "ExcludeWritten" /\ rec.op = "add" /\ backup' = backup
        <5>1. store[rec.path] = Missing
          BY <4>1, <4>3 DEF AddItems
        <5>2. store'[rec.path] = repo[rec.path]
          BY <4>1, <4>3
        <5>3. \A p \in Paths \ {rec.path} : repo'[p] = repo[p] /\ store'[p] = store[p]
          BY <4>1, <4>3
        <5> QED BY <4>1, <4>3, <5>1, <5>2, <5>3, KeptSomewhere, HeldAt
      <4> QED BY <3>1, <4>2, <4>3 DEF AddTransfer
    <3>2. CASE AddInstall
      <4>1. rec # NoRecord /\ rec.path \in Paths /\ store[rec.path] = Missing
        BY <3>2 DEF AddInstall, AddItems
      <4>2. \A p \in Paths \ {rec.path} : store'[p] = store[p]
        BY <3>2, <4>1 DEF AddInstall
      <4> QED BY <3>2, <4>1, <4>2, KeptSomewhere, HeldAt DEF AddInstall
    <3>3. CASE AddUnlink
      <4>1. rec # NoRecord /\ rec.path \in Paths /\ store[rec.path] = repo[rec.path]
        BY <3>3 DEF AddUnlink, SourceAsExpected, AddContents
      <4>2. \A p \in Paths \ {rec.path} : repo'[p] = repo[p]
        BY <3>3, <4>1 DEF AddUnlink
      <4>3. UNCHANGED <<store, backup>>
        BY <3>3 DEF AddUnlink
      <4> QED BY <4>1, <4>2, <4>3, KeptSomewhere, HeldAt
    <3>4. CASE AddMaterialize
      BY <3>4, StaysHeld, FilledIn DEF AddMaterialize, AddCreatable
    <3>5. CASE AddInstallCopy
      BY <3>5, FilledIn DEF AddInstallCopy, AddMaterializable, AddCreatable
    <3>6. CASE AddExclude \/ AddSaveManifest \/ AddValidate \/ AddRemoveOwnedExclude
      BY <3>6, StaysHeld DEF AddExclude, AddSaveManifest, AddValidate, AddRemoveOwnedExclude, disk
    <3>7. CASE AddDecide
      BY <3>7, AddDecided, StaysHeld DEF disk
    <3> QED BY <2>3, <3>1, <3>2, <3>3, <3>4, <3>5, <3>6, <3>7 DEF AddStep
  <2>4. CASE RestoreStep
    <3>1. CASE RestoreInstall
      BY <3>1, FilledIn DEF RestoreInstall
    <3>2. CASE RestoreStage
      <4>1. /\ rec # NoRecord /\ rec.op = "restore" /\ rec.path \in Paths /\ backup = Missing
            /\ store' = [store EXCEPT ![rec.path] = Missing] /\ backup' = store[rec.path]
            /\ repo' = repo
        BY <3>2 DEF RestoreStage, Stageable, TransferReady, TransferFacts, TransferEnds, CanonicalKind,
                    MoveCanonical
      <4>2. \A p \in Paths \ {rec.path} : store'[p] = store[p]
        BY <4>1
      <4> QED BY <4>1, <4>2, KeptSomewhere, HeldAt
    <3>3. CASE RestoreDeleteBackup
      <4>1. rec # NoRecord /\ rec.path \in Paths
            /\ (backup # Missing => backup = repo[rec.path] \/ backup \in discarded)
        BY <3>3 DEF RestoreDeleteBackup, RestoreContents
      <4>2. UNCHANGED <<repo, store>>
        BY <3>3 DEF RestoreDeleteBackup
      <4> QED BY <4>1, <4>2, KeptSomewhere, HeldAt
    <3>4. CASE \/ RestoreRegularize \/ RestoreVerify \/ RestoreIdentify \/ RestoreRemoveManifest
               \/ RestoreExclude \/ RestoreCheck
      BY <3>4, StaysHeld DEF RestoreRegularize, RestoreVerify, RestoreIdentify, RestoreRemoveManifest,
                             RestoreExclude, RestoreCheck, disk
    <3>5. CASE RestoreDecide
      BY <3>5, RestoreDecided, StaysHeld DEF disk
    <3> QED BY <2>4, <3>1, <3>2, <3>3, <3>4, <3>5 DEF RestoreStep
  <2>5. CASE MoveStep
    <3>1. CASE MoveTransfer
      <4>1. /\ rec # NoRecord /\ rec.op = "move" /\ rec.path \in Paths /\ rec.dest \in Paths
            /\ rec.path # rec.dest /\ store[rec.dest] = Missing
            /\ store' = [store EXCEPT ![rec.path] = Missing, ![rec.dest] = store[rec.path]]
            /\ UNCHANGED <<repo, backup>>
        BY <3>1 DEF MoveTransfer, MoveStoreAsFound, TransferReady, TransferFacts, TransferEnds, CanonicalKind,
                    MoveCanonical, MoveItems
      <4>2. /\ store'[rec.dest] = store[rec.path]
            /\ \A p \in Paths \ {rec.path, rec.dest} : store'[p] = store[p]
        BY <4>1
      <4> QED BY <4>1, <4>2, KeptSomewhere, HeldAt
    <3>2. CASE MoveRemoveOld
      <4>1. /\ rec # NoRecord /\ rec.op = "move" /\ rec.path \in Paths /\ rec.dest \in Paths
            /\ rec.phase = "StoreTransferred" /\ repo' = [repo EXCEPT ![rec.path] = Missing]
            /\ UNCHANGED <<store, backup>>
        BY <3>2 DEF MoveRemoveOld
      <4>2. repo[rec.path] \in Contents => rec.strategy = "copy" /\ turns = 0 /\ same /\ pc = "act"
        <5>1. CASE Recovering
          BY <3>2, <4>1, <5>1 DEF MoveRemoveOld, IsMaterialized, SameContent, SparingInv, MovedCopies
        <5>2. CASE ~Recovering
          BY <3>2, <4>1, <5>2 DEF MoveRemoveOld, Recovering, ObservedStrategy, MoveContents
        <5> QED BY <5>1, <5>2
      <4>3. repo[rec.path] \in Contents => repo[rec.path] = store[rec.dest]
        BY <4>1, <4>2 DEF MoveContents, MoveItems
      <4>4. \A p \in Paths \ {rec.path} : repo'[p] = repo[p]
        BY <4>1
      <4> QED BY <4>1, <4>3, <4>4, KeptSomewhere, HeldAt
    <3>3. CASE MoveCreateNew
      BY <3>3, StaysHeld, FilledIn DEF MoveCreateNew
    <3>4. CASE MoveInstallNew
      BY <3>4, FilledIn DEF MoveInstallNew
    <3>5. CASE \/ MoveExclude \/ MoveSaveManifest \/ MoveDropOldExclude \/ MoveValidate
               \/ MoveRemoveOwnedExclude
      BY <3>5, StaysHeld DEF MoveExclude, MoveSaveManifest, MoveDropOldExclude, MoveValidate,
                             MoveRemoveOwnedExclude, disk
    <3>6. CASE MoveDecide
      BY <3>6, MoveDecided, StaysHeld DEF disk
    <3> QED BY <2>5, <3>1, <3>2, <3>3, <3>4, <3>5, <3>6 DEF MoveStep
  <2> QED BY <2>1, <2>2, <2>3, <2>4, <2>5 DEF Next, Work
<1> QED BY <1>1, ContentsHold, PTL DEF Spec, ContentKept

(***************************************************************************)
(* What a command nobody disturbs has done so far                          *)
(***************************************************************************)

(* An add has the content it recorded at one of its two places. *)
AddCalm ==
  LET p == rec.path IN
  /\ rec.phase = "RecordCreated" =>
       /\ repo[p] = rec.fp
       /\ (p \in excl) = rec.exclBefore \/ p \in excl
       /\ pc = "persist" => p \in excl
  /\ rec.phase = "ExcludeWritten" =>
       /\ store[p] \in {Missing, rec.fp} /\ repo[p] \in {Missing, rec.fp}
       /\ p \in excl \/ pc \notin {"act", "install", "unlink", "persist", "RemoveOperationOwnedExclude"}
       /\ repo[p] = Missing => store[p] = rec.fp /\ p \in excl
       /\ repo[p] = store[p] => TRUE \in CrossVolume
       /\ pc \in {"act", "install", "unlink", "RemoveOperationOwnedExclude"} => repo[p] = rec.fp
       /\ pc = "install" => temp = rec.fp /\ TRUE \in CrossVolume
       /\ pc = "persist" => repo[p] = Missing
  /\ rec.phase = "StoreTransferred" =>
       /\ store[p] = rec.fp
       /\ repo[p] = Missing \/ Shown(p)
       /\ pc = "install" => temp = rec.fp /\ rec.strategy = "copy"
       /\ pc = "persist" => Shown(p)
  /\ rec.phase \in {"RepoMaterialized", "ManifestSaved"} => store[p] = rec.fp /\ Shown(p)
  /\ rec.phase \in {"StoreTransferred", "RepoMaterialized", "ManifestSaved"} => p \in excl

(* A restore began with the path excluded, and keeps the regular file it makes. *)
RestoreCalm ==
  LET p == rec.path IN
  /\ rec.exclBefore
  /\ rec.phase \in {"RecordCreated", "RepoRegularized", "StoreStaged"} => p \in excl
  /\ rec.phase \in {"RecordCreated", "RepoRegularized"} => store[p] \in {rec.fp, Missing}
  /\ rec.phase = "RecordCreated" =>
       /\ repo[p] = rec.fp \/ Shown(p)
       /\ pc \in {"verify", "persist"} => repo[p] = rec.fp
       /\ pc = "install" => temp = rec.fp
  /\ rec.phase \notin {"RecordCreated", "PostCommitValidated"} =>
       repo[p] = rec.fp /\ backup \in {rec.fp, Missing}
  /\ rec.phase = "ManifestRemoved" =>
       /\ p \in excl \/ (~rec.keepIgnore /\ pc # "ApplyKeepIgnorePolicy")
       /\ pc = "persist" => (p \in excl) = rec.keepIgnore
  /\ rec.phase = "ExcludeUpdated" => (p \in excl) = rec.keepIgnore

(* A move keeps the old exclude until the manifest names the new path. *)
MoveCalm ==
  LET old == rec.path
      new == rec.dest
  IN  /\ rec.exclBefore
      /\ rec.phase \notin {"ManifestSaved", "ExcludeFinalized", "PostCommitValidated"} => old \in excl
      /\ rec.phase = "ManifestSaved" /\ pc = "persist" => old \notin excl
      /\ rec.phase = "ExcludeFinalized" => old \notin excl
      /\ rec.phase # "RecordCreated" \/ pc = "persist" => new \in excl
      /\ store[old] \in {Missing, rec.fp} /\ store[new] \in {Missing, rec.fp}
      /\ rec.phase \in {"RecordCreated", "DestinationExcluded"} => Shown(old) /\ repo[new] = Missing
      /\ rec.phase = "StoreTransferred" =>
           /\ Shown(old) \/ repo[old] = Missing
           /\ repo[new] = Missing \/ (Shown(new) /\ repo[old] = Missing)
           /\ pc = "act" => repo[new] = Missing
           /\ pc = "MoveRepoMaterialization" => repo[new] = Missing
           /\ pc \in {"create", "install"} => repo[new] = Missing /\ repo[old] = Missing
           /\ pc = "install" => temp = rec.fp /\ rec.strategy = "copy"
           /\ pc = "persist" => Shown(new)
      /\ rec.phase \in {"RepoMoved", "ManifestSaved", "ExcludeFinalized"} =>
           repo[old] = Missing /\ Shown(new)

(* What each operation knows while no user interferes. *)
RecordCalm ==
  rec # NoRecord =>
    /\ rec.op = "add" => AddCalm
    /\ rec.op = "restore" => RestoreCalm
    /\ rec.op = "move" => MoveCalm

(* A step of an add does what it was to do. *)
LEMMA AddStepCalm ==
  ASSUME SparingInv, RecordItems, RecordCalm, AddStep
  PROVE  RecordCalm'
<1> USE RecNow, EntriesDistinct DEF TypeInv, TypeOK, SparingInv, RecordItems, RecordCalm, Shown, At, Doing, Goto, disk, user, AddItems, AddCalm
<1>1. CASE AddExclude
  BY <1>1 DEF AddExclude
<1>2. CASE AddTransfer
  <2>1. rec.path \in Paths /\ repo[rec.path] \in Contents /\ rec # NoRecord
    BY <1>2, AddTransfersFile DEF AddTransfer
  <2>2. CASE pc' = "install" /\ UNCHANGED <<repo, store>>
    BY <1>2, <2>1, <2>2 DEF AddTransfer
  <2>3. CASE /\ store' = [store EXCEPT ![rec.path] = repo[rec.path]]
             /\ repo' = [repo EXCEPT ![rec.path] = Missing] /\ pc' = "persist"
    BY <1>2, <2>1, <2>3 DEF AddTransfer
  <2> QED BY <1>2, <2>2, <2>3 DEF AddTransfer
<1>3. CASE AddInstall
  BY <1>3 DEF AddInstall
<1>4. CASE AddUnlink
  BY <1>4 DEF AddUnlink
<1>5. CASE AddMaterialize
  BY <1>5 DEF AddMaterialize, AddCreatable
<1>6. CASE AddInstallCopy
  BY <1>6 DEF AddInstallCopy
<1>7. CASE AddSaveManifest
  BY <1>7 DEF AddSaveManifest
<1>8. CASE AddValidate
  BY <1>8 DEF AddValidate
<1>9. CASE AddRemoveOwnedExclude
  BY <1>9 DEF AddRemoveOwnedExclude
<1>10. CASE AddDecide
  <2>1. CASE Refuses
    BY <1>10, <2>1, AddDecided DEF Refuses
  <2>2. CASE Skips("RecordCreated", "ExcludeWritten") /\ AddSeen(2)
    <3>1. /\ rec # NoRecord /\ rec.op = "add" /\ pc = "decide" /\ pc' = pc
          /\ UNCHANGED <<repo, store, excl>>
      BY <1>10, <2>2, AddDecided DEF Skips
    <3>2. /\ rec' # NoRecord /\ rec'.op = "add" /\ rec'.phase = "ExcludeWritten" /\ rec'.path = rec.path
          /\ rec'.strategy = rec.strategy /\ rec'.fp = rec.fp /\ rec.phase = "RecordCreated"
      BY <2>2, <3>1 DEF Skips, Rephased
    <3>3. repo[rec.path] = rec.fp /\ store[rec.path] = Missing /\ rec.fp # Missing /\ rec.path \in excl
      BY <2>2, <3>1 DEF AddSeen
    <3>4. AddCalm'
      BY <3>1, <3>2, <3>3
    <3> QED BY <3>2, <3>4
  <2>3. CASE Skips("ExcludeWritten", "StoreTransferred") /\ AddSeen(3)
    <3>1. /\ rec # NoRecord /\ rec.op = "add" /\ pc = "decide" /\ pc' = pc
          /\ UNCHANGED <<repo, store, excl>>
      BY <1>10, <2>3, AddDecided DEF Skips
    <3>2. /\ rec' # NoRecord /\ rec'.op = "add" /\ rec'.phase = "StoreTransferred" /\ rec'.path = rec.path
          /\ rec'.strategy = rec.strategy /\ rec'.fp = rec.fp /\ rec.phase = "ExcludeWritten"
      BY <2>3, <3>1 DEF Skips, Rephased
    <3>3. repo[rec.path] = Missing /\ store[rec.path] = rec.fp /\ rec.path \in excl
      BY <2>3, <3>1 DEF AddSeen
    <3>4. AddCalm'
      BY <3>1, <3>2, <3>3
    <3> QED BY <3>2, <3>4
  <2>4. CASE Skips("StoreTransferred", "RepoMaterialized") /\ AddSeen(4)
    <3>1. /\ rec # NoRecord /\ rec.op = "add" /\ pc = "decide" /\ pc' = pc
          /\ UNCHANGED <<repo, store, excl>>
      BY <1>10, <2>4, AddDecided DEF Skips
    <3>2. /\ rec' # NoRecord /\ rec'.op = "add" /\ rec'.phase = "RepoMaterialized" /\ rec'.path = rec.path
          /\ rec'.strategy = rec.strategy /\ rec'.fp = rec.fp /\ rec.phase = "StoreTransferred"
      BY <2>4, <3>1 DEF Skips, Rephased
    <3>3. store[rec.path] = rec.fp /\ rec.path \in excl /\ repo[rec.path] # Missing
      BY <2>4, <3>1 DEF AddSeen
    <3>4. AddCalm'
      BY <3>1, <3>2, <3>3
    <3> QED BY <3>2, <3>4
  <2>5. CASE Skips("RepoMaterialized", "ManifestSaved") /\ AddSeen(5)
    <3>1. /\ rec # NoRecord /\ rec.op = "add" /\ pc = "decide" /\ pc' = pc
          /\ UNCHANGED <<repo, store, excl>>
      BY <1>10, <2>5, AddDecided DEF Skips
    <3>2. /\ rec' # NoRecord /\ rec'.op = "add" /\ rec'.phase = "ManifestSaved" /\ rec'.path = rec.path
          /\ rec'.strategy = rec.strategy /\ rec'.fp = rec.fp /\ rec.phase = "RepoMaterialized"
      BY <2>5, <3>1 DEF Skips, Rephased
    <3>3. store[rec.path] = rec.fp /\ rec.path \in excl
      BY <2>5, <3>1 DEF AddSeen
    <3>4. AddCalm'
      BY <3>1, <3>2, <3>3
    <3> QED BY <3>2, <3>4
  <2>6. CASE Acts("RecordCreated", "drop") /\ AddSeen(1)
    BY <1>10, <2>6, AddDecided DEF AddSeen, Acts
  <2>7. CASE Acts("ExcludeWritten", "RemoveOperationOwnedExclude") /\ AddSeen(2)
    BY <1>10, <2>7, AddDecided DEF AddSeen, Acts
  <2>8. CASE Acts("StoreTransferred", "MaterializeRepo") /\ AddSeen(3)
    BY <1>10, <2>8, AddDecided DEF AddSeen, Acts
  <2>9. CASE Acts("RepoMaterialized", "SaveManifest") /\ AddSeen(4)
    BY <1>10, <2>9, AddDecided DEF AddSeen, Acts
  <2>10. CASE Acts("ManifestSaved", "VerifyPostconditionsAndComplete") /\ AddSeen(5)
    BY <1>10, <2>10, AddDecided DEF AddSeen, Acts
  <2> QED BY <1>10, <2>1, <2>2, <2>3, <2>4, <2>5, <2>6, <2>7, <2>8, <2>9, <2>10, AddDecided
<1> QED BY <1>1, <1>2, <1>3, <1>4, <1>5, <1>6, <1>7, <1>8, <1>9, <1>10 DEF AddStep

(* So does a step of a restore. *)
LEMMA RestoreStepCalm ==
  ASSUME SparingInv, RecordItems, RecordCalm, RestoreStep
  PROVE  RecordCalm'
<1> USE RecNow, EntriesDistinct DEF TypeInv, TypeOK, SparingInv, RecordItems, RecordCalm, Shown, At, Doing, Goto, disk, user, RestoreItems, RestoreCalm
<1>1. CASE RestoreRegularize
  BY <1>1 DEF RestoreRegularize, RestoreAsFound, IsMaterialized, SameContent
<1>2. CASE RestoreInstall
  BY <1>2 DEF RestoreInstall
<1>3. CASE RestoreVerify
  BY <1>3 DEF RestoreVerify, RegularMatches
<1>4. CASE RestoreStage
  BY <1>4 DEF RestoreStage, Stageable, TransferReady, TransferFacts, TransferEnds, CanonicalKind, MoveCanonical
<1>5. CASE RestoreIdentify
  BY <1>5, Identifies DEF RestoreIdentify
<1>6. CASE RestoreRemoveManifest
  BY <1>6 DEF RestoreRemoveManifest
<1>7. CASE RestoreExclude
  BY <1>7 DEF RestoreExclude, Recovering
<1>8. CASE RestoreCheck
  BY <1>8 DEF RestoreCheck, RegularMatches
<1>9. CASE RestoreDeleteBackup
  BY <1>9 DEF RestoreDeleteBackup
<1>10. CASE RestoreDecide
  BY <1>10, RestoreDecided DEF RestoreSeen, Acts, Skips, Rephased, Refuses
<1> QED BY <1>1, <1>2, <1>3, <1>4, <1>5, <1>6, <1>7, <1>8, <1>9, <1>10 DEF RestoreStep

(* So does a step of a move. *)
LEMMA MoveStepCalm ==
  ASSUME SparingInv, RecordItems, RecordCalm, MoveStep
  PROVE  RecordCalm'
<1> USE RecNow, EntriesDistinct DEF TypeInv, TypeOK, SparingInv, RecordItems, RecordCalm, Shown, At, Doing, Goto, disk, user, MoveItems, MoveCalm, Moved, Unmoved, ForwardSteps
<1>1. CASE MoveExclude
  BY <1>1 DEF MoveExclude
<1>2. CASE MoveTransfer
  BY <1>2 DEF MoveTransfer, MoveStoreAsFound, TransferReady, TransferFacts, TransferEnds, CanonicalKind, MoveCanonical
<1>3. CASE MoveRemoveOld
  BY <1>3 DEF MoveRemoveOld
<1>4. CASE MoveCreateNew
  BY <1>4 DEF MoveCreateNew
<1>5. CASE MoveInstallNew
  BY <1>5 DEF MoveInstallNew
<1>6. CASE MoveSaveManifest
  BY <1>6 DEF MoveSaveManifest
<1>7. CASE MoveDropOldExclude
  BY <1>7 DEF MoveDropOldExclude
<1>8. CASE MoveValidate
  BY <1>8 DEF MoveValidate
<1>9. CASE MoveRemoveOwnedExclude
  BY <1>9 DEF MoveRemoveOwnedExclude
<1>10. CASE MoveDecide
  BY <1>10, MoveDecided DEF MoveSeen, Acts, Skips, Rephased, Refuses, IsMaterialized, SameContent
<1> QED BY <1>1, <1>2, <1>3, <1>4, <1>5, <1>6, <1>7, <1>8, <1>9, <1>10 DEF MoveStep

(* The start of a command, and a detach, are quiet. *)
LEMMA CommandCalm ==
  ASSUME SparingInv, RecordItems, RecordCalm, Command
  PROVE  RecordCalm'
<1> USE DEF SparingInv, TypeInv, TypeOK, RecordItems, RecordCalm, Shown, Goto, disk, user
<1>1. ASSUME NEW p \in Paths, NEW s \in Strategies, AddBegin(p, s)
      PROVE  RecordCalm'
  BY <1>1 DEF AddBegin, Begin, AddCalm
<1>2. ASSUME NEW p \in Paths, NEW k \in KeepIgnore, RestoreBegin(p, k)
      PROVE  RecordCalm'
  BY <1>2, EntriesDistinct DEF RestoreBegin, RestorePlanned, RestoreInspected, RestoreAsFound, RestoreIntegration,
     IsMaterialized, ObservedStrategy, SameContent, Begin, RestoreCalm
<1>3. ASSUME NEW p \in Paths, NEW q \in Paths, MoveBegin(p, q)
      PROVE  RecordCalm'
  BY <1>3, EntriesDistinct DEF MoveBegin, MovePlanned, IsMaterialized, ObservedStrategy, SameContent, Begin,
     MoveCalm, Whole
<1>4. ASSUME NEW p \in Paths, Detach(p)
      PROVE  RecordCalm'
  BY <1>4 DEF Detach
<1> QED BY <1>1, <1>2, <1>3, <1>4 DEF Command

(* Phase updates, the end of a run, stops and the start of recovery are quiet. *)
LEMMA ProcessCalm ==
  ASSUME SparingInv, RecordItems, RecordCalm, Persist \/ RemoveRecord \/ Halt \/ BeginRecovery
  PROVE  RecordCalm'
<1> USE RecNow, EntriesDistinct DEF SparingInv
<1>1. CASE Persist
  <2>1. /\ rec # NoRecord /\ pc = "persist" /\ Rephased(PhaseAfter[rec.op][rec.phase])
        /\ UNCHANGED <<repo, store, backup, excl, temp>>
        /\ pc' = IF rec'.phase = "PostCommitValidated" THEN "drop"
                 ELSE IF Recovering THEN "decide" ELSE "act"
    BY <1>1, Persists DEF disk
  <2>2. /\ rec' # NoRecord /\ rec'.op = rec.op /\ rec'.path = rec.path /\ rec'.dest = rec.dest
        /\ rec'.strategy = rec.strategy /\ rec'.fp = rec.fp /\ rec'.exclBefore = rec.exclBefore
        /\ rec'.keepIgnore = rec.keepIgnore
    BY <2>1 DEF Rephased
  <2>3. pc' \in {"drop", "decide", "act"}
    BY <2>1
  <2>4. CASE rec.op = "add"
    <3>1. AddCalm /\ AddItems
      BY <2>1, <2>4 DEF RecordCalm, RecordItems
    <3>2. ASSUME rec.phase = "RecordCreated", rec'.phase = "ExcludeWritten" PROVE AddCalm'
      BY <2>1, <2>2, <2>3, <3>1, <3>2 DEF AddCalm, AddItems, Shown
    <3>3. ASSUME rec.phase = "ExcludeWritten", rec'.phase = "StoreTransferred" PROVE AddCalm'
      BY <2>1, <2>2, <2>3, <3>1, <3>3 DEF AddCalm, AddItems, Shown
    <3>4. ASSUME rec.phase = "StoreTransferred", rec'.phase = "RepoMaterialized" PROVE AddCalm'
      BY <2>1, <2>2, <2>3, <3>1, <3>4 DEF AddCalm, AddItems, Shown
    <3>5. ASSUME rec.phase = "RepoMaterialized", rec'.phase = "ManifestSaved" PROVE AddCalm'
      BY <2>1, <2>2, <2>3, <3>1, <3>5 DEF AddCalm, AddItems, Shown
    <3>6. ASSUME rec.phase = "ManifestSaved", rec'.phase = "PostCommitValidated" PROVE AddCalm'
      BY <2>1, <2>2, <2>3, <3>1, <3>6 DEF AddCalm, AddItems, Shown
    <3>7. AddCalm'
      BY <1>1, <2>4, Persists, <3>2, <3>3, <3>4, <3>5, <3>6
    <3> QED BY <2>2, <2>4, <3>7 DEF RecordCalm
  <2>5. CASE rec.op = "restore"
    <3>1. RestoreCalm /\ RestoreItems
      BY <2>1, <2>5 DEF RecordCalm, RecordItems
    <3>2. ASSUME rec.phase = "RecordCreated", rec'.phase = "RepoRegularized" PROVE RestoreCalm'
      BY <2>1, <2>2, <2>3, <3>1, <3>2 DEF RestoreCalm, RestoreItems, Shown
    <3>3. ASSUME rec.phase = "RepoRegularized", rec'.phase = "StoreStaged" PROVE RestoreCalm'
      BY <2>1, <2>2, <2>3, <3>1, <3>3 DEF RestoreCalm, RestoreItems, Shown
    <3>4. ASSUME rec.phase = "StoreStaged", rec'.phase = "ManifestRemoved" PROVE RestoreCalm'
      BY <2>1, <2>2, <2>3, <3>1, <3>4 DEF RestoreCalm, RestoreItems, Shown
    <3>5. ASSUME rec.phase = "ManifestRemoved", rec'.phase = "ExcludeUpdated" PROVE RestoreCalm'
      BY <2>1, <2>2, <2>3, <3>1, <3>5 DEF RestoreCalm, RestoreItems, Shown
    <3>6. ASSUME rec.phase = "ExcludeUpdated", rec'.phase = "PostCommitValidated" PROVE RestoreCalm'
      BY <2>1, <2>2, <2>3, <3>1, <3>6 DEF RestoreCalm, RestoreItems, Shown
    <3>7. RestoreCalm'
      BY <1>1, <2>5, Persists, <3>2, <3>3, <3>4, <3>5, <3>6
    <3> QED BY <2>2, <2>5, <3>7 DEF RecordCalm
  <2>6. CASE rec.op = "move"
    <3>1. MoveCalm /\ MoveItems
      BY <2>1, <2>6 DEF RecordCalm, RecordItems
    <3>2. ASSUME rec.phase = "RecordCreated", rec'.phase = "DestinationExcluded" PROVE MoveCalm'
      BY <2>1, <2>2, <2>3, <3>1, <3>2 DEF MoveCalm, MoveItems, Shown, Moved
    <3>3. ASSUME rec.phase = "DestinationExcluded", rec'.phase = "StoreTransferred" PROVE MoveCalm'
      BY <2>1, <2>2, <2>3, <3>1, <3>3 DEF MoveCalm, MoveItems, Shown, Moved
    <3>4. ASSUME rec.phase = "StoreTransferred", rec'.phase = "RepoMoved" PROVE MoveCalm'
      BY <2>1, <2>2, <2>3, <3>1, <3>4 DEF MoveCalm, MoveItems, Shown, Moved
    <3>5. ASSUME rec.phase = "RepoMoved", rec'.phase = "ManifestSaved" PROVE MoveCalm'
      BY <2>1, <2>2, <2>3, <3>1, <3>5 DEF MoveCalm, MoveItems, Shown, Moved
    <3>6. ASSUME rec.phase = "ManifestSaved", rec'.phase = "ExcludeFinalized" PROVE MoveCalm'
      BY <2>1, <2>2, <2>3, <3>1, <3>6 DEF MoveCalm, MoveItems, Shown, Moved
    <3>7. ASSUME rec.phase = "ExcludeFinalized", rec'.phase = "PostCommitValidated" PROVE MoveCalm'
      BY <2>1, <2>2, <2>3, <3>1, <3>7 DEF MoveCalm, MoveItems, Shown, Moved
    <3>8. MoveCalm'
      BY <1>1, <2>6, Persists, <3>2, <3>3, <3>4, <3>5, <3>6, <3>7
    <3> QED BY <2>2, <2>6, <3>8 DEF RecordCalm
  <2>7. rec.op \in Ops
    BY <2>1
  <2> QED BY <2>4, <2>5, <2>6, <2>7 DEF Ops
<1>2. CASE RemoveRecord
  BY <1>2 DEF RemoveRecord, RecordCalm
<1>3. CASE Halt
  BY <1>3 DEF Halt, disk, user, RecordCalm, Shown, AddCalm, RestoreCalm, MoveCalm
<1>4. CASE BeginRecovery
  BY <1>4 DEF BeginRecovery, disk, user, RecordCalm, Shown, AddCalm, RestoreCalm, MoveCalm
<1> QED BY <1>1, <1>2, <1>3, <1>4

(***************************************************************************)
(* Where a stop blocks the store                                           *)
(***************************************************************************)

(* Recovery has a row for the recorded phase: its own, or the one after it. *)
LEMMA RowApplies ==
  ASSUME NEW op \in Ops, NEW i \in DOMAIN Rows[op], NEW facts,
         \/ facts = Rows[op][i].expected
         \/ i + 1 \in DOMAIN Rows[op] /\ facts = Rows[op][i + 1].expected
  PROVE  Decide(op, Rows[op][i].phase, facts).kind # "conflict"
<1> DEFINE rows == Rows[op]
           here == {j \in DOMAIN rows : rows[j].phase = rows[i].phase}
           Matches(j) == j \in DOMAIN rows /\ rows[j].expected = facts
<1>1. i \in here /\ (Matches(i) \/ Matches(i + 1))
  OBVIOUS
<1>2. CASE \E j \in here : Matches(j)
  BY <1>2 DEF Decide, DecideIn
<1>3. CASE ~(\E j \in here : Matches(j)) /\ \E j \in here : Matches(j + 1)
  BY <1>3 DEF Decide, DecideIn
<1> QED BY <1>1, <1>2, <1>3

(* Only a restore deletes a backup, in its last phase. *)
LEMMA BackupRow ==
  ASSUME NEW op \in Ops, NEW phase, NEW facts,
         Decide(op, phase, facts) = [kind |-> "perform", name |-> "DeleteBackupAndComplete"]
  PROVE  op = "restore" /\ phase = "ExcludeUpdated"
<1>1. PICK i \in DOMAIN Rows[op] :
         Rows[op][i].phase = phase /\ Rows[op][i].action = "DeleteBackupAndComplete"
  BY DecideResult
<1>2. CASE op = "add"
  BY <1>1, <1>2, RowsOfAdd DEF AddRows, Row
<1>3. CASE op = "restore"
  BY <1>1, <1>3, RowsOfRestore DEF RestoreRows, Row
<1>4. CASE op = "move"
  BY <1>1, <1>4, RowsOfMove DEF MoveRows, Row
<1> QED BY <1>2, <1>3, <1>4 DEF Ops

(* An add nobody disturbs is stuck while it rolls its exclude back, or holds two copies. *)
LEMMA AddStuck ==
  ASSUME TypeInv, rec # NoRecord, rec.op = "add", rec.phase # "PostCommitValidated", AddItems, AddCalm,
         Decide("add", rec.phase, AddFacts).kind = "conflict"
  PROVE  /\ rec.phase = "ExcludeWritten" /\ repo[rec.path] = rec.fp
         /\ rec.path \notin excl \/ (TRUE \in CrossVolume /\ store[rec.path] = rec.fp)
<1> DEFINE OfRow(i) == rec.phase = AddRows[i].phase
           Reads(i) == AddFacts = AddRows[i].expected
<1> USE RecNow, EntriesDistinct DEF AddFacts, AddManifestFact, AddRows, Row, AddCalm, AddItems, Shown, Managed
<1>1. ASSUME NEW i \in 1..5, OfRow(i), Reads(i) \/ (i + 1 \in 1..5 /\ Reads(i + 1)) PROVE FALSE
  <2>1. Decide("add", AddRows[i].phase, AddFacts).kind # "conflict"
    <3> HIDE DEF AddRows, AddFacts
    <3> QED BY <1>1, RowApplies, RowsOfAdd DEF Ops
  <2> QED BY <1>1, <2>1
<1>2. CASE rec.phase = "RecordCreated"
  <2>1. OfRow(1) /\ (Reads(1) \/ Reads(2))
    BY <1>2
  <2> QED BY <1>1, <2>1
<1>3. CASE rec.phase = "ExcludeWritten"
  <2>1. CASE repo[rec.path] = rec.fp
    <3>1. store[rec.path] = Missing /\ rec.path \in excl => OfRow(2) /\ Reads(2)
      BY <1>3, <2>1
    <3>2. ~(store[rec.path] = Missing /\ rec.path \in excl)
      BY <1>1, <3>1
    <3> QED BY <1>3, <2>1, <3>2
  <2>2. CASE repo[rec.path] = Missing
    <3>1. OfRow(2) /\ Reads(3)
      BY <1>3, <2>2
    <3> QED BY <1>1, <3>1
  <2> QED BY <1>3, <2>1, <2>2
<1>4. CASE rec.phase = "StoreTransferred"
  <2>1. OfRow(3) /\ (Reads(3) \/ Reads(4))
    BY <1>4
  <2> QED BY <1>1, <2>1
<1>5. CASE rec.phase = "RepoMaterialized"
  <2>1. OfRow(4) /\ (Reads(4) \/ Reads(5))
    BY <1>5
  <2> QED BY <1>1, <2>1
<1>6. CASE rec.phase = "ManifestSaved"
  <2>1. OfRow(5) /\ Reads(5)
    BY <1>6
  <2> QED BY <1>1, <2>1
<1>7. rec.phase \in {"RecordCreated", "ExcludeWritten", "StoreTransferred", "RepoMaterialized", "ManifestSaved"}
  BY RecNow DEF Phases, PhaseAfter
<1> QED BY <1>2, <1>3, <1>4, <1>5, <1>6, <1>7

(* A restore nobody disturbs is stuck once it has deleted its backup. *)
LEMMA RestoreStuck ==
  ASSUME TypeInv, rec # NoRecord, rec.op = "restore", rec.phase # "PostCommitValidated",
         RestoreItems, RestoreCalm, Decide("restore", rec.phase, RestoreFacts).kind = "conflict"
  PROVE  rec.phase = "ExcludeUpdated" /\ backup = Missing
<1> DEFINE OfRow(i) == rec.phase = RestoreRows[i].phase
           Reads(i) == RestoreFacts = RestoreRows[i].expected
<1> USE RecNow, EntriesDistinct DEF RestoreFacts, OriginalRestore, RestoreExcludeFact, RestoreRows, Row,
      RestoreCalm, RestoreItems, Shown, Managed
<1>1. ASSUME NEW i \in 1..5, OfRow(i), Reads(i) \/ (i + 1 \in 1..5 /\ Reads(i + 1)) PROVE FALSE
  <2>1. Decide("restore", RestoreRows[i].phase, RestoreFacts).kind # "conflict"
    <3> HIDE DEF RestoreRows, RestoreFacts
    <3> QED BY <1>1, RowApplies, RowsOfRestore DEF Ops
  <2> QED BY <1>1, <2>1
<1>2. CASE rec.phase = "RecordCreated"
  <2>1. OfRow(1) /\ (Reads(1) \/ Reads(2))
    BY <1>2
  <2> HIDE DEF RestoreFacts, RestoreRows
  <2> QED BY <1>1, <2>1
<1>3. CASE rec.phase = "RepoRegularized"
  <2>1. OfRow(2) /\ (Reads(2) \/ Reads(3))
    BY <1>3
  <2> HIDE DEF RestoreFacts, RestoreRows
  <2> QED BY <1>1, <2>1
<1>4. CASE rec.phase = "StoreStaged"
  <2>1. OfRow(3) /\ (Reads(3) \/ Reads(4))
    BY <1>4
  <2> HIDE DEF RestoreFacts, RestoreRows
  <2> QED BY <1>1, <2>1
<1>5. CASE rec.phase = "ManifestRemoved"
  <2>1. OfRow(4) /\ (Reads(4) \/ Reads(5))
    <3>1. CASE rec.path \in excl
      BY <1>5, <3>1
    <3>2. CASE rec.path \notin excl
      <4>1. rec.keepIgnore = FALSE /\ rec.exclBefore = TRUE /\ rec.phase # "ExcludeUpdated"
        BY <1>5, <3>2
      <4>2. RestoreExcludeFact(rec.path) = "FinalState"
        <5>1. (rec.path \in excl) = FALSE
          BY <3>2
        <5>2. FALSE # TRUE
          OBVIOUS
        <5> HIDE DEF RestoreCalm, RestoreItems, RestoreFacts, RestoreRows, Row
        <5> QED BY <4>1, <5>1, <5>2, Zenon DEF RestoreExcludeFact
      <4>3. OfRow(4) /\ Reads(5)
        <5> HIDE DEF RestoreExcludeFact
        <5> QED BY <1>5, <4>2
      <4> QED BY <4>3
    <3> QED BY <3>1, <3>2
  <2> HIDE DEF RestoreFacts, RestoreRows
  <2> QED BY <1>1, <2>1
<1>6. CASE rec.phase = "ExcludeUpdated"
  <2>1. backup # Missing => OfRow(5) /\ Reads(5)
    BY <1>6
  <2>2. backup = Missing
    <3> HIDE DEF RestoreFacts, RestoreRows
    <3> QED BY <1>1, <2>1
  <2> QED BY <1>6, <2>2
<1>7. rec.phase \in {"RecordCreated", "RepoRegularized", "StoreStaged", "ManifestRemoved", "ExcludeUpdated"}
  BY RecNow DEF Phases, PhaseAfter
<1> QED BY <1>2, <1>3, <1>4, <1>5, <1>6, <1>7

(* A move nobody disturbs is stuck between its canonical move and its new entry. *)
LEMMA MoveStuck ==
  ASSUME TypeInv, rec # NoRecord, rec.op = "move", rec.phase # "PostCommitValidated",
         MoveItems, MoveCalm, Decide("move", rec.phase, MoveFacts).kind = "conflict"
  PROVE  /\ store[rec.dest] = rec.fp /\ rec.phase \in {"DestinationExcluded", "StoreTransferred"}
         /\ repo[rec.dest] = Missing
         /\ repo[rec.path] = Missing \/ rec.strategy = "copy"
<1> DEFINE OfRow(i) == rec.phase = MoveRows[i].phase
           Reads(i) == MoveFacts = MoveRows[i].expected
<1> USE RecNow, EntriesDistinct DEF MoveFacts, IsMaterialized, SameContent, MoveRows, Row,
      MoveCalm, MoveItems, Moved, Unmoved, Renamed, Unrenamed, Shown, Managed
<1>1. ASSUME NEW i \in 1..6, OfRow(i), Reads(i) \/ (i + 1 \in 1..6 /\ Reads(i + 1)) PROVE FALSE
  <2>1. Decide("move", MoveRows[i].phase, MoveFacts).kind # "conflict"
    <3> HIDE DEF MoveRows, MoveFacts
    <3> QED BY <1>1, RowApplies, RowsOfMove DEF Ops
  <2> QED BY <1>1, <2>1
<1>2. CASE rec.phase = "RecordCreated"
  <2>1. OfRow(1) /\ (Reads(1) \/ Reads(2))
    BY <1>2
  <2> QED BY <1>1, <2>1
<1>3. CASE rec.phase = "DestinationExcluded"
  <2>1. Unmoved \/ rec.strategy = "symlink" => OfRow(2) /\ (Reads(2) \/ Reads(3))
    BY <1>3
  <2>2. Moved /\ rec.strategy # "symlink"
    BY <1>1, <1>3, <2>1
  <2> QED BY <1>3, <2>2
<1>4. CASE rec.phase = "StoreTransferred"
  <2>1. repo[rec.dest] # Missing \/ (repo[rec.path] # Missing /\ rec.strategy = "symlink")
          => OfRow(3) /\ (Reads(3) \/ Reads(4))
    BY <1>4
  <2>2. repo[rec.dest] = Missing /\ (repo[rec.path] = Missing \/ rec.strategy = "copy")
    BY <1>1, <2>1
  <2> QED BY <1>4, <2>2
<1>5. CASE rec.phase = "RepoMoved"
  <2>1. OfRow(4) /\ (Reads(4) \/ Reads(5))
    BY <1>5
  <2> QED BY <1>1, <2>1
<1>6. CASE rec.phase = "ManifestSaved"
  <2>1. OfRow(5) /\ (Reads(5) \/ Reads(6))
    BY <1>6
  <2> QED BY <1>1, <2>1
<1>7. CASE rec.phase = "ExcludeFinalized"
  <2>1. OfRow(6) /\ Reads(6)
    BY <1>7
  <2> QED BY <1>1, <2>1
<1>8. rec.phase \in {"RecordCreated", "DestinationExcluded", "StoreTransferred", "RepoMoved", "ManifestSaved",
                     "ExcludeFinalized"}
  BY RecNow DEF Phases, PhaseAfter
<1> QED BY <1>2, <1>3, <1>4, <1>5, <1>6, <1>7, <1>8

(* The invariant behind StuckOnlyInWindows: what holds before the first act of a user. *)
QuietInv == SparingInv /\ (acts = 0 => RecordItems /\ RecordCalm)

(* QuietInv holds from the start and is kept by every step. *)
LEMMA QuietHolds == Spec => []QuietInv
<1>1. Init => (acts = 0 => RecordItems /\ RecordCalm)
  BY EntriesDistinct DEF Init, RecordItems, RecordCalm, Whole, Managed
<1>2. QuietInv /\ SparingInv' /\ [Next]_vars => QuietInv'
  <2> SUFFICES ASSUME QuietInv, SparingInv', [Next]_vars, acts' = 0 PROVE RecordItems' /\ RecordCalm'
    BY DEF QuietInv
  <2>1. CASE UserAct
    <3>1. acts' = acts + 1 /\ acts \in Nat
      BY <2>1 DEF UserAct, Edit, Replace, Delete, Track, Unexclude, Act, QuietInv, SparingInv, TypeInv, TypeOK
    <3> QED BY <3>1
  <2>2. ASSUME Command \/ BeginRecovery \/ Work \/ Halt, acts = 0 PROVE RecordItems' /\ RecordCalm'
    <3>1. TypeInv /\ SparingInv /\ RecordItems /\ RecordCalm
      BY <2>2 DEF QuietInv, SparingInv
    <3>2. RecordItems'
      BY <2>2, <3>1, CommandItems, ProcessItems, AddStepItems, RestoreStepItems, MoveStepItems DEF Work
    <3>3. RecordCalm'
      BY <2>2, <3>1, CommandCalm, ProcessCalm, AddStepCalm, RestoreStepCalm, MoveStepCalm DEF Work
    <3> QED BY <3>2, <3>3
  <2>3. CASE Command \/ BeginRecovery \/ Work \/ Halt
    <3>1. acts' = acts
      BY <2>3, UsersStay DEF user
    <3> QED BY <2>2, <2>3, <3>1
  <2>4. CASE UNCHANGED vars
    <3>1. RecordItems /\ RecordCalm
      BY <2>4 DEF vars, QuietInv
    <3>2. RecordItems'
      BY <2>4, <3>1 DEF vars, RecordItems, AddItems, RestoreItems, MoveItems, Moved, Unmoved, Renamed, Unrenamed,
                        Whole, Managed
    <3>3. RecordCalm'
      BY <2>4, <3>1 DEF vars, RecordCalm, AddCalm, RestoreCalm, MoveCalm, Shown
    <3> QED BY <3>2, <3>3
  <2> QED BY <2>1, <2>3, <2>4 DEF Next
<1> QED BY <1>1, <1>2, SparingHolds, PTL DEF Spec, QuietInv

(* While nobody interferes, a stop leaves a state that recovery refuses only in the
   windows that are named; everywhere else a row of the tables applies. *)
THEOREM StopsBlockOnlyInWindows == Spec => []StuckOnlyInWindows
<1>1. QuietInv => StuckOnlyInWindows
  <2> SUFFICES ASSUME QuietInv, acts = 0, Stuck PROVE StuckOnlyInWindows
    BY DEF StuckOnlyInWindows
  <2> DEFINE decision == Decide(rec.op, rec.phase, FactsOf(rec.op))
  <2>1. /\ rec # NoRecord /\ rec.phase # "PostCommitValidated" /\ rec.op \in Ops
        /\ TypeInv /\ RecordItems /\ RecordCalm
    BY RecNow DEF Stuck, Unfinished, QuietInv, SparingInv
  <2>2. CASE decision = [kind |-> "perform", name |-> "DeleteBackupAndComplete"]
    <3>1. rec.op = "restore" /\ rec.phase = "ExcludeUpdated" /\ ~rec.backupKnown
      BY <2>1, <2>2, BackupRow DEF Stuck
    <3> QED BY <3>1 DEF StuckOnlyInWindows
  <2>3. CASE decision.kind = "conflict"
    <3>1. CASE rec.op = "add"
      BY <2>1, <2>3, <3>1, AddStuck DEF FactsOf, RecordItems, RecordCalm, StuckOnlyInWindows
    <3>2. CASE rec.op = "restore"
      BY <2>1, <2>3, <3>2, RestoreStuck DEF FactsOf, RecordItems, RecordCalm, StuckOnlyInWindows
    <3>3. CASE rec.op = "move"
      BY <2>1, <2>3, <3>3, MoveStuck DEF FactsOf, RecordItems, RecordCalm, StuckOnlyInWindows
    <3> QED BY <2>1, <3>1, <3>2, <3>3 DEF Ops
  <2> QED BY <2>2, <2>3 DEF Stuck
<1> QED BY <1>1, QuietHolds, PTL

(***************************************************************************)
(* The excludes and the records                                            *)
(***************************************************************************)

(* What an add does with the exclude of its path. *)
AddAccounts ==
  LET p == rec.path IN
  /\ rec.exclBefore => p \in kept
  /\ ~rec.exclBefore /\ p \in kept => p \in unlisted
  /\ pc = "drop" =>
       /\ rec.phase \in {"RecordCreated", "ExcludeWritten", "PostCommitValidated"}
       /\ rec.phase # "PostCommitValidated" => p \in Accounted \/ p \notin excl
  /\ \/ rec.phase \in {"ManifestSaved", "PostCommitValidated"}
     \/ rec.phase = "RepoMaterialized" /\ pc = "persist"
     => Managed(p)

(* What a restore does with the exclude of its path. *)
RestoreAccounts ==
  LET p == rec.path
      written == \/ rec.phase \in {"ExcludeUpdated", "PostCommitValidated"}
                 \/ rec.phase = "ManifestRemoved" /\ pc = "persist"
  IN  /\ rec.exclBefore
      /\ rec.phase \in {"RecordCreated", "RepoRegularized"} => Managed(p)
      /\ rec.keepIgnore => p \in excl \cup unlisted
      /\ ~rec.keepIgnore /\ written => p \notin excl
      /\ pc = "drop" => rec.phase \in {"RecordCreated", "PostCommitValidated"}
      /\ rec.keepIgnore /\ written => p \in kept

(* The block lists what it should, but for the path of the record; and what was
   kept in it only the user takes out. *)
RecordAccounts ==
  /\ kept \subseteq excl \cup unlisted
  /\ IF rec = NoRecord
     THEN excl \subseteq Accounted
     ELSE /\ rec.op # "move"
          /\ \A p \in Paths \ {rec.path} : p \in excl => p \in Accounted
          /\ rec.op = "add" => AddAccounts
          /\ rec.op = "restore" => RestoreAccounts

(* A step of an add keeps the account of excludes, its own path apart. *)
LEMMA AddStepAccounts ==
  ASSUME ExcludeInv, RecordAccounts, AddStep
  PROVE  RecordAccounts'
<1> USE RecNow DEF ExcludeInv, TypeInv, TypeOK, RecordAccounts, Accounted, ManagedExcluded, RecordedExcludes, Managed, At, Doing, Goto, disk, user, AddAccounts, AddExcludes
<1>1. CASE AddExclude
  BY <1>1 DEF AddExclude
<1>2. CASE AddTransfer
  BY <1>2 DEF AddTransfer
<1>3. CASE AddInstall
  BY <1>3 DEF AddInstall
<1>4. CASE AddUnlink
  BY <1>4 DEF AddUnlink
<1>5. CASE AddMaterialize
  BY <1>5 DEF AddMaterialize
<1>6. CASE AddInstallCopy
  BY <1>6 DEF AddInstallCopy
<1>7. CASE AddSaveManifest
  BY <1>7 DEF AddSaveManifest
<1>8. CASE AddValidate
  BY <1>8 DEF AddValidate
<1>9. CASE AddRemoveOwnedExclude
  BY <1>9 DEF AddRemoveOwnedExclude
<1>10. CASE AddDecide
  BY <1>10, AddDecided DEF AddSeen, Acts, Skips, Rephased, Refuses
<1> QED BY <1>1, <1>2, <1>3, <1>4, <1>5, <1>6, <1>7, <1>8, <1>9, <1>10 DEF AddStep

(* So does a step of a restore. *)
LEMMA RestoreStepAccounts ==
  ASSUME ExcludeInv, RecordAccounts, RestoreStep
  PROVE  RecordAccounts'
<1> USE RecNow DEF ExcludeInv, TypeInv, TypeOK, RecordAccounts, Accounted, ManagedExcluded, RecordedExcludes, Managed, At, Doing, Goto, disk, user, RestoreAccounts, RestoreExcludes
<1>1. CASE RestoreRegularize
  BY <1>1 DEF RestoreRegularize
<1>2. CASE RestoreInstall
  BY <1>2 DEF RestoreInstall
<1>3. CASE RestoreVerify
  BY <1>3 DEF RestoreVerify
<1>4. CASE RestoreStage
  BY <1>4 DEF RestoreStage, MoveCanonical
<1>5. CASE RestoreIdentify
  BY <1>5, Identifies DEF RestoreIdentify
<1>6. CASE RestoreRemoveManifest
  BY <1>6 DEF RestoreRemoveManifest
<1>7. CASE RestoreExclude
  BY <1>7 DEF RestoreExclude
<1>8. CASE RestoreCheck
  BY <1>8 DEF RestoreCheck
<1>9. CASE RestoreDeleteBackup
  BY <1>9 DEF RestoreDeleteBackup
<1>10. CASE RestoreDecide
  BY <1>10, RestoreDecided DEF RestoreSeen, Acts, Skips, Rephased, Refuses
<1> QED BY <1>1, <1>2, <1>3, <1>4, <1>5, <1>6, <1>7, <1>8, <1>9, <1>10 DEF RestoreStep

(* Where no item is moved, no step is one of a move. *)
LEMMA NoMoveStep ==
  ASSUME rec # NoRecord => rec.op # "move"
  PROVE  ~MoveStep
<1>1. ~MoveDecide
  BY DEF MoveDecide
<1>2. ~MoveExclude /\ ~MoveTransfer /\ ~MoveRemoveOld /\ ~MoveCreateNew /\ ~MoveInstallNew
  BY DEF MoveExclude, MoveTransfer, MoveRemoveOld, MoveCreateNew, MoveInstallNew, At, Doing
<1>3. ~MoveSaveManifest /\ ~MoveDropOldExclude /\ ~MoveValidate /\ ~MoveRemoveOwnedExclude
  BY DEF MoveSaveManifest, MoveDropOldExclude, MoveValidate, MoveRemoveOwnedExclude, At, Doing
<1> QED BY <1>1, <1>2, <1>3 DEF MoveStep

(* The start of a command, and a detach, keep the account. *)
LEMMA CommandAccounts ==
  ASSUME ExcludeInv, RecordAccounts, Command, "move" \notin Commands
  PROVE  RecordAccounts'
<1> USE DEF ExcludeInv, TypeInv, TypeOK, RecordAccounts, Accounted, ManagedExcluded, Managed, Goto, disk, user
<1>1. ASSUME NEW p \in Paths, NEW s \in Strategies, AddBegin(p, s)
      PROVE  RecordAccounts'
  BY <1>1 DEF AddBegin, AddPlanned, AddAccepted, Begin, AddAccounts
<1>2. ASSUME NEW p \in Paths, NEW k \in KeepIgnore, RestoreBegin(p, k)
      PROVE  RecordAccounts'
  BY <1>2 DEF RestoreBegin, RestorePlanned, RestoreIntegration, Begin, RestoreAccounts
<1>3. ASSUME NEW p \in Paths, NEW q \in Paths, MoveBegin(p, q)
      PROVE  RecordAccounts'
  BY <1>3 DEF MoveBegin, Begin
<1>4. ASSUME NEW p \in Paths, Detach(p)
      PROVE  RecordAccounts'
  BY <1>4 DEF Detach
<1> QED BY <1>1, <1>2, <1>3, <1>4 DEF Command

(* Phase updates, the end of a run, stops and the start of recovery keep the account. *)
LEMMA ProcessAccounts ==
  ASSUME ExcludeInv, RecordAccounts, Persist \/ RemoveRecord \/ Halt \/ BeginRecovery
  PROVE  RecordAccounts'
<1> USE RecNow DEF ExcludeInv, RecordAccounts, Accounted, ManagedExcluded, RecordedExcludes, Managed, Goto,
            disk, user, AddAccounts, RestoreAccounts, AddExcludes, RestoreExcludes
<1>1. CASE Persist
  <2>1. CASE rec.op = "add"
    BY <1>1, <2>1, Persists DEF Rephased
  <2>2. CASE rec.op = "restore"
    BY <1>1, <2>2, Persists DEF Rephased
  <2>3. rec.op \in Ops /\ rec # NoRecord
    BY <1>1, RecNow DEF Persist
  <2> QED BY <2>1, <2>2, <2>3 DEF Ops
<1>2. CASE RemoveRecord
  <2>1. /\ rec # NoRecord /\ rec.op \in Ops /\ rec.path \in Paths
        /\ pc = "drop" /\ rec' = NoRecord /\ UNCHANGED <<excl, unlisted, kept, manifest>>
    BY <1>2, RecNow DEF RemoveRecord
  <2>2. excl \subseteq Paths
    BY DEF TypeInv, TypeOK
  <2>3. \A p \in Paths \ {rec.path} : p \in excl => p \in Accounted
    BY <2>1
  <2>4. rec.path \in excl => rec.path \in Accounted
    <3>1. CASE rec.op = "add"
      BY <2>1, <3>1
    <3>2. CASE rec.op = "restore"
      BY <2>1, <3>2
    <3> QED BY <2>1, <3>1, <3>2 DEF Ops
  <2>5. (excl \subseteq Accounted)'
    BY <2>1, <2>2, <2>3, <2>4
  <2> QED BY <2>1, <2>5
<1>3. CASE Halt
  BY <1>3 DEF Halt
<1>4. CASE BeginRecovery
  BY <1>4 DEF BeginRecovery
<1> QED BY <1>1, <1>2, <1>3, <1>4

(* Once no record is left, the managed block lists the items and what --keep-ignore
   left, but for the entries the user deleted.  It is so where no item is moved: the
   rollback of a move leaves the exclude of its destination (run moveleak). *)
THEOREM ExcludesStayAccounted ==
  ASSUME "move" \notin Commands
  PROVE  Spec => []ExcludesAccounted
<1>1. Init => RecordAccounts
  BY DEF Init, RecordAccounts, Accounted, Managed
<1>2. ExcludeInv /\ RecordAccounts /\ [Next]_vars => RecordAccounts'
  <2> SUFFICES ASSUME ExcludeInv, RecordAccounts, [Next]_vars PROVE RecordAccounts'
    OBVIOUS
  <2>1. CASE Command \/ BeginRecovery \/ Halt \/ Persist \/ RemoveRecord
    BY <2>1, CommandAccounts, ProcessAccounts
  <2>2. CASE AddStep \/ RestoreStep
    BY <2>2, AddStepAccounts, RestoreStepAccounts
  <2>3. ~MoveStep
    BY NoMoveStep DEF RecordAccounts
  <2>4. CASE UserAct
    <3>1. /\ UNCHANGED <<manifest, kept, rec, pc>>
          /\ excl' \subseteq excl /\ excl \cup unlisted \subseteq excl' \cup unlisted'
          /\ unlisted \subseteq unlisted'
      BY <2>4, UserActLists
    <3> QED BY <3>1 DEF RecordAccounts, Accounted, AddAccounts, RestoreAccounts, Managed
  <2>5. CASE UNCHANGED vars
    BY <2>5 DEF vars, RecordAccounts, Accounted, AddAccounts, RestoreAccounts, Managed
  <2> QED BY <2>1, <2>2, <2>3, <2>4, <2>5 DEF Next, Work
<1>3. ExcludeInv /\ RecordAccounts => ExcludesAccounted
  BY DEF ExcludeInv, ManagedExcluded, RecordAccounts, Accounted, ExcludesAccounted
<1> QED BY <1>1, <1>2, <1>3, ExcludesHold, PTL DEF Spec

(***************************************************************************)
(* No plaintext in the open                                                *)
(***************************************************************************)

(* Only a forward run of a move installs a copy at the new path: recovery would have
   to remove the old copy first, and no longer can. *)
InstallsForward ==
  rec # NoRecord /\ rec.op = "move" =>
    /\ pc = "install" => rec.strategy = "copy"
    /\ pc \in {"create", "install"} /\ rec.strategy = "copy" => turns = 0

(* InstallsForward is kept by every step. *)
LEMMA InstallsStayForward ==
  ASSUME SparingInv, InstallsForward, [Next]_vars
  PROVE  InstallsForward'
<1> USE RecNow DEF SparingInv, InstallsForward, TypeInv, TypeOK, At, Doing, Goto, disk, user
<1>1. CASE Command
  BY <1>1 DEF Command, AddBegin, RestoreBegin, MoveBegin, Detach, Begin
<1>2. CASE BeginRecovery \/ RemoveRecord \/ Halt
  BY <1>2 DEF BeginRecovery, RemoveRecord, Halt
<1>3. CASE Persist
  BY <1>3, Persists DEF Rephased
<1>4. CASE AddStep
  <2>1. rec # NoRecord /\ rec.op = "add" /\ rec' # NoRecord /\ rec'.op = "add"
    <3>1. CASE AddDecide
      BY <3>1, AddDecided DEF Acts, Skips, Refuses, Rephased
    <3>2. CASE AddExclude \/ AddTransfer \/ AddInstall \/ AddUnlink \/ AddMaterialize
      BY <3>2 DEF AddExclude, AddTransfer, AddInstall, AddUnlink, AddMaterialize
    <3>3. CASE AddInstallCopy \/ AddSaveManifest \/ AddValidate \/ AddRemoveOwnedExclude
      BY <3>3 DEF AddInstallCopy, AddSaveManifest, AddValidate, AddRemoveOwnedExclude
    <3> QED BY <1>4, <3>1, <3>2, <3>3 DEF AddStep
  <2> QED BY <2>1
<1>5. CASE RestoreStep
  <2>1. rec # NoRecord /\ rec.op = "restore" /\ rec' # NoRecord /\ rec'.op = "restore"
    <3>1. CASE RestoreDecide
      BY <3>1, RestoreDecided DEF Acts, Skips, Refuses, Rephased
    <3>2. CASE RestoreRegularize \/ RestoreInstall \/ RestoreVerify \/ RestoreStage
      BY <3>2 DEF RestoreRegularize, RestoreInstall, RestoreVerify, RestoreStage, MoveCanonical
    <3>3. CASE RestoreIdentify
      BY <3>3, Identifies DEF RestoreIdentify
    <3>4. CASE RestoreRemoveManifest \/ RestoreExclude \/ RestoreCheck \/ RestoreDeleteBackup
      BY <3>4 DEF RestoreRemoveManifest, RestoreExclude, RestoreCheck, RestoreDeleteBackup
    <3> QED BY <1>5, <3>1, <3>2, <3>3, <3>4 DEF RestoreStep
  <2> QED BY <2>1
<1>6. CASE MoveStep
  <2>1. CASE MoveRemoveOld
    BY <2>1, EntriesDistinct DEF MoveRemoveOld, MovedCopies, IsMaterialized, SameContent, Recovering
  <2>2. CASE MoveCreateNew
    BY <2>2 DEF MoveCreateNew
  <2>3. CASE MoveDecide
    BY <2>3, MoveDecided DEF Acts, Skips, Refuses, Rephased
  <2>4. CASE \/ MoveExclude \/ MoveTransfer \/ MoveInstallNew \/ MoveSaveManifest
             \/ MoveDropOldExclude \/ MoveValidate \/ MoveRemoveOwnedExclude
    BY <2>4 DEF MoveExclude, MoveTransfer, MoveInstallNew, MoveSaveManifest, MoveDropOldExclude,
                MoveValidate, MoveRemoveOwnedExclude
  <2> QED BY <1>6, <2>1, <2>2, <2>3, <2>4 DEF MoveStep
<1>7. CASE UserAct
  BY <1>7 DEF UserAct, Edit, Replace, Delete, Track, Unexclude, NewEntry
<1>8. CASE UNCHANGED vars
  BY <1>8 DEF vars
<1> QED BY <1>1, <1>2, <1>3, <1>4, <1>5, <1>6, <1>7, <1>8 DEF Next, Work

(* Shelfbox puts a regular file only where Git ignores it, whatever users do between
   its steps: the exclude is there and the path is untracked at the commit itself. *)
THEOREM PlaintextStaysHidden == Spec => NoExposedPlaintext
<1>1. Init => InstallsForward
  BY DEF Init, InstallsForward
<1>2. SparingInv /\ InstallsForward /\ [Next]_vars => InstallsForward'
  BY InstallsStayForward
<1>3. SparingInv /\ InstallsForward /\ [Next]_vars =>
        [acts' = acts =>
           \A p \in Paths : repo'[p] \in Contents /\ repo[p] \notin Contents
                              => p \in excl /\ p \notin tracked]_vars
  <2> SUFFICES ASSUME SparingInv, InstallsForward, Next, acts' = acts,
                      NEW p \in Paths, repo'[p] \in Contents, repo[p] \notin Contents
               PROVE  p \in excl /\ p \notin tracked
    OBVIOUS
  <2> USE RecNow, EntriesDistinct DEF SparingInv, TypeInv, TypeOK, At, Doing
  <2>1. ~UserAct
    BY DEF UserAct, Edit, Replace, Delete, Track, Unexclude, Act
  <2>2. ~(Command \/ Persist \/ RemoveRecord \/ Halt \/ BeginRecovery)
    BY DEF Command, AddBegin, RestoreBegin, MoveBegin, Begin, Detach, Persist,
           RemoveRecord, Halt, BeginRecovery, disk
  <2>3. CASE AddStep
    <3>1. CASE AddInstallCopy
      BY <3>1 DEF AddInstallCopy, AddMaterializable, Permit
    <3>2. ~AddDecide
      BY AddDecided DEF disk
    <3>3. ~AddTransfer
      BY DEF AddTransfer
    <3>4. ~(AddInstall \/ AddUnlink \/ AddMaterialize)
      BY DEF AddInstall, AddUnlink, AddMaterialize
    <3>5. ~(AddExclude \/ AddSaveManifest \/ AddValidate \/ AddRemoveOwnedExclude)
      BY DEF AddExclude, AddSaveManifest, AddValidate, AddRemoveOwnedExclude, disk
    <3> QED BY <2>3, <3>1, <3>2, <3>3, <3>4, <3>5 DEF AddStep
  <2>4. CASE RestoreStep
    <3>1. CASE RestoreInstall
      BY <3>1 DEF RestoreInstall, Permit
    <3>2. ~RestoreDecide
      BY RestoreDecided DEF disk
    <3>3. ~(RestoreRegularize \/ RestoreVerify \/ RestoreStage \/ RestoreIdentify)
      BY DEF RestoreRegularize, RestoreVerify, RestoreStage, MoveCanonical, RestoreIdentify, disk
    <3>4. ~(RestoreRemoveManifest \/ RestoreExclude \/ RestoreCheck \/ RestoreDeleteBackup)
      BY DEF RestoreRemoveManifest, RestoreExclude, RestoreCheck, RestoreDeleteBackup, disk
    <3> QED BY <2>4, <3>1, <3>2, <3>3, <3>4 DEF RestoreStep
  <2>5. CASE MoveStep
    <3>1. CASE MoveInstallNew
      BY <3>1 DEF MoveInstallNew, MoveCreatePermit, MoveIntegration, Permit, Recovering, InstallsForward
    <3>2. ~MoveDecide
      BY MoveDecided DEF disk
    <3>3. ~(MoveExclude \/ MoveTransfer \/ MoveRemoveOld \/ MoveCreateNew)
      BY DEF MoveExclude, MoveTransfer, MoveCanonical, MoveRemoveOld, MoveCreateNew
    <3>4. ~(MoveSaveManifest \/ MoveDropOldExclude \/ MoveValidate \/ MoveRemoveOwnedExclude)
      BY DEF MoveSaveManifest, MoveDropOldExclude, MoveValidate, MoveRemoveOwnedExclude, disk
    <3> QED BY <2>5, <3>1, <3>2, <3>3, <3>4 DEF MoveStep
  <2> QED BY <2>1, <2>2, <2>3, <2>4, <2>5 DEF Next, Work
<1> QED BY <1>1, <1>2, <1>3, SparingHolds, PTL DEF Spec, NoExposedPlaintext

(***************************************************************************)
(* Shelf implements ItemBook                                               *)
(***************************************************************************)

(* An item that is being moved. *)
Moving == rec # NoRecord /\ rec.op = "move" /\ Managed(rec.path)

(* A path that no record names stands for its entry and its canonical file, and so
   does every path without a record. *)
LEMMA OwnVersions ==
  ASSUME NEW p \in Paths
  PROVE  /\ rec = NoRecord \/ p \notin {rec.path, rec.dest} =>
              Versions[p] = {repo[p], store[p]} \cap Contents
         /\ rec' = NoRecord \/ p \notin {rec'.path, rec'.dest} =>
              Versions'[p] = {repo'[p], store'[p]} \cap Contents
BY DEF Versions, VersionsAt

(* The path of an add or a restore also stands for the backup. *)
LEMMA RecordVersions ==
  ASSUME NEW p \in Paths
  PROVE  /\ rec # NoRecord /\ rec.op # "move" /\ p = rec.path =>
              Versions[p] = {repo[p], store[p], backup} \cap Contents
         /\ rec' # NoRecord /\ rec'.op # "move" /\ p = rec'.path =>
              Versions'[p] = {repo'[p], store'[p], backup'} \cap Contents
BY DEF Versions, VersionsAt

(* While an item is moving, its old path also stands for the new canonical file, and
   its new path only for what is not a copy of that. *)
LEMMA MovingVersions ==
  ASSUME NEW p \in Paths
  PROVE  /\ Moving /\ rec.dest # rec.path /\ p = rec.path =>
              Versions[p] = {repo[p], store[p], store[rec.dest]} \cap Contents
         /\ Moving' /\ rec'.dest # rec'.path /\ p = rec'.path =>
              Versions'[p] = {repo'[p], store'[p], store'[rec'.dest]} \cap Contents
         /\ Moving /\ rec.dest # rec.path /\ p = rec.dest =>
              Versions[p] = ({repo[p]} \ (IF rec.strategy = "copy" THEN {store[p]} ELSE {})) \cap Contents
         /\ Moving' /\ rec'.dest # rec'.path /\ p = rec'.dest =>
              Versions'[p] = ({repo'[p]} \ (IF rec'.strategy = "copy" THEN {store'[p]} ELSE {})) \cap Contents
BY DEF Versions, VersionsAt, Moving

(* Once it has moved, they stand for what they hold. *)
LEMMA MovedVersions ==
  ASSUME NEW p \in Paths
  PROVE  /\ rec # NoRecord /\ rec.op = "move" /\ ~Moving /\ rec.dest # rec.path =>
              /\ p = rec.path => Versions[p] = {repo[p], store[p], backup} \cap Contents
              /\ p = rec.dest => Versions[p] = {repo[p], store[p]} \cap Contents
         /\ rec' # NoRecord /\ rec'.op = "move" /\ ~Moving' /\ rec'.dest # rec'.path =>
              /\ p = rec'.path => Versions'[p] = {repo'[p], store'[p], backup'} \cap Contents
              /\ p = rec'.dest => Versions'[p] = {repo'[p], store'[p]} \cap Contents
BY DEF Versions, VersionsAt, Moving

(* Versions is a function on the paths, to sets of contents. *)
LEMMA VersionsTyped ==
  /\ Versions \in [Paths -> SUBSET Contents]
  /\ Versions' \in [Paths -> SUBSET Contents]
BY DEF Versions

(* Versions that agree everywhere are the same. *)
LEMMA VersionsSame ==
  ASSUME \A p \in Paths : Versions'[p] = Versions[p]
  PROVE  Versions' = Versions
<1> HIDE DEF Versions
<1> QED BY VersionsTyped

(* Versions that agree everywhere but at one path differ by that path. *)
LEMMA VersionsBut ==
  ASSUME NEW p \in Paths, \A q \in Paths \ {p} : Versions'[q] = Versions[q]
  PROVE  Versions' = [Versions EXCEPT ![p] = Versions'[p]] /\ Versions'[p] \in SUBSET Contents
<1> HIDE DEF Versions
<1> QED BY VersionsTyped

(* A step that keeps the record's operation and every place is no step of the book. *)
LEMMA RecordOnly ==
  ASSUME rec # NoRecord, rec' # NoRecord, rec'.op = rec.op, rec'.path = rec.path, rec'.dest = rec.dest,
         rec'.strategy = rec.strategy, UNCHANGED <<repo, store, backup, manifest>>
  PROVE  Versions' = Versions
BY DEF Versions, VersionsAt, Managed

(* Nor is one that changes none of the places and not the record. *)
LEMMA PlacesOnly ==
  ASSUME UNCHANGED <<repo, store, backup, manifest, rec>>
  PROVE  Versions' = Versions
BY DEF Versions, VersionsAt, Managed

(* A step of shelfbox that the book does not see. *)
Unseen == manifest' = manifest /\ Versions' = Versions

(* A step at the path of an add or a restore leaves the other paths alone. *)
LEMMA OnePath ==
  ASSUME TypeInv, rec # NoRecord, rec' = rec, rec.dest = rec.path,
         \A q \in Paths \ {rec.path} : repo'[q] = repo[q] /\ store'[q] = store[q]
  PROVE  \A q \in Paths \ {rec.path} : Versions'[q] = Versions[q]
<1> HIDE DEF Versions
<1> QED BY OwnVersions

(* If the path then stands for what it stood for, the book does not see the step. *)
LEMMA UnseenAtPath ==
  ASSUME TypeInv, rec # NoRecord, rec' = rec, rec.op # "move", rec.dest = rec.path,
         \A q \in Paths \ {rec.path} : repo'[q] = repo[q] /\ store'[q] = store[q],
         {repo'[rec.path], store'[rec.path], backup'} \cap Contents
           = {repo[rec.path], store[rec.path], backup} \cap Contents
  PROVE  Versions' = Versions
<1>1. rec.path \in Paths
  BY RecNow
<1>2. \A q \in Paths \ {rec.path} : Versions'[q] = Versions[q]
  BY OnePath
<1>3. Versions'[rec.path] = Versions[rec.path]
  BY <1>1, RecordVersions
<1> QED BY <1>1, <1>2, <1>3, VersionsSame

(* Of an add, the book sees that the manifest is saved. *)
LEMMA AddBook ==
  ASSUME ContentInv, AddStep
  PROVE  Unseen \/ (rec.path \in Paths /\ Book!Add(rec.path))
<1> USE RecNow, EntriesDistinct DEF ContentInv, ItemInv, TypeInv, TypeOK, RecordItems, RecordContents,
            AddItems, AddContents, At, Doing
<1> HIDE DEF Versions
<1>1. CASE AddTransfer
  <2>1. rec.path \in Paths /\ repo[rec.path] \in Contents /\ rec # NoRecord
    BY <1>1, AddTransfersFile DEF AddTransfer
  <2>2. CASE UNCHANGED <<repo, store>>
    BY <1>1, <2>2, PlacesOnly DEF AddTransfer, Unseen
  <2>3. CASE /\ store' = [store EXCEPT ![rec.path] = repo[rec.path]]
             /\ repo' = [repo EXCEPT ![rec.path] = Missing] /\ pc = "act"
             /\ rec.phase = "ExcludeWritten" /\ rec.op = "add" /\ UNCHANGED <<backup, manifest, rec>>
    <3>1. store[rec.path] = Missing /\ rec.dest = rec.path
      BY <2>1, <2>3
    <3>2. store'[rec.path] = repo[rec.path] /\ repo'[rec.path] = Missing
      BY <2>1, <2>3
    <3>3. \A q \in Paths \ {rec.path} : repo'[q] = repo[q] /\ store'[q] = store[q]
      BY <2>1, <2>3
    <3> QED BY <2>1, <2>3, <3>1, <3>2, <3>3, UnseenAtPath DEF Unseen
  <2> QED BY <1>1, <2>2, <2>3 DEF AddTransfer
<1>2. CASE AddInstall
  <2>1. /\ rec # NoRecord /\ rec.op = "add" /\ rec.path \in Paths /\ rec.dest = rec.path
        /\ store[rec.path] = Missing /\ temp = repo[rec.path]
        /\ store' = [store EXCEPT ![rec.path] = temp] /\ UNCHANGED <<repo, backup, manifest, rec>>
    BY <1>2 DEF AddInstall, SourceAsExpected
  <2>2. /\ store'[rec.path] = repo[rec.path]
        /\ \A q \in Paths \ {rec.path} : store'[q] = store[q]
    BY <2>1
  <2> QED BY <2>1, <2>2, UnseenAtPath DEF Unseen
<1>3. CASE AddUnlink
  <2>1. /\ rec # NoRecord /\ rec.op = "add" /\ rec.path \in Paths /\ rec.dest = rec.path
        /\ store[rec.path] = repo[rec.path]
        /\ repo' = [repo EXCEPT ![rec.path] = Missing] /\ UNCHANGED <<store, backup, manifest, rec>>
    BY <1>3 DEF AddUnlink, SourceAsExpected
  <2>2. /\ repo'[rec.path] = Missing
        /\ \A q \in Paths \ {rec.path} : repo'[q] = repo[q]
    BY <2>1
  <2> QED BY <2>1, <2>2, UnseenAtPath DEF Unseen
<1>4. CASE AddMaterialize \/ AddInstallCopy
  <2>1. CASE UNCHANGED <<repo, store>>
    BY <1>4, <2>1, PlacesOnly DEF AddMaterialize, AddInstallCopy, Unseen
  <2>2. ASSUME NEW entry, repo' = [repo EXCEPT ![rec.path] = entry],
               entry = Link \/ entry = store[rec.path]
        PROVE  Unseen
    <3>1. /\ rec # NoRecord /\ rec.op = "add" /\ rec.path \in Paths /\ rec.dest = rec.path
          /\ repo[rec.path] = Missing /\ UNCHANGED <<store, backup, manifest, rec>>
      BY <1>4 DEF AddMaterialize, AddInstallCopy, AddMaterializable, AddCreatable
    <3>2. /\ repo'[rec.path] = entry
          /\ \A q \in Paths \ {rec.path} : repo'[q] = repo[q]
      BY <2>2, <3>1
    <3> QED BY <2>2, <3>1, <3>2, UnseenAtPath DEF Unseen
  <2> QED BY <1>4, <2>1, <2>2 DEF AddMaterialize, AddInstallCopy
<1>5. CASE AddSaveManifest
  <2>1. /\ rec # NoRecord /\ rec.op = "add" /\ rec.path \in Paths /\ rec.dest = rec.path
        /\ store[rec.path] \in Contents /\ UNCHANGED <<repo, store, backup, rec>>
        /\ manifest' = [manifest EXCEPT ![rec.path] = IF @ = "absent" THEN "attached" ELSE @]
        /\ UNCHANGED <<acts, discarded>>
    BY <1>5 DEF AddSaveManifest, user
  <2>2. Versions' = Versions
    BY <2>1, UnseenAtPath
  <2>3. CASE manifest[rec.path] = "absent"
    <3>1. manifest' = [manifest EXCEPT ![rec.path] = "attached"]
      BY <2>1, <2>3
    <3>2. Versions[rec.path] # {}
      BY <2>1, RecordVersions
    <3> QED BY <2>1, <2>2, <2>3, <3>1, <3>2 DEF Book!Add
  <2>4. CASE manifest[rec.path] # "absent"
    BY <2>1, <2>2, <2>4 DEF Unseen
  <2> QED BY <2>3, <2>4
<1>6. CASE AddExclude \/ AddValidate \/ AddRemoveOwnedExclude
  BY <1>6, PlacesOnly DEF AddExclude, AddValidate, AddRemoveOwnedExclude, disk, Unseen
<1>7. CASE AddDecide
  BY <1>7, AddDecided, RecordOnly DEF Acts, Skips, Refuses, Rephased, disk, Unseen
<1> QED BY <1>1, <1>2, <1>3, <1>4, <1>5, <1>6, <1>7 DEF AddStep

(* Of a restore it sees that the manifest is saved, and a race with a user. *)
LEMMA RestoreBook ==
  ASSUME ContentInv, RestoreStep
  PROVE  Unseen \/ (rec.path \in Paths /\ (Book!Restore(rec.path) \/ Book!Settle(rec.path)))
<1> USE RecNow, EntriesDistinct DEF ContentInv, ItemInv, TypeInv, TypeOK, RecordItems, RecordContents,
            RestoreItems, RestoreContents, At, Doing
<1> HIDE DEF Versions
<1>1. ASSUME rec # NoRecord, rec' = rec, rec.op = "restore", rec.path \in Paths, rec.dest = rec.path,
             UNCHANGED <<manifest, acts, discarded>>,
             \A q \in Paths \ {rec.path} : repo'[q] = repo[q] /\ store'[q] = store[q],
             ({repo'[rec.path], store'[rec.path], backup'} \cap Contents) \ discarded
               = ({repo[rec.path], store[rec.path], backup} \cap Contents) \ discarded
      PROVE  Book!Settle(rec.path)
  <2>1. \A q \in Paths \ {rec.path} : Versions'[q] = Versions[q]
    BY <1>1, OnePath
  <2>2. Versions'[rec.path] \ discarded = Versions[rec.path] \ discarded
    BY <1>1, RecordVersions
  <2> QED BY <1>1, <2>1, <2>2, VersionsBut DEF Book!Settle
<1>2. CASE RestoreInstall
  <2>1. /\ rec # NoRecord /\ rec.op = "restore" /\ rec.path \in Paths /\ rec.dest = rec.path
        /\ repo[rec.path] = Link /\ (temp = store[rec.path] \/ temp \in discarded)
        /\ repo' = [repo EXCEPT ![rec.path] = temp] /\ UNCHANGED <<store, backup, manifest, rec>>
        /\ UNCHANGED <<acts, discarded>>
    BY <1>2 DEF RestoreInstall, user
  <2> QED BY <1>1, <2>1
<1>3. CASE RestoreStage
  <2>1. /\ rec # NoRecord /\ rec.op = "restore" /\ rec.path \in Paths /\ rec.dest = rec.path
        /\ store' = [store EXCEPT ![rec.path] = Missing] /\ backup' = store[rec.path]
        /\ backup = Missing /\ UNCHANGED <<repo, manifest, rec>>
    BY <1>3 DEF RestoreStage, Stageable, TransferReady, TransferFacts, TransferEnds, CanonicalKind,
                MoveCanonical
  <2>2. /\ store'[rec.path] = Missing
        /\ \A q \in Paths \ {rec.path} : store'[q] = store[q]
    BY <2>1
  <2> QED BY <2>1, <2>2, UnseenAtPath DEF Unseen
<1>4. CASE RestoreRemoveManifest
  <2>1. /\ rec # NoRecord /\ rec.op = "restore" /\ rec.path \in Paths /\ rec.dest = rec.path
        /\ Managed(rec.path) /\ UNCHANGED <<repo, store, backup, rec>>
        /\ manifest' = [manifest EXCEPT ![rec.path] = "absent"]
        /\ UNCHANGED <<acts, discarded>>
    BY <1>4 DEF RestoreRemoveManifest, user
  <2>2. Versions' = Versions
    BY <2>1, UnseenAtPath
  <2> QED BY <2>1, <2>2 DEF Book!Restore, Managed
<1>5. CASE RestoreDeleteBackup
  <2>1. /\ rec # NoRecord /\ rec.op = "restore" /\ rec.path \in Paths /\ rec.dest = rec.path
        /\ backup # Missing => backup = repo[rec.path] \/ backup \in discarded
        /\ backup' = Missing /\ UNCHANGED <<repo, store, manifest, rec>>
        /\ UNCHANGED <<acts, discarded>>
    BY <1>5 DEF RestoreDeleteBackup, user
  <2> QED BY <1>1, <2>1
<1>6. CASE RestoreRegularize \/ RestoreVerify \/ RestoreExclude \/ RestoreCheck
  BY <1>6, PlacesOnly DEF RestoreRegularize, RestoreVerify, RestoreExclude, RestoreCheck, disk, Unseen
<1>7. CASE RestoreIdentify
  BY <1>7, Identifies, RecordOnly DEF RestoreIdentify, disk, Unseen
<1>8. CASE RestoreDecide
  BY <1>8, RestoreDecided, RecordOnly DEF Acts, Skips, Refuses, Rephased, disk, Unseen
<1> QED BY <1>2, <1>3, <1>4, <1>5, <1>6, <1>7, <1>8 DEF RestoreStep

(* A copy at the new path can be nothing else where nobody puts files: the book would
   take what a user puts there meanwhile for a second version. *)
Unconfused == Undetected /\ ("move" \in Commands => "replace" \notin UserActs)

(* A move changes nothing but its two paths. *)
LEMMA TwoPaths ==
  ASSUME TypeInv, rec # NoRecord, rec' = rec,
         \A q \in Paths \ {rec.path, rec.dest} : repo'[q] = repo[q] /\ store'[q] = store[q]
  PROVE  \A q \in Paths \ {rec.path, rec.dest} : Versions'[q] = Versions[q]
<1> HIDE DEF Versions
<1> QED BY OwnVersions

(* While the item is moving, the book does not see a step that leaves the old path
   with the same versions and gives the new path none. *)
LEMMA UnseenWhileMoving ==
  ASSUME TypeInv, Moving, Moving', rec' = rec, rec.dest # rec.path,
         \A q \in Paths \ {rec.path, rec.dest} : repo'[q] = repo[q] /\ store'[q] = store[q],
         {repo'[rec.path], store'[rec.path], store'[rec.dest]} \cap Contents
           = {repo[rec.path], store[rec.path], store[rec.dest]} \cap Contents,
         repo[rec.dest] \notin Contents \/ UNCHANGED <<repo[rec.dest], store[rec.dest]>>,
         \/ repo'[rec.dest] \notin Contents
         \/ UNCHANGED <<repo[rec.dest], store[rec.dest]>>
         \/ rec.strategy = "copy" /\ repo'[rec.dest] = store'[rec.dest]
  PROVE  Versions' = Versions
<1> HIDE DEF Versions
<1>1. rec.path \in Paths /\ rec.dest \in Paths
  BY RecNow DEF Moving
<1>2. \A q \in Paths \ {rec.path, rec.dest} : Versions'[q] = Versions[q]
  BY TwoPaths DEF Moving
<1>3. Versions'[rec.path] = Versions[rec.path]
  <2>1. Versions[rec.path] = {repo[rec.path], store[rec.path], store[rec.dest]} \cap Contents
    BY <1>1, MovingVersions
  <2>2. Versions'[rec.path] = {repo'[rec.path], store'[rec.path], store'[rec.dest]} \cap Contents
    BY <1>1, MovingVersions
  <2> QED BY <2>1, <2>2
<1>4. Versions'[rec.dest] = Versions[rec.dest]
  <2>1. Versions[rec.dest]
          = ({repo[rec.dest]} \ (IF rec.strategy = "copy" THEN {store[rec.dest]} ELSE {})) \cap Contents
    BY <1>1, MovingVersions
  <2>2. Versions'[rec.dest]
          = ({repo'[rec.dest]} \ (IF rec.strategy = "copy" THEN {store'[rec.dest]} ELSE {})) \cap Contents
    BY <1>1, MovingVersions
  <2> QED BY <2>1, <2>2
<1> QED BY <1>1, <1>2, <1>3, <1>4, VersionsSame

(* Of a move the book sees that the manifest is saved. *)
LEMMA MoveBook ==
  ASSUME ContentInv, MoveStep, Unconfused
  PROVE  Unseen \/ (rec.path \in Paths /\ rec.dest \in Paths /\ Book!Move(rec.path, rec.dest))
<1> USE RecNow, EntriesDistinct DEF ContentInv, ItemInv, TypeInv, TypeOK, RecordItems, RecordContents,
            MoveItems, MoveContents, Moved, Unmoved, At, Doing
<1> HIDE DEF Versions
<1>1. CASE MoveTransfer
  <2>1. /\ rec # NoRecord /\ rec.op = "move" /\ rec.path \in Paths /\ rec.dest \in Paths
        /\ rec.dest # rec.path /\ store[rec.dest] = Missing
        /\ store' = [store EXCEPT ![rec.path] = Missing, ![rec.dest] = store[rec.path]]
        /\ Managed(rec.path) /\ repo[rec.dest] \in {Missing, Link} /\ UNCHANGED <<repo, backup, manifest, rec>>
    BY <1>1 DEF MoveTransfer, MoveStoreAsFound, TransferReady, TransferFacts, TransferEnds, CanonicalKind,
                MoveCanonical, Unrenamed, Unconfused
  <2>2. /\ store'[rec.path] = Missing /\ store'[rec.dest] = store[rec.path]
        /\ \A q \in Paths \ {rec.path, rec.dest} : store'[q] = store[q]
    BY <2>1
  <2>3. Moving /\ Moving'
    BY <2>1 DEF Moving, Managed
  <2> QED BY <2>1, <2>2, <2>3, UnseenWhileMoving DEF Unseen
<1>2. CASE MoveRemoveOld
  <2>1. /\ rec # NoRecord /\ rec.op = "move" /\ rec.path \in Paths /\ rec.dest \in Paths
        /\ rec.dest # rec.path /\ rec.phase = "StoreTransferred"
        /\ repo' = [repo EXCEPT ![rec.path] = Missing]
        /\ Managed(rec.path) /\ UNCHANGED <<store, backup, manifest, rec>>
    BY <1>2 DEF MoveRemoveOld, Unrenamed
  <2>2. repo[rec.path] \in Contents => rec.strategy = "copy" /\ turns = 0 /\ same /\ pc = "act"
    <3>1. CASE Recovering
      BY <1>2, <2>1, <3>1 DEF MoveRemoveOld, IsMaterialized, SameContent, SparingInv, MovedCopies
    <3>2. CASE ~Recovering
      BY <1>2, <2>1, <3>2 DEF MoveRemoveOld, Recovering, ObservedStrategy
    <3> QED BY <3>1, <3>2
  <2>3. repo[rec.path] \in Contents => repo[rec.path] = store[rec.dest]
    BY <2>1, <2>2
  <2>4. /\ repo'[rec.path] = Missing
        /\ \A q \in Paths \ {rec.path} : repo'[q] = repo[q]
    BY <2>1
  <2>5. Moving /\ Moving'
    BY <2>1 DEF Moving, Managed
  <2> QED BY <2>1, <2>3, <2>4, <2>5, UnseenWhileMoving DEF Unseen
<1>3. CASE MoveCreateNew \/ MoveInstallNew
  <2>1. CASE UNCHANGED <<repo, store>>
    BY <1>3, <2>1, PlacesOnly DEF MoveCreateNew, MoveInstallNew, Unseen
  <2>2. ASSUME NEW entry, repo' = [repo EXCEPT ![rec.dest] = entry],
               entry = Link \/ (entry = store[rec.dest] /\ rec.strategy = "copy")
        PROVE  Unseen
    <3>1. /\ rec # NoRecord /\ rec.op = "move" /\ rec.path \in Paths /\ rec.dest \in Paths
          /\ rec.dest # rec.path /\ repo[rec.dest] = Missing
          /\ Managed(rec.path) /\ UNCHANGED <<store, backup, manifest, rec>>
      BY <1>3 DEF MoveCreateNew, MoveInstallNew, Unrenamed
    <3>2. /\ repo'[rec.dest] = entry
          /\ \A q \in Paths \ {rec.dest} : repo'[q] = repo[q]
      BY <2>2, <3>1
    <3>3. Moving /\ Moving'
      BY <3>1 DEF Moving, Managed
    <3> QED BY <2>2, <3>1, <3>2, <3>3, UnseenWhileMoving DEF Unseen
  <2> QED BY <1>3, <2>1, <2>2 DEF MoveCreateNew, MoveInstallNew
<1>4. CASE MoveSaveManifest
  <2>1. /\ rec # NoRecord /\ rec.op = "move" /\ rec.path \in Paths /\ rec.dest \in Paths
        /\ rec.dest # rec.path /\ backup = Missing /\ store[rec.path] = Missing
        /\ manifest' = [manifest EXCEPT ![rec.path] = "absent", ![rec.dest] = manifest[rec.path]]
        /\ UNCHANGED <<repo, store, backup, rec, acts, discarded>>
    BY <1>4 DEF MoveSaveManifest, user
  <2>2. CASE Unrenamed
    <3>1. Moving /\ ~Moving'
      BY <2>1, <2>2 DEF Moving, Unrenamed, Managed
    <3>2. \A q \in Paths \ {rec.path, rec.dest} : Versions'[q] = Versions[q]
      BY <2>1, TwoPaths
    <3>3. Versions' = [Versions EXCEPT ![rec.path] = Versions'[rec.path], ![rec.dest] = Versions'[rec.dest]]
          /\ Versions'[rec.path] \in SUBSET Contents /\ Versions'[rec.dest] \in SUBSET Contents
      BY <2>1, <3>2, VersionsTyped
    <3>4. Versions'[rec.path] \cup Versions'[rec.dest] = Versions[rec.path] \cup Versions[rec.dest]
      <4>1. Versions[rec.path] = {repo[rec.path], store[rec.path], store[rec.dest]} \cap Contents
        BY <2>1, <3>1, MovingVersions
      <4>2. Versions[rec.dest]
              = ({repo[rec.dest]} \ (IF rec.strategy = "copy" THEN {store[rec.dest]} ELSE {})) \cap Contents
        BY <2>1, <3>1, MovingVersions
      <4>3. Versions'[rec.path] = {repo[rec.path], store[rec.path], backup} \cap Contents
        BY <2>1, <3>1, MovedVersions
      <4>4. Versions'[rec.dest] = {repo[rec.dest], store[rec.dest]} \cap Contents
        BY <2>1, <3>1, MovedVersions
      <4> QED BY <2>1, <4>1, <4>2, <4>3, <4>4
    <3> QED BY <2>1, <2>2, <3>3, <3>4 DEF Book!Move, Unrenamed, Managed
  <2>3. Unrenamed
    BY <1>4 DEF MoveSaveManifest
  <2> QED BY <2>2, <2>3
<1>5. CASE MoveExclude \/ MoveDropOldExclude \/ MoveValidate \/ MoveRemoveOwnedExclude
  BY <1>5, PlacesOnly DEF MoveExclude, MoveDropOldExclude, MoveValidate, MoveRemoveOwnedExclude, disk, Unseen
<1>6. CASE MoveDecide
  BY <1>6, MoveDecided, RecordOnly DEF Acts, Skips, Refuses, Rephased, disk, Unseen
<1> QED BY <1>1, <1>2, <1>3, <1>4, <1>5, <1>6 DEF MoveStep

(* What a command's record holds. *)
LEMMA Begins ==
  ASSUME TypeInv, Command, ~\E p \in Paths : Detach(p)
  PROVE  /\ rec = NoRecord /\ rec' # NoRecord /\ UNCHANGED disk
         /\ \/ rec'.op \in {"add", "restore"} /\ rec'.dest = rec'.path /\ rec'.path \in Paths
            \/ /\ rec'.op = "move" /\ rec'.path \in Paths /\ rec'.dest \in Paths
               /\ rec'.dest # rec'.path
               /\ MovePlanned(rec'.path, rec'.dest)
<1> USE RecordDistinct DEF TypeInv, TypeOK
<1>2. ASSUME NEW p \in Paths, NEW s \in Strategies, AddBegin(p, s)
      PROVE  /\ rec = NoRecord /\ rec' # NoRecord /\ UNCHANGED disk
             /\ rec'.op = "add" /\ rec'.dest = rec'.path /\ rec'.path \in Paths
  <2>1. rec' \in Records
    BY <1>2, ParametersTyped DEF AddBegin, AddPlanned, AddSource, Begin, Records, PhaseAfter, Phases
  <2>2. /\ rec = NoRecord /\ UNCHANGED disk
        /\ rec'.op = "add" /\ rec'.dest = rec'.path /\ rec'.path \in Paths
    BY <1>2 DEF AddBegin, Begin
  <2> QED BY <2>1, <2>2
<1>3. ASSUME NEW p \in Paths, NEW k \in KeepIgnore, RestoreBegin(p, k)
      PROVE  /\ rec = NoRecord /\ rec' # NoRecord /\ UNCHANGED disk
             /\ rec'.op = "restore" /\ rec'.dest = rec'.path /\ rec'.path \in Paths
  <2>1. rec' \in Records
    BY <1>3, ParametersTyped
       DEF RestoreBegin, RestorePlanned, RestoreInspected, RestoreAsFound, Begin, Records, PhaseAfter,
           Phases, ObservedStrategy
  <2>2. /\ rec = NoRecord /\ UNCHANGED disk
        /\ rec'.op = "restore" /\ rec'.dest = rec'.path /\ rec'.path \in Paths
    BY <1>3 DEF RestoreBegin, Begin
  <2> QED BY <2>1, <2>2
<1>4. ASSUME NEW p \in Paths, NEW q \in Paths, MoveBegin(p, q)
      PROVE  /\ rec = NoRecord /\ rec' # NoRecord /\ UNCHANGED disk
             /\ rec'.op = "move" /\ rec'.path = p /\ rec'.dest = q /\ p # q /\ MovePlanned(p, q)
  <2>1. rec' \in Records
    BY <1>4 DEF MoveBegin, MovePlanned, Begin, Records, PhaseAfter, Phases, ObservedStrategy
  <2>2. /\ rec = NoRecord /\ UNCHANGED disk
        /\ rec'.op = "move" /\ rec'.path = p /\ rec'.dest = q /\ p # q /\ MovePlanned(p, q)
    BY <1>4 DEF MoveBegin, Begin
  <2> QED BY <2>1, <2>2
<1> QED BY <1>2, <1>3, <1>4 DEF Command

(* The start of a command is not seen; a detach is. *)
LEMMA CommandBook ==
  ASSUME ContentInv, Command
  PROVE  Unseen \/ \E p \in Paths : Book!Detach(p)
<1> USE EntriesDistinct DEF ContentInv, ItemInv, TypeInv, TypeOK, RecordItems
<1> HIDE DEF Versions
<1>1. ASSUME NEW p \in Paths, Detach(p)
      PROVE  Unseen \/ Book!Detach(p)
  <2>1. /\ UNCHANGED <<repo, store, backup, rec, acts, discarded>> /\ rec = NoRecord
        /\ manifest[p] # "absent" /\ manifest' = [manifest EXCEPT ![p] = "detached"]
    BY <1>1 DEF Detach, Managed, user
  <2>2. Versions' = Versions
    BY <2>1, OwnVersions, VersionsSame
  <2>3. CASE manifest[p] = "attached"
    BY <2>1, <2>2, <2>3 DEF Book!Detach
  <2>4. CASE manifest[p] = "detached"
    BY <2>1, <2>2, <2>4 DEF Unseen
  <2> QED BY <2>1, <2>3, <2>4
<1>2. ASSUME ~\E p \in Paths : Detach(p)
      PROVE  Unseen
  <2>1. /\ rec = NoRecord /\ rec' # NoRecord /\ UNCHANGED <<repo, store, backup, manifest>>
        /\ backup = Missing
    BY <1>2, Begins DEF disk
  <2>2. CASE rec'.op \in {"add", "restore"} /\ rec'.dest = rec'.path /\ rec'.path \in Paths
    <3>1. \A q \in Paths : Versions[q] = {repo[q], store[q]} \cap Contents
      BY <2>1, OwnVersions
    <3>2. \A q \in Paths : q # rec'.path => Versions'[q] = {repo[q], store[q]} \cap Contents
      BY <2>1, <2>2, OwnVersions
    <3>3. Versions'[rec'.path] = {repo[rec'.path], store[rec'.path], backup} \cap Contents
      BY <2>1, <2>2, RecordVersions
    <3>4. Versions'[rec'.path] = Versions[rec'.path]
      BY <2>1, <2>2, <3>1, <3>3
    <3> QED BY <2>1, <2>2, <3>1, <3>2, <3>4, VersionsSame DEF Unseen
  <2>3. CASE /\ rec'.op = "move" /\ rec'.path \in Paths /\ rec'.dest \in Paths
             /\ rec'.dest # rec'.path /\ MovePlanned(rec'.path, rec'.dest)
    <3>1. \A q \in Paths : Versions[q] = {repo[q], store[q]} \cap Contents
      BY <2>1, OwnVersions
    <3>2. \A q \in Paths : q \notin {rec'.path, rec'.dest} => Versions'[q] = {repo[q], store[q]} \cap Contents
      BY <2>1, <2>3, OwnVersions
    <3>3. Moving' /\ repo[rec'.dest] = Missing /\ store[rec'.dest] = Missing
      BY <2>1, <2>3 DEF Moving, MovePlanned, Managed, Whole
    <3>4. /\ Versions'[rec'.path] = {repo[rec'.path], store[rec'.path], store[rec'.dest]} \cap Contents
          /\ Versions'[rec'.dest]
               = ({repo'[rec'.dest]} \ (IF rec'.strategy = "copy" THEN {store'[rec'.dest]} ELSE {})) \cap Contents
      BY <2>1, <2>3, <3>3, MovingVersions
    <3>5. Versions'[rec'.path] = Versions[rec'.path]
      BY <2>3, <3>1, <3>3, <3>4
    <3>6. Versions'[rec'.dest] = Versions[rec'.dest]
      BY <2>1, <2>3, <3>1, <3>3, <3>4
    <3> QED BY <2>1, <2>3, <3>1, <3>2, <3>5, <3>6, VersionsSame DEF Unseen
  <2> QED BY <1>2, <2>2, <2>3, Begins
<1> QED BY <1>1, <1>2

(* Phase updates, stops, recovery's start and the end of a run are not seen. *)
LEMMA ProcessBook ==
  ASSUME ContentInv, Persist \/ RemoveRecord \/ Halt \/ BeginRecovery
  PROVE  Unseen
<1> USE EntriesDistinct DEF ContentInv, ItemInv, TypeInv, TypeOK, RecordItems
<1> HIDE DEF Versions
<1>1. CASE Halt \/ BeginRecovery
  BY <1>1, PlacesOnly DEF Halt, BeginRecovery, disk, Unseen
<1>2. CASE Persist
  BY <1>2, Persists, RecordOnly DEF Rephased, disk, Unseen
<1>3. CASE RemoveRecord
  <2>1. /\ rec # NoRecord /\ rec' = NoRecord /\ pc = "drop" /\ backup = Missing
        /\ rec.path \in Paths /\ rec.dest \in Paths /\ rec.op \in Ops /\ rec.phase \in Phases(rec.op)
        /\ UNCHANGED <<repo, store, backup, manifest>>
    BY <1>3, RecNow DEF RemoveRecord, disk, AddItems, RestoreItems, MoveItems, Ops
  <2>2. \A q \in Paths : Versions'[q] = {repo[q], store[q]} \cap Contents
    BY <2>1, OwnVersions
  <2>3. \A q \in Paths : q \notin {rec.path, rec.dest} => Versions[q] = {repo[q], store[q]} \cap Contents
    BY <2>1, OwnVersions
  <2>4. CASE rec.op # "move"
    <3>1. rec.dest = rec.path /\ Versions[rec.path] = {repo[rec.path], store[rec.path], backup} \cap Contents
      BY <1>3, <2>1, <2>4, RecordVersions
    <3>2. Versions'[rec.path] = Versions[rec.path]
      BY <2>1, <2>2, <3>1
    <3> QED BY <2>1, <2>2, <2>3, <3>1, <3>2, VersionsSame DEF Unseen
  <2>5. CASE rec.op = "move" /\ Moving
    <3>1. rec.dest # rec.path /\ store[rec.dest] = Missing
      BY <2>1, <2>5 DEF MoveItems, Moving, Unmoved, Renamed
    <3>2. /\ Versions[rec.path] = {repo[rec.path], store[rec.path], store[rec.dest]} \cap Contents
          /\ Versions[rec.dest]
               = ({repo[rec.dest]} \ (IF rec.strategy = "copy" THEN {store[rec.dest]} ELSE {})) \cap Contents
      BY <2>1, <2>5, <3>1, MovingVersions
    <3>3. Versions[rec.dest] = {repo[rec.dest], store[rec.dest]} \cap Contents
      BY <3>1, <3>2
    <3>4. Versions[rec.path] = {repo[rec.path], store[rec.path]} \cap Contents
      BY <3>1, <3>2
    <3> QED BY <2>1, <2>2, <2>3, <3>3, <3>4, VersionsSame DEF Unseen
  <2>6. CASE rec.op = "move" /\ ~Moving
    <3>1. rec.dest # rec.path
      BY <2>1, <2>6 DEF MoveItems
    <3>2. /\ Versions[rec.path] = {repo[rec.path], store[rec.path], backup} \cap Contents
          /\ Versions[rec.dest] = {repo[rec.dest], store[rec.dest]} \cap Contents
      BY <2>1, <2>6, <3>1, MovedVersions
    <3>3. Versions'[rec.path] = Versions[rec.path]
      BY <2>1, <2>2, <3>2
    <3>4. Versions'[rec.dest] = Versions[rec.dest]
      BY <2>1, <2>2, <3>2
    <3> QED BY <2>1, <2>2, <2>3, <3>3, <3>4, VersionsSame DEF Unseen
  <2> QED BY <2>4, <2>5, <2>6
<1> QED BY <1>1, <1>2, <1>3

(* An act of a user changes what one path stands for, and is counted. *)
LEMMA UserBook ==
  ASSUME ContentInv, UserAct, Unconfused
  PROVE  \E p \in Paths : Book!Touch(p)
<1> USE RecNow, EntriesDistinct DEF ContentInv, ItemInv, TypeInv, TypeOK
<1> HIDE DEF Versions
<1>1. ASSUME NEW p \in Paths, NEW v \in SUBSET Contents, acts' = acts + 1, manifest' = manifest,
             discarded' = discarded \cup v,
             \A q \in Paths \ {p} : Versions'[q] = Versions[q]
      PROVE  \E q \in Paths : Book!Touch(q)
  BY <1>1, VersionsBut DEF Book!Touch
<1>2. ASSUME NEW p \in Paths, UNCHANGED <<store, backup, manifest, rec>>,
             \A q \in Paths \ {p} : repo'[q] = repo[q]
      PROVE  \A q \in Paths \ {p} : Versions'[q] = Versions[q]
  BY <1>2 DEF Versions, VersionsAt, Managed
<1>3. ASSUME NEW p \in Paths, NEW entry \in Contents \cup {Missing}, NewEntry(p, entry), acts' = acts + 1
      PROVE  \E q \in Paths : Book!Touch(q)
  <2>1. /\ UNCHANGED <<store, backup, manifest, rec>> /\ discarded' = discarded \cup ({repo[p]} \cap Contents)
        /\ \A q \in Paths \ {p} : repo'[q] = repo[q]
    BY <1>3 DEF NewEntry, Discard
  <2> QED BY <1>1, <1>2, <1>3, <2>1
<1>4. ASSUME NEW p \in Paths, Track(p) \/ Unexclude(p)
      PROVE  \E q \in Paths : Book!Touch(q)
  <2>1. UNCHANGED <<repo, store, backup, manifest, rec, discarded>> /\ acts' = acts + 1
    BY <1>4 DEF Track, Unexclude, Act, disk
  <2>2. Versions' = Versions
    BY <2>1, PlacesOnly
  <2>3. discarded' = discarded \cup {}
    BY <2>1
  <2> QED BY <1>1, <2>1, <2>2, <2>3
<1>5. ASSUME NEW p \in Paths, NEW c \in Contents, Edit(p, c)
      PROVE  \E q \in Paths : Book!Touch(q)
  <2>1. /\ UNCHANGED <<backup, manifest, rec>> /\ acts' = acts + 1
        /\ \E v \in SUBSET Contents : discarded' = discarded \cup v
        /\ \A q \in Paths \ {p} : repo'[q] = repo[q] /\ store'[q] = store[q]
    BY <1>5 DEF Edit, Act, Discard
  <2>2. rec # NoRecord => rec.op # "move" /\ rec.dest = rec.path
    BY <1>5 DEF Edit, Act, Unconfused, Undetected, RecordItems
  <2>3. \A q \in Paths \ {p} : Versions'[q] = Versions[q]
    <3> TAKE q \in Paths \ {p}
    <3>1. CASE rec = NoRecord \/ q # rec.path
      BY <2>1, <2>2, <3>1, OwnVersions
    <3>2. CASE rec # NoRecord /\ q = rec.path
      <4>1. Versions[q] = {repo[q], store[q], backup} \cap Contents
        BY <2>2, <3>2, RecordVersions
      <4>2. Versions'[q] = {repo'[q], store'[q], backup'} \cap Contents
        BY <2>1, <2>2, <3>2, RecordVersions
      <4> QED BY <2>1, <4>1, <4>2
    <3> QED BY <3>1, <3>2
  <2>4. PICK v \in SUBSET Contents : discarded' = discarded \cup v
    BY <2>1
  <2>5. manifest' = manifest /\ acts' = acts + 1
    BY <2>1
  <2>6. Book!Touch(p)
    BY <2>3, <2>4, <2>5, VersionsBut DEF Book!Touch
  <2> QED BY <2>6
<1>6. PICK p \in Paths :
        \/ \E c \in Contents : Edit(p, c) \/ Replace(p, c)
        \/ Delete(p) \/ Track(p) \/ Unexclude(p)
  BY DEF UserAct
<1>7. CASE \E c \in Contents : Edit(p, c)
  BY <1>5, <1>7
<1>8. CASE Delete(p) \/ \E c \in Contents : Replace(p, c)
  BY <1>3, <1>8 DEF Delete, Replace, Act
<1> QED BY <1>4, <1>6, <1>7, <1>8

(* A step of shelfbox is one of the book, or not seen. *)
LEMMA WorkBook ==
  ASSUME ContentInv, Unconfused, Command \/ BeginRecovery \/ Work \/ Halt
  PROVE  Book!Next \/ UNCHANGED Book!vars
<1> HIDE DEF Versions
<1>1. Unseen => UNCHANGED Book!vars
  BY UsersStay DEF Unseen, user, Book!vars
<1>2. CASE Command
  BY <1>1, <1>2, CommandBook DEF Book!Next
<1>3. CASE BeginRecovery \/ Halt \/ Persist \/ RemoveRecord
  BY <1>1, <1>3, ProcessBook
<1>4. CASE AddStep
  BY <1>1, <1>4, AddBook DEF Book!Next
<1>5. CASE RestoreStep
  BY <1>1, <1>5, RestoreBook DEF Book!Next
<1>6. CASE MoveStep
  BY <1>1, <1>6, MoveBook DEF Book!Next
<1> QED BY <1>2, <1>3, <1>4, <1>5, <1>6 DEF Work

(* Every command is atomic for the ownership of items and loses no version of them,
   through any stop, recovery and act of a user, where no edit or new file can reach a
   move it will not see. *)
THEOREM ShelfImplementsItemBook ==
  ASSUME Unconfused
  PROVE  Spec => ImplementsItemBook
<1> HIDE DEF Versions
<1>1. Init => Book!Init
  BY VersionsTyped DEF Init, Book!Init
<1>2. ContentInv /\ [Next]_vars => [Book!Next]_Book!vars
  <2> SUFFICES ASSUME ContentInv, [Next]_vars
               PROVE  Book!Next \/ UNCHANGED Book!vars
    OBVIOUS
  <2>1. CASE UserAct
    BY <2>1, UserBook DEF Book!Next
  <2>2. CASE UNCHANGED vars
    BY <2>2, PlacesOnly DEF vars, Book!vars
  <2>3. CASE Command \/ BeginRecovery \/ Work \/ Halt
    BY <2>3, WorkBook
  <2> QED BY <2>1, <2>2, <2>3 DEF Next
<1>3. Spec => []ContentInv
  BY ContentsHold DEF Unconfused
<1> QED BY <1>1, <1>2, <1>3, PTL DEF Spec, ImplementsItemBook, Book!Spec
=============================================================================
