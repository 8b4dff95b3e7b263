---------------------------- MODULE RecoveryFacts ----------------------------
(***************************************************************************)
(* What recovery may be told of an operation (the fact types of            *)
(* policy/recovery_policy.rs), and what the truth tables promise about     *)
(* every combination of facts, those no collector has been seen to produce *)
(* included.                                                               *)
(***************************************************************************)
EXTENDS RecoveryPolicy

Unexpected == "Unexpected"

AddFactSpace ==
  {"Source", "Missing", "Materialized", Unexpected} \X {"Missing", "Source", Unexpected}
    \X {"Absent", "Present", Unexpected} \X {"BeforeState", "Present", Unexpected}

RestoreFactSpace ==
  {"Original", "Regular", Unexpected} \X {"CanonicalPresent", "BackupPresent", Unexpected}
    \X {"Present", "Absent", Unexpected} \X {"BeforeState", "FinalState", Unexpected}

MoveFactSpace ==
  {"OldMaterialized", "NewMaterialized", Unexpected} \X {"OldPresent", "NewPresent", Unexpected}
    \X {"OldPath", "NewPath", Unexpected} \X {"BeforeState", "OldAndNew", "NewOnly", Unexpected}

SyncFactSpace == {<<content>> : content \in {"BeforeReplacement", "Synchronized", Unexpected}}

RelinkFactSpace ==
  {"BeforeDirectionBackupAbsent", "SynchronizedBackupPresent", Unexpected}
    \X {"Detached", "Attached", Unexpected} \X {"BeforeState", "Present", Unexpected}

DurableOperations == {"add", "restore", "move", "sync", "relink"}

Tables ==
  [add |-> AddRows, restore |-> RestoreRows, move |-> MoveRows,
   sync |-> SyncRows, relink |-> RelinkRows]

FactSpace ==
  [add |-> AddFactSpace, restore |-> RestoreFactSpace, move |-> MoveFactSpace,
   sync |-> SyncFactSpace, relink |-> RelinkFactSpace]

(* decision_without_observations: the facts of an operation nothing could  *)
(* be observed of.                                                         *)
Unobserved ==
  [add     |-> <<Unexpected, Unexpected, Unexpected, Unexpected>>,
   restore |-> <<Unexpected, Unexpected, Unexpected, Unexpected>>,
   move    |-> <<Unexpected, Unexpected, Unexpected, Unexpected>>,
   sync    |-> <<Unexpected>>,
   relink  |-> <<Unexpected, Unexpected, Unexpected>>]

Decision(op, phase, facts) == DecideIn(Tables[op], phase, facts)

RowsFor(op, facts) == {i \in DOMAIN Tables[op] : Tables[op][i].expected = facts}

(***************************************************************************)
(* Promises                                                                *)
(***************************************************************************)

(* "The all-unexpected facts above must never match a row", and a single   *)
(* one must not either: however much of an operation was observed, and as  *)
(* a row expects it, one unexpected fact is a conflict, in every phase.    *)
UnexpectedIsConflict ==
  \A op \in DurableOperations : \A phase \in STRING :
    \A facts \in FactSpace[op] \cup {Unobserved[op]} :
      (\E k \in DOMAIN facts : facts[k] = Unexpected)
        => Decision(op, phase, facts).kind = "conflict"

(* "Accepting two or more skipped phases would silently bypass a durable   *)
(* boundary": what recovery does, it does for the recorded phase, and it   *)
(* goes over to another phase only if that is the very next one and its    *)
(* facts are all there.                                                    *)
OnlyNextPhaseSkipped ==
  \A op \in DurableOperations : \A i \in DOMAIN Tables[op] : \A facts \in FactSpace[op] :
    LET decision == Decision(op, Tables[op][i].phase, facts)
    IN  /\ decision.kind = "perform" => RowsFor(op, facts) = {i} /\ decision.name = Tables[op][i].action
        /\ decision.kind = "advance" => RowsFor(op, facts) = {i + 1}
                                        /\ decision.to = Tables[op][i + 1].phase
        /\ decision.kind = "conflict" => RowsFor(op, facts) \cap {i, i + 1} = {}
=============================================================================
