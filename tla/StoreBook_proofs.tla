-------------------------- MODULE StoreBook_proofs --------------------------
(***************************************************************************)
(* The store with any number of processes, checkouts, clones, RepoIds and  *)
(* items, and with whatever users do to the checkouts meanwhile: a command *)
(* that writes is alone with the store and its own record, works on the    *)
(* RepoId the index gives its checkout, removes no record of another       *)
(* repository, and takes no item out of the catalog but an orphaned one.   *)
(***************************************************************************)
EXTENDS StoreReport, TLAPS

(***************************************************************************)
(* What holds of jobs, lock, records and items                             *)
(***************************************************************************)

(* The steps at which a command has the lock for writing. *)
Locked == {"gate"} \cup PastTheGate

(* Whoever is past the wait for the lock has it, alone, and readers only read. *)
LockHeld ==
  /\ lock # Nothing => readers = {}
  /\ \A p \in Procs : job[p] # Nothing /\ job[p].step \in Locked => lock = p
  /\ \A p \in Procs : lock = p => job[p] # Nothing /\ job[p].step \in Locked
  /\ \A p \in readers : job[p] # Nothing /\ job[p].step \in {"read", "report"}

(* What a job knows at each of its steps. *)
Shaped(j) ==
  /\ j.cmd \in RepoCommands \cup {"status", "reclaim"} => j.root \in Roots
  /\ j.cmd = "reclaim" => j.common \in Roots /\ j.clone \in Clones /\ j.id \in Ids
  /\ j.cmd = "repair" => j.id \in Ids
  /\ j.cmd = "status" => j.step \in {"lock", "read", "report"}
  /\ j.step \in {"read", "report"} => j.cmd = "status"
  /\ j.step = "resolve" => j.cmd \in RepoCommands
  /\ j.step \in {"begin", "drop"} => j.cmd \in {"add", "refresh"}
  /\ j.step \in {"place", "save", "final"} => j.cmd = "add"
  /\ j.step \in {"begin", "place", "save", "final", "drop", "report"} => j.id \in Ids
  /\ j.plan # {} => j.step \in {"collect", "delete"}

JobsShaped == \A p \in Procs : job[p] # Nothing => Shaped(job[p])

(* The records behind the gate: none, or those of the command itself. *)
Handled(p) ==
  job[p] # Nothing =>
    /\ job[p].step \in Locked =>
         Newer \notin records /\ (job[p].strict => \A rec \in records : rec.strict)
    /\ job[p].step \in {"resolve", "begin", "run", "collect", "delete"} => records = {}
    /\ job[p].step \in {"place", "save", "final"} =>
         /\ \A rec \in records : Own(p, rec) /\ rec.kind = "operation" /\ ~rec.final
         /\ \A rec, other \in records : rec = other
    /\ job[p].step = "drop" =>
         \A rec \in records : Own(p, rec) /\ (rec.kind = "operation" => rec.final)

RecordsHandled == \A p \in Procs : Handled(p)

(* The ownership state of an item, or "absent". *)
State(i, x) == ItemsOf(i)[x]

(* Whatever a manifest lists has its canonical file. *)
FilesListed == \A i \in Ids, x \in Items : State(i, x) # "absent" => <<i, x>> \in files

(* What an unfinished add is about is not listed, or listed as attached. *)
AddsListed ==
  \A rec \in records : rec.kind = "operation" /\ ~rec.final =>
    State(rec.id, rec.item) \in {"absent", "attached"}

(* How far a command has come with its item, and that a gc deletes orphaned ones. *)
AtWork(p) ==
  job[p] # Nothing =>
    /\ job[p].step \in {"begin", "place", "save"} => Format(job[p].id) # "v2"
    /\ job[p].step \in {"place", "save"} =>
         \A rec \in records : State(rec.id, rec.item) = "absent"
    /\ job[p].step = "save" => \A rec \in records : <<rec.id, rec.item>> \in files
    /\ job[p].step = "final" => \A rec \in records : State(rec.id, rec.item) = "attached"
    /\ \A i \in Ids, x \in Items : <<i, x>> \in job[p].plan =>
         manifest[i] # Nothing /\ State(i, x) \in {"absent", "orphaned"}

ItemsAtWork == \A p \in Procs : AtWork(p)

(***************************************************************************)
(* Jobs                                                                    *)
(***************************************************************************)

(* A job that takes a step, and nothing else of it. *)
LEMMA JobMoved ==
  ASSUME NEW j \in StoreJobs, NEW s \in Steps
  PROVE  LET m == [j EXCEPT !.step = s]
         IN  /\ m \in StoreJobs /\ m # Nothing
             /\ m.step = s /\ m.cmd = j.cmd /\ m.strict = j.strict /\ m.root = j.root
             /\ m.common = j.common /\ m.clone = j.clone /\ m.id = j.id /\ m.plan = j.plan
BY NothingElse DEF StoreJobs

(* A job just made. *)
LEMMA JobMade ==
  ASSUME strict \in BOOLEAN, NEW cmd \in StoreCommands, NEW s \in {"lock", "read"}
  PROVE  /\ NewJob(cmd, s) \in StoreJobs
         /\ NewJob(cmd, s).cmd = cmd /\ NewJob(cmd, s).step = s /\ NewJob(cmd, s).plan = {}
BY DEF NewJob, StoreJobs, Steps

(* One that knows its checkout. *)
LEMMA JobAt ==
  ASSUME NEW j \in StoreJobs, NEW r \in Roots
  PROVE  LET m == [j EXCEPT !.root = r]
         IN  /\ m \in StoreJobs /\ m.root = r
             /\ m.cmd = j.cmd /\ m.step = j.step /\ m.plan = j.plan
BY DEF StoreJobs

(* What a job is when its process has just started it. *)
JustStarted(j) ==
  /\ j \in StoreJobs /\ Shaped(j) /\ j.plan = {}
  /\ j.step \in {"lock", "read"} /\ (j.step = "read" => j.cmd = "status")

(* Whatever command a process starts, it starts without the lock. *)
LEMMA Started ==
  ASSUME StoreTypeOK, NEW p \in Procs, Start(p)
  PROVE  \E j : JustStarted(j) /\ StartJob(p, j)
<1> DEFINE Goal == \E j : JustStarted(j) /\ StartJob(p, j)
<1> USE DEF JustStarted, Shaped, RepoCommands
<1>1. ASSUME NEW j, StartJob(p, j)
      PROVE  j.cmd \in StoreCommands /\ strict \in BOOLEAN
  BY <1>1 DEF StartJob, StoreTypeOK
<1>2. ASSUME NEW r \in Roots, NEW cmd \in StoreCommands, StartItem(p, r, cmd)
      PROVE  Goal
  <2> DEFINE j == [NewJob(cmd, "lock") EXCEPT !.root = r]
  <2>1. StartJob(p, j) /\ cmd \in {"add", "refresh"}
    BY <1>2 DEF StartItem
  <2>2. /\ NewJob(cmd, "lock") \in StoreJobs /\ NewJob(cmd, "lock").cmd = cmd
        /\ NewJob(cmd, "lock").step = "lock" /\ NewJob(cmd, "lock").plan = {}
    BY <1>1, <2>1, JobMade
  <2>3. j \in StoreJobs /\ j.root = r /\ j.cmd = cmd /\ j.step = "lock" /\ j.plan = {}
    BY <2>2, JobAt
  <2> HIDE DEF j
  <2> QED BY <2>1, <2>3
<1>3. ASSUME NEW r \in Roots, NEW i \in Ids, StartRepair(p, r, i)
      PROVE  Goal
  <2> DEFINE n == NewJob("repair", "lock")
             j == [n EXCEPT !.root = r, !.id = i]
  <2>1. StartJob(p, j) /\ j.cmd \in StoreCommands
    BY <1>1, <1>3 DEF StartRepair
  <2>2. "repair" \in StoreCommands
    BY <2>1 DEF NewJob
  <2>3. n \in StoreJobs /\ n.cmd = "repair" /\ n.step = "lock" /\ n.plan = {}
    BY <1>1, <2>1, <2>2, JobMade
  <2> HIDE DEF n
  <2>4. /\ j \in StoreJobs /\ j.root = r /\ j.id = i /\ j.cmd = "repair" /\ j.step = "lock"
        /\ j.plan = {}
    BY <2>3 DEF StoreJobs
  <2> HIDE DEF j
  <2> QED BY <2>1, <2>4
<1>4. ASSUME NEW r \in Roots, NEW i \in Ids, StartReclaim(p, r, i)
      PROVE  Goal
  <2> DEFINE n == NewJob("reclaim", "lock")
             j == [n EXCEPT !.root = r, !.common = CommonDir(r), !.clone = git[r], !.id = i]
  <2>1. StartJob(p, j) /\ j.cmd \in StoreCommands /\ CommonDir(r) \in Roots /\ git[r] \in Clones
    BY <1>1, <1>4 DEF StartReclaim, CommonDir, Working, StoreTypeOK
  <2>2. "reclaim" \in StoreCommands
    BY <2>1 DEF NewJob
  <2>3. n \in StoreJobs /\ n.cmd = "reclaim" /\ n.step = "lock" /\ n.plan = {}
    BY <1>1, <2>1, <2>2, JobMade
  <2> HIDE DEF n
  <2>4. /\ j \in StoreJobs /\ j.root = r /\ j.common = CommonDir(r) /\ j.clone = git[r]
        /\ j.id = i /\ j.cmd = "reclaim" /\ j.step = "lock" /\ j.plan = {}
    BY <2>1, <2>3 DEF StoreJobs
  <2> HIDE DEF j
  <2> QED BY <2>1, <2>4
<1>5. ASSUME NEW r \in Roots, StartStatus(p, r)
      PROVE  Goal
  <2> DEFINE s == IF lockFile THEN "lock" ELSE "read"
             j == [NewJob("status", s) EXCEPT !.root = r]
  <2>1. StartJob(p, j) /\ j.cmd \in StoreCommands
    BY <1>1, <1>5 DEF StartStatus
  <2>2. "status" \in StoreCommands
    BY <2>1 DEF NewJob
  <2>3. /\ NewJob("status", s) \in StoreJobs /\ NewJob("status", s).cmd = "status"
        /\ NewJob("status", s).step = s /\ NewJob("status", s).plan = {}
    BY <1>1, <2>1, <2>2, JobMade
  <2>4. j \in StoreJobs /\ j.root = r /\ j.cmd = "status" /\ j.step = s /\ j.plan = {}
    BY <2>3, JobAt
  <2> HIDE DEF j
  <2> QED BY <2>1, <2>4
<1>6. ASSUME NEW cmd, StartJob(p, NewJob(cmd, "lock")), cmd \in {"gc", "rebuild", "migrate"}
      PROVE  Goal
  <2>1. NewJob(cmd, "lock").cmd \in StoreCommands
    BY <1>1, <1>6
  <2>2. cmd \in StoreCommands
    BY <2>1 DEF NewJob
  <2>3. /\ NewJob(cmd, "lock") \in StoreJobs /\ NewJob(cmd, "lock").cmd = cmd
        /\ NewJob(cmd, "lock").step = "lock" /\ NewJob(cmd, "lock").plan = {}
    BY <1>1, <1>6, <2>2, JobMade
  <2> QED BY <1>6, <2>3
<1>7. ASSUME StoreCommand(p) PROVE Goal
  BY <1>6, <1>7 DEF StoreCommand, StartGc, StartStore
<1> QED BY <1>2, <1>3, <1>4, <1>5, <1>7 DEF Start, RepoCommand

JobsTyped == job \in [Procs -> StoreJobs \cup {Nothing}]

(* The job of a process goes on with another step, and nothing else of it changes. *)
LEMMA WentTo ==
  ASSUME JobsTyped, NEW p \in Procs, NEW s \in Steps, job[p] # Nothing, GoTo(p, s)
  PROVE  /\ JobsTyped'
         /\ \A q \in Procs \ {p} : job'[q] = job[q]
         /\ job'[p] # Nothing /\ job'[p] \in StoreJobs
         /\ job'[p].step = s /\ job'[p].cmd = job[p].cmd /\ job'[p].strict = job[p].strict
         /\ job'[p].root = job[p].root /\ job'[p].common = job[p].common
         /\ job'[p].clone = job[p].clone /\ job'[p].id = job[p].id /\ job'[p].plan = job[p].plan
<1>1. job[p] \in StoreJobs /\ job' = [job EXCEPT ![p] = [job[p] EXCEPT !.step = s]]
  BY DEF JobsTyped, GoTo
<1>2. job'[p] = [job[p] EXCEPT !.step = s] /\ \A q \in Procs \ {p} : job'[q] = job[q]
  BY <1>1 DEF JobsTyped
<1> QED BY <1>1, <1>2, JobMoved DEF JobsTyped

(* A process that ends. *)
LEMMA Left ==
  ASSUME JobsTyped, NEW p \in Procs, Leave(p)
  PROVE  /\ JobsTyped'
         /\ \A q \in Procs \ {p} : job'[q] = job[q]
         /\ job'[p] = Nothing
BY DEF Leave, JobsTyped

(* Which step may follow which while a command has the lock. *)
Follows(cmd, from, to) ==
  \/ from = "gate" /\ to = IF cmd \in RepoCommands THEN "resolve" ELSE "run"
  \/ from = "resolve" /\ cmd \in RepoCommands /\ to = AfterResolve[cmd]
  \/ from = "begin" /\ cmd = "add" /\ to = "place"
  \/ from = "begin" /\ cmd = "refresh" /\ to = "drop"
  \/ from = "place" /\ to = "save"
  \/ from = "save" /\ to = "final"
  \/ from = "final" /\ to = "drop"
  \/ from = "run" /\ cmd = "gc" /\ to = "collect"
  \/ from = "collect" /\ to = "delete"
  \/ from = "delete" /\ to \in {"collect", "delete"}

(* What a step of a process does with its own job and with the lock. *)
Enters(p) ==
  /\ job[p].step = "lock" /\ job[p].cmd # "status" /\ job'[p].step = "gate"
  /\ lock = Nothing /\ readers = {} /\ lock' = p /\ readers' = {}
  /\ job'[p].id = job[p].id /\ job'[p].clone = job[p].clone /\ job'[p].plan = job[p].plan

EntersShared(p) ==
  /\ job[p].step = "lock" /\ job[p].cmd = "status" /\ job'[p].step = "read"
  /\ lock = Nothing /\ lock' = Nothing /\ readers' = readers \cup {p}
  /\ job'[p].id = job[p].id /\ job'[p].clone = job[p].clone /\ job'[p].plan = job[p].plan

Reads(p) ==
  /\ job[p].step = "read" /\ job'[p].step = "report"
  /\ UNCHANGED <<lock, readers>>
  /\ job'[p].id \in Ids /\ job'[p].clone = job[p].clone /\ job'[p].plan = job[p].plan

Proceeds(p) ==
  /\ Follows(job[p].cmd, job[p].step, job'[p].step)
  /\ UNCHANGED <<lock, readers>>
  /\ IF job[p].step = "resolve" THEN job'[p].id \in Ids
     ELSE job'[p].id = job[p].id /\ job'[p].clone = job[p].clone
  /\ job[p].step \notin {"run", "delete"} => job'[p].plan = job[p].plan

Ends(p) ==
  /\ job'[p] = Nothing
  /\ lock' = IF lock = p THEN Nothing ELSE lock
  /\ readers' = readers \ {p}

(* The other processes' jobs are left alone; the own one stands, ends, starts or goes on. *)
Flow(p) ==
  /\ \A q \in Procs \ {p} : job'[q] = job[q]
  /\ \/ UNCHANGED <<job, lock, readers>>
     \/ Ends(p)
     \/ job[p] = Nothing /\ job'[p] # Nothing /\ JustStarted(job'[p]) /\ UNCHANGED <<lock, readers>>
     \/ /\ job[p] # Nothing /\ job'[p] # Nothing /\ job'[p] \in StoreJobs
        /\ job'[p].cmd = job[p].cmd /\ job'[p].strict = job[p].strict
        /\ job'[p].root = job[p].root /\ job'[p].common = job[p].common
        /\ Enters(p) \/ EntersShared(p) \/ Reads(p) \/ Proceeds(p)

(* A command that goes on with the lock it has. *)
LEMMA WentOn ==
  ASSUME JobsTyped, NEW p \in Procs, NEW s \in Steps, job[p] # Nothing, GoTo(p, s),
         job[p].step # "resolve", Follows(job[p].cmd, job[p].step, s), UNCHANGED locking
  PROVE  JobsTyped' /\ Flow(p)
BY WentTo DEF Flow, Proceeds, Follows, locking

(* A command that ends. *)
LEMMA Ended ==
  ASSUME JobsTyped, NEW p \in Procs, Leave(p)
  PROVE  JobsTyped' /\ Flow(p)
BY Left DEF Flow, Ends, Leave

(* Nothing of jobs and locks changes. *)
LEMMA Stood ==
  ASSUME JobsTyped, UNCHANGED <<job, locking>>
  PROVE  JobsTyped' /\ \A p \in Procs : Flow(p)
BY DEF Flow, JobsTyped, locking

(* Every step of a process is one of these (Start, Run, Abandon). *)
LEMMA ProcessFlow ==
  ASSUME StoreTypeOK, JobsShaped, NEW p \in Procs, Start(p) \/ Run(p) \/ Abandon(p)
  PROVE  JobsTyped' /\ Flow(p)
<1>0. JobsTyped /\ git \in [Roots -> Clones \cup {Nothing}]
  BY DEF StoreTypeOK, JobsTyped
<1> USE DEF AtStep
<1>1. ASSUME Start(p) PROVE JobsTyped' /\ Flow(p)
  <2>1. PICK j : JustStarted(j) /\ StartJob(p, j)
    BY <1>1, Started
  <2>2. /\ job[p] = Nothing /\ job' = [job EXCEPT ![p] = j] /\ UNCHANGED locking
        /\ j \in StoreJobs /\ j # Nothing
    BY <2>1, NothingElse DEF StartJob, JustStarted
  <2> QED BY <2>1, <2>2, <1>0 DEF Flow, JobsTyped, locking
<1>2. ASSUME Acquire(p) PROVE JobsTyped' /\ Flow(p)
  <2>1. CASE GoTo(p, "gate") /\ lock' = p
    BY <2>1, <1>2, <1>0, WentTo DEF Acquire, LockFree, Flow, Enters, Steps
  <2>2. CASE lock' = Nothing /\ job' = [job EXCEPT ![p] = Nothing]
    BY <2>2, <1>2, <1>0 DEF Acquire, LockFree, Flow, Ends, JobsTyped
  <2> QED BY <1>2, <2>1, <2>2 DEF Acquire
<1>3. ASSUME AcquireShared(p) PROVE JobsTyped' /\ Flow(p)
  BY <1>3, <1>0, WentTo DEF AcquireShared, LockFree, Flow, EntersShared, Steps
<1>4. ASSUME Gate(p) PROVE JobsTyped' /\ Flow(p)
  <2>1. ASSUME NEW rec \in records, CleanRecord(p, rec) \/ RecoverRecord(p, rec)
        PROVE  UNCHANGED <<job, locking>>
    BY <2>1 DEF CleanRecord, RecoverRecord
  <2>2. ASSUME NEW rec \in records, Blocked(p, rec)
        PROVE  Leave(p)
    BY <2>2 DEF Blocked
  <2>3. ASSUME Passed(p) PROVE JobsTyped' /\ Flow(p)
    BY <2>3, <1>0, WentOn DEF Passed, Follows, Steps, ForRepo
  <2> QED BY <1>4, <1>0, <2>1, <2>2, <2>3, Stood, Ended DEF Gate
<1>5. ASSUME NEW i \in Ids, Resolve(p, i) PROVE JobsTyped' /\ Flow(p)
  <2> DEFINE s == AfterResolve[job[p].cmd]
             k == git[job[p].root]
  <2>1. /\ job[p] # Nothing /\ job[p].step = "resolve" /\ job[p] \in StoreJobs
        /\ job[p].cmd \in RepoCommands /\ s \in Steps /\ k \in Clones \cup {Nothing}
    BY <1>5, <1>0 DEF Resolve, JobsTyped, JobsShaped, Shaped, RepoCommands, AfterResolve, Steps
  <2>2. CASE job' = [job EXCEPT ![p].id = i, ![p].clone = k, ![p].step = s] /\ UNCHANGED locking
    <3>1. job' = [job EXCEPT ![p] = [job[p] EXCEPT !.id = i, !.clone = k, !.step = s]]
      BY <2>2, <1>0 DEF JobsTyped
    <3> HIDE DEF s, k
    <3>2. /\ job'[p] = [job[p] EXCEPT !.id = i, !.clone = k, !.step = s]
          /\ \A q \in Procs \ {p} : job'[q] = job[q]
      BY <3>1, <1>0 DEF JobsTyped
    <3>3. /\ job'[p] \in StoreJobs /\ job'[p].id = i /\ job'[p].step = s
          /\ job'[p].cmd = job[p].cmd /\ job'[p].strict = job[p].strict
          /\ job'[p].root = job[p].root /\ job'[p].common = job[p].common
          /\ job'[p].plan = job[p].plan
      BY <2>1, <3>2 DEF StoreJobs
    <3>4. Proceeds(p)
      BY <2>1, <2>2, <3>3 DEF Proceeds, Follows, locking, s
    <3> QED BY <2>1, <3>1, <3>2, <3>3, <3>4, <1>0, NothingElse DEF Flow, JobsTyped
  <2>3. CASE Leave(p)
    BY <2>3, <1>0, Ended
  <2> QED BY <1>5, <2>2, <2>3 DEF Resolve
<1>6. ASSUME ItemCommand(p) PROVE JobsTyped' /\ Flow(p)
  <2>1. ASSUME NEW x \in Items, BeginAdd(p, x) PROVE JobsTyped' /\ Flow(p)
    BY <2>1, <1>0, WentOn DEF BeginAdd, Follows, Steps
  <2>2. ASSUME NEW x \in Items, RefuseAdd(p, x) PROVE JobsTyped' /\ Flow(p)
    BY <2>2, <1>0, Ended DEF RefuseAdd
  <2>3. ASSUME NEW side, BeginRefresh(p, side) PROVE JobsTyped' /\ Flow(p)
    BY <2>3, <1>0, WentOn DEF BeginRefresh, Follows, Steps
  <2>4. ASSUME NEW rec, Place(p, rec) PROVE JobsTyped' /\ Flow(p)
    BY <2>4, <1>0, WentOn DEF Place, Follows, Steps
  <2>5. ASSUME NEW rec, SaveAdded(p, rec) PROVE JobsTyped' /\ Flow(p)
    BY <2>5, <1>0, WentOn DEF SaveAdded, Follows, Steps
  <2>6. ASSUME NEW rec, Finalize(p, rec) PROVE JobsTyped' /\ Flow(p)
    BY <2>6, <1>0, WentOn DEF Finalize, Follows, Steps
  <2>7. ASSUME NEW rec, DropRecord(p, rec) PROVE JobsTyped' /\ Flow(p)
    BY <2>7, <1>0, Ended DEF DropRecord
  <2> QED BY <1>6, <2>1, <2>2, <2>3, <2>4, <2>5, <2>6, <2>7 DEF ItemCommand
<1>7. ASSUME RepairIndex(p) \/ Report(p) \/ RebuildIndex(p) \/ Reclaim(p) PROVE JobsTyped' /\ Flow(p)
  <2>1. Leave(p)
    BY <1>7 DEF RepairIndex, Report, RebuildIndex, Reclaim
  <2> QED BY <2>1, <1>0, Ended
<1>8. ASSUME ReadIndex(p) PROVE JobsTyped' /\ Flow(p)
  <2>1. job[p] # Nothing /\ job[p].step = "read" /\ job[p] \in StoreJobs
    BY <1>8, <1>0 DEF ReadIndex, JobsTyped
  <2>2. ASSUME NEW i \in Ids, job' = [job EXCEPT ![p].id = i, ![p].step = "report"], UNCHANGED locking
        PROVE  JobsTyped' /\ Flow(p)
    <3>1. job' = [job EXCEPT ![p] = [job[p] EXCEPT !.id = i, !.step = "report"]]
      BY <2>2, <1>0 DEF JobsTyped
    <3>2. /\ job'[p] = [job[p] EXCEPT !.id = i, !.step = "report"]
          /\ \A q \in Procs \ {p} : job'[q] = job[q]
      BY <3>1, <1>0 DEF JobsTyped
    <3>3. /\ job'[p] \in StoreJobs /\ job'[p].id = i /\ job'[p].step = "report"
          /\ job'[p].cmd = job[p].cmd /\ job'[p].strict = job[p].strict
          /\ job'[p].root = job[p].root /\ job'[p].common = job[p].common
          /\ job'[p].clone = job[p].clone /\ job'[p].plan = job[p].plan
      BY <2>1, <3>2 DEF StoreJobs, Steps
    <3> QED BY <2>1, <2>2, <3>1, <3>2, <3>3, <1>0, NothingElse DEF Flow, Reads, JobsTyped, locking
  <2>3. CASE Leave(p)
    BY <2>3, <1>0, Ended
  <2> QED BY <1>8, <2>2, <2>3 DEF ReadIndex, Associated, Indexed
<1>9. ASSUME GcCommand(p) PROVE JobsTyped' /\ Flow(p)
  <2>1. ASSUME PlanGc(p) PROVE JobsTyped' /\ Flow(p)
    <3>1. job[p] # Nothing /\ job[p].step = "run" /\ job[p].cmd = "gc" /\ job[p] \in StoreJobs
      BY <2>1, <1>0 DEF PlanGc, JobsTyped
    <3>2. GcPlan \in SUBSET (Ids \X Items)
      BY DEF GcPlan, Collectible, Held
    <3>3. CASE job' = [job EXCEPT ![p].step = "collect", ![p].plan = GcPlan] /\ UNCHANGED locking
      <4>1. job' = [job EXCEPT ![p] = [job[p] EXCEPT !.step = "collect", !.plan = GcPlan]]
        BY <3>3, <1>0 DEF JobsTyped
      <4>2. /\ job'[p] = [job[p] EXCEPT !.step = "collect", !.plan = GcPlan]
            /\ \A q \in Procs \ {p} : job'[q] = job[q]
        BY <4>1, <1>0 DEF JobsTyped
      <4>3. /\ job'[p] \in StoreJobs /\ job'[p].id = job[p].id /\ job'[p].step = "collect"
            /\ job'[p].cmd = job[p].cmd /\ job'[p].strict = job[p].strict
            /\ job'[p].root = job[p].root /\ job'[p].common = job[p].common
            /\ job'[p].clone = job[p].clone
        BY <3>1, <3>2, <4>2 DEF StoreJobs, Steps
      <4>4. Proceeds(p)
        BY <3>1, <3>3, <4>3 DEF Proceeds, Follows, locking
      <4> QED BY <3>1, <4>1, <4>2, <4>3, <4>4, <1>0, NothingElse DEF Flow, JobsTyped
    <3> QED BY <2>1, <3>3, <1>0, Ended DEF PlanGc
  <2>2. ASSUME NEW i \in Ids, Collect(p, i) PROVE JobsTyped' /\ Flow(p)
    BY <2>2, <1>0, Ended, WentOn DEF Collect, Follows, Steps
  <2>3. ASSUME NEW i \in Ids, NEW x \in Items, DeleteFile(p, i, x) PROVE JobsTyped' /\ Flow(p)
    <3> DEFINE rest == job[p].plan \ {<<i, x>>}
               s == IF \E y \in Items : <<i, y>> \in rest THEN "delete" ELSE "collect"
    <3>1. job[p] # Nothing /\ job[p].step = "delete" /\ job[p] \in StoreJobs
      BY <2>3, <1>0 DEF DeleteFile, JobsTyped
    <3>2. rest \in SUBSET (Ids \X Items) /\ s \in Steps /\ s \in {"collect", "delete"}
      BY <3>1 DEF StoreJobs, Steps
    <3>3. CASE job' = [job EXCEPT ![p].plan = rest, ![p].step = s] /\ UNCHANGED locking
      <4>1. job' = [job EXCEPT ![p] = [job[p] EXCEPT !.plan = rest, !.step = s]]
        BY <3>3, <1>0 DEF JobsTyped
      <4> HIDE DEF rest, s
      <4>2. /\ job'[p] = [job[p] EXCEPT !.plan = rest, !.step = s]
            /\ \A q \in Procs \ {p} : job'[q] = job[q]
        BY <4>1, <1>0 DEF JobsTyped
      <4>3. /\ job'[p] \in StoreJobs /\ job'[p].id = job[p].id /\ job'[p].step = s
            /\ job'[p].cmd = job[p].cmd /\ job'[p].strict = job[p].strict
            /\ job'[p].root = job[p].root /\ job'[p].common = job[p].common
            /\ job'[p].clone = job[p].clone
        BY <3>1, <3>2, <4>2 DEF StoreJobs
      <4>4. Proceeds(p)
        BY <3>1, <3>2, <3>3, <4>3 DEF Proceeds, Follows, locking
      <4> QED BY <3>1, <4>1, <4>2, <4>3, <4>4, <1>0, NothingElse DEF Flow, JobsTyped
    <3> QED BY <2>3, <3>3, <1>0, Ended DEF DeleteFile
  <2> QED BY <1>9, <2>1, <2>2, <2>3 DEF GcCommand
<1>10. ASSUME Migrate(p) PROVE JobsTyped' /\ Flow(p)
  BY <1>10, <1>0, Ended, Stood DEF Migrate
<1>11. ASSUME Abandon(p) PROVE JobsTyped' /\ Flow(p)
  BY <1>11, <1>0, Ended DEF Abandon
<1> QED BY <1>1, <1>2, <1>3, <1>4, <1>5, <1>6, <1>7, <1>8, <1>9, <1>10, <1>11 DEF Run

(* So a job goes on knowing at each step what it has to know. *)
LEMMA FlowShapes ==
  ASSUME JobsTyped, JobsShaped, NEW p \in Procs, Flow(p)
  PROVE  JobsShaped'
<1>1. CASE UNCHANGED job
  BY <1>1 DEF JobsShaped
<1>2. CASE job'[p] = Nothing \/ JustStarted(job'[p])
  BY <1>2 DEF JobsShaped, Flow, JustStarted
<1>3. CASE /\ job[p] # Nothing /\ job'[p] # Nothing
           /\ job'[p].cmd = job[p].cmd
           /\ job'[p].root = job[p].root /\ job'[p].common = job[p].common
           /\ Enters(p) \/ EntersShared(p) \/ Reads(p) \/ Proceeds(p)
  <2>1. Shaped(job[p])
    BY <1>3 DEF JobsShaped
  <2>2. ASSUME Enters(p) \/ EntersShared(p) PROVE Shaped(job'[p])
    BY <2>1, <2>2, <1>3 DEF Shaped, Enters, EntersShared
  <2>3. ASSUME Reads(p) PROVE Shaped(job'[p])
    BY <2>1, <2>3, <1>3 DEF Shaped, Reads
  <2>4. ASSUME Proceeds(p) PROVE Shaped(job'[p])
    BY <2>1, <2>4, <1>3 DEF Shaped, Proceeds, Follows, AfterResolve, RepoCommands
  <2>5. Shaped(job'[p])
    BY <1>3, <2>2, <2>3, <2>4
  <2> QED BY <2>5 DEF JobsShaped, Flow
<1> QED BY <1>1, <1>2, <1>3 DEF Flow, Ends

(* So whoever is past the wait for the lock has it, alone (acquire_store_lock). *)
LEMMA FlowLock ==
  ASSUME StoreTypeOK, JobsTyped, JobsShaped, LockHeld, NEW p \in Procs, Flow(p)
  PROVE  LockHeld'
<1>0. /\ lock \in Procs \cup {Nothing} /\ readers \subseteq Procs /\ p # Nothing
      /\ Nothing \notin Procs
  BY NothingDistinct DEF StoreTypeOK
<1> USE DEF LockHeld, Locked, PastTheGate
<1>1. CASE UNCHANGED <<job, lock, readers>>
  BY <1>1
<1>2. CASE Ends(p)
  BY <1>0, <1>2 DEF Flow, Ends
<1>3. CASE job[p] = Nothing /\ job'[p] # Nothing /\ JustStarted(job'[p]) /\ UNCHANGED <<lock, readers>>
  BY <1>0, <1>3 DEF Flow, JustStarted
<1>4. CASE job[p] # Nothing /\ job'[p] # Nothing /\ Enters(p)
  BY <1>0, <1>4 DEF Flow, Enters
<1>5. CASE job[p] # Nothing /\ job'[p] # Nothing /\ EntersShared(p)
  BY <1>0, <1>5 DEF Flow, EntersShared
<1>6. CASE job[p] # Nothing /\ job'[p] # Nothing /\ Reads(p)
  BY <1>0, <1>6 DEF Flow, Reads
<1>7. CASE job[p] # Nothing /\ job'[p] # Nothing /\ Proceeds(p)
  BY <1>0, <1>7 DEF Flow, Proceeds, Follows, AfterResolve, RepoCommands
<1> QED BY <1>1, <1>2, <1>3, <1>4, <1>5, <1>6, <1>7 DEF Flow

(***************************************************************************)
(* Manifests: what each way of writing one does to the states of the items *)
(***************************************************************************)

ManifestsTyped == manifest \in [Ids -> Manifests \cup {Nothing}]

(* A manifest has a format and a state for every item. *)
LEMMA ManifestFields ==
  ASSUME NEW m \in Manifests
  PROVE  /\ m # Nothing
         /\ m.format \in {"v3", "bad", "none", "v2"}
         /\ m.items \in [Items -> LegacyStates \cup {"absent"}]
         /\ m.format # "v2" => m.items \in [Items -> OwnershipStates \cup {"absent"}]
BY NothingElse DEF Manifests, LegacyStates, OwnershipStates

(* One of version 3 can be written with any items. *)
LEMMA ManifestMade ==
  ASSUME NEW items \in [Items -> OwnershipStates \cup {"absent"}], NEW format \in {"v3", "none"}
  PROVE  LET m == [format |-> format, items |-> items]
         IN  m \in Manifests /\ m # Nothing /\ m.format = format /\ m.items = items
BY NothingElse DEF Manifests

(* One that is not of version 2 can get other items, or lose its format. *)
LEMMA ManifestChanged ==
  ASSUME NEW m \in Manifests, m.format # "v2",
         NEW items \in [Items -> OwnershipStates \cup {"absent"}], NEW format \in {"v3", "bad"}
  PROVE  /\ LET n == [m EXCEPT !.items = items]
            IN  n \in Manifests /\ n # Nothing /\ n.format = m.format /\ n.items = items
         /\ LET n == [m EXCEPT !.format = format]
            IN  n \in Manifests /\ n # Nothing /\ n.format = format /\ n.items = m.items
<1>1. m \in [format : {"v3", "bad", "none"}, items : [Items -> OwnershipStates \cup {"absent"}]]
  BY DEF Manifests
<1>2. \A n : n \in [format : {"v3", "bad", "none"}, items : [Items -> OwnershipStates \cup {"absent"}]]
             => n \in Manifests /\ n # Nothing
  BY NothingElse DEF Manifests
<1> QED BY <1>1, <1>2

(* So there is a format and there are states even where there is no manifest. *)
LEMMA ItemsTyped ==
  ASSUME ManifestsTyped, NEW i \in Ids
  PROVE  /\ ItemsOf(i) \in [Items -> LegacyStates \cup {"absent"}]
         /\ Format(i) # "v2" => ItemsOf(i) \in [Items -> OwnershipStates \cup {"absent"}]
         /\ Format(i) \in {"v3", "bad", "none", "v2"}
BY ManifestFields DEF ManifestsTyped, ItemsOf, Format, NoItems, LegacyStates, OwnershipStates

(* Writing one manifest leaves the others alone. *)
LEMMA ManifestWritten ==
  ASSUME ManifestsTyped, NEW i \in Ids, NEW m \in Manifests,
         manifest' = [manifest EXCEPT ![i] = m]
  PROVE  /\ ManifestsTyped' /\ manifest'[i] # Nothing
         /\ \A j \in Ids : manifest[j] # Nothing => manifest'[j] # Nothing
         /\ ItemsOf(i)' = m.items /\ Format(i)' = m.format
         /\ \A j \in Ids \ {i} : ItemsOf(j)' = ItemsOf(j) /\ Format(j)' = Format(j)
<1>1. /\ ManifestsTyped' /\ m # Nothing
      /\ manifest'[i] = m /\ \A j \in Ids \ {i} : manifest'[j] = manifest[j]
  BY NothingElse DEF ManifestsTyped
<1> QED BY <1>1 DEF ItemsOf, Format

(* An item is listed as attached, and nothing else changes. *)
LEMMA ItemListed ==
  ASSUME ManifestsTyped, NEW i \in Ids, NEW x \in Items, Format(i) # "v2",
         manifest' = [manifest EXCEPT ![i] = Listed(i, x)]
  PROVE  /\ ManifestsTyped'
         /\ \A j \in Ids : manifest[j] # Nothing => manifest'[j] # Nothing
         /\ Format(i)' = "v3" /\ \A j \in Ids \ {i} : Format(j)' = Format(j)
         /\ State(i, x)' = "attached"
         /\ \A j \in Ids, y \in Items : <<j, y>> # <<i, x>> => State(j, y)' = State(j, y)
<1> DEFINE items == [ItemsOf(i) EXCEPT ![x] = "attached"]
<1>1. items \in [Items -> OwnershipStates \cup {"absent"}]
  BY ItemsTyped DEF OwnershipStates
<1>2. /\ Listed(i, x) \in Manifests
      /\ Listed(i, x).format = "v3" /\ Listed(i, x).items = items
  BY <1>1, ManifestMade DEF Listed
<1>3. /\ ManifestsTyped' /\ Format(i)' = "v3" /\ ItemsOf(i)' = items
      /\ \A j \in Ids : manifest[j] # Nothing => manifest'[j] # Nothing
      /\ \A j \in Ids \ {i} : ItemsOf(j)' = ItemsOf(j) /\ Format(j)' = Format(j)
  BY <1>2, ManifestWritten
<1>4. State(i, x)' = "attached" /\ \A y \in Items \ {x} : State(i, y)' = State(i, y)
  BY <1>3, ItemsTyped DEF State
<1> QED BY <1>3, <1>4 DEF State

(* The directory of an item is made, and no manifest with it. *)
LEMMA DirectoryMade ==
  ASSUME ManifestsTyped, NEW i \in Ids,
         manifest' = [manifest EXCEPT ![i] =
                        IF @ = Nothing THEN [format |-> "none", items |-> NoItems] ELSE @]
  PROVE  /\ ManifestsTyped'
         /\ \A j \in Ids : manifest[j] # Nothing => manifest'[j] # Nothing
         /\ \A j \in Ids : Format(j)' = Format(j) /\ ItemsOf(j)' = ItemsOf(j)
<1>1. CASE manifest[i] = Nothing
  <2> DEFINE m == [format |-> "none", items |-> NoItems]
  <2>1. m \in Manifests /\ m.format = "none" /\ m.items = NoItems
    BY ManifestMade DEF NoItems
  <2>2. manifest' = [manifest EXCEPT ![i] = m]
    BY <1>1
  <2> HIDE DEF m
  <2>3. /\ ManifestsTyped' /\ Format(i)' = "none" /\ ItemsOf(i)' = NoItems
        /\ \A j \in Ids : manifest[j] # Nothing => manifest'[j] # Nothing
        /\ \A j \in Ids \ {i} : ItemsOf(j)' = ItemsOf(j) /\ Format(j)' = Format(j)
    BY <2>1, <2>2, ManifestWritten
  <2>4. Format(i) = "none" /\ ItemsOf(i) = NoItems
    BY <1>1 DEF Format, ItemsOf
  <2> QED BY <2>3, <2>4
<1>2. CASE manifest[i] # Nothing
  BY <1>2 DEF ManifestsTyped, Format, ItemsOf
<1> QED BY <1>1, <1>2

(* A gc takes items out of a manifest. *)
LEMMA ItemsCollected ==
  ASSUME ManifestsTyped, NEW i \in Ids, NEW gone \in SUBSET Items,
         manifest[i] # Nothing, Format(i) # "v2",
         manifest' = [manifest EXCEPT ![i].items =
                        [x \in Items |-> IF x \in gone THEN "absent" ELSE @[x]]]
  PROVE  /\ ManifestsTyped'
         /\ \A j \in Ids : manifest[j] # Nothing => manifest'[j] # Nothing
         /\ \A j \in Ids : Format(j)' = Format(j)
         /\ \A y \in Items : State(i, y)' = IF y \in gone THEN "absent" ELSE State(i, y)
         /\ \A j \in Ids \ {i}, y \in Items : State(j, y)' = State(j, y)
<1> DEFINE items == [x \in Items |-> IF x \in gone THEN "absent" ELSE manifest[i].items[x]]
           m == [manifest[i] EXCEPT !.items = items]
<1>1. manifest[i] \in Manifests /\ manifest[i].format = Format(i) /\ manifest[i].items = ItemsOf(i)
  BY DEF ManifestsTyped, Format, ItemsOf
<1>2. items \in [Items -> OwnershipStates \cup {"absent"}]
  BY <1>1, ItemsTyped
<1>3. manifest' = [manifest EXCEPT ![i] = m]
  BY DEF ManifestsTyped
<1> HIDE DEF items
<1>4. m \in Manifests /\ m.format = Format(i) /\ m.items = items
  BY <1>1, <1>2, ManifestChanged
<1> HIDE DEF m
<1>5. /\ ManifestsTyped' /\ Format(i)' = Format(i) /\ ItemsOf(i)' = items
      /\ \A j \in Ids : manifest[j] # Nothing => manifest'[j] # Nothing
      /\ \A j \in Ids \ {i} : ItemsOf(j)' = ItemsOf(j) /\ Format(j)' = Format(j)
  BY <1>3, <1>4, ManifestWritten
<1> QED BY <1>1, <1>5 DEF State, items

(* A manifest of version 2 is converted. *)
LEMMA ManifestConverted ==
  ASSUME ManifestsTyped, NEW i \in Ids, Format(i) = "v2",
         manifest' = [manifest EXCEPT ![i] =
                        [format |-> "v3", items |-> [x \in Items |-> Converted(@.items[x])]]]
  PROVE  /\ ManifestsTyped'
         /\ \A j \in Ids : manifest[j] # Nothing => manifest'[j] # Nothing
         /\ Format(i)' = "v3" /\ \A j \in Ids \ {i} : Format(j)' = Format(j)
         /\ \A y \in Items : State(i, y)' = Converted(State(i, y))
         /\ \A j \in Ids \ {i}, y \in Items : State(j, y)' = State(j, y)
<1> DEFINE items == [x \in Items |-> Converted(manifest[i].items[x])]
           m == [format |-> "v3", items |-> items]
<1>1. manifest[i] # Nothing /\ manifest[i].items = ItemsOf(i)
  BY DEF Format, ItemsOf
<1>2. \A state \in LegacyStates \cup {"absent"} : Converted(state) \in OwnershipStates \cup {"absent"}
  BY DEF Converted, LegacyStates, OwnershipStates
<1>3. items \in [Items -> OwnershipStates \cup {"absent"}]
  BY <1>1, <1>2, ItemsTyped
<1>4. manifest' = [manifest EXCEPT ![i] = m]
  BY DEF ManifestsTyped
<1> HIDE DEF items
<1>5. m \in Manifests /\ m.format = "v3" /\ m.items = items
  BY <1>3, ManifestMade
<1> HIDE DEF m
<1>6. /\ ManifestsTyped' /\ Format(i)' = "v3" /\ ItemsOf(i)' = items
      /\ \A j \in Ids : manifest[j] # Nothing => manifest'[j] # Nothing
      /\ \A j \in Ids \ {i} : ItemsOf(j)' = ItemsOf(j) /\ Format(j)' = Format(j)
  BY <1>4, <1>5, ManifestWritten
<1> QED BY <1>1, <1>6 DEF State, items

(* A manifest becomes unreadable, or readable again. *)
LEMMA ManifestCorrupted ==
  ASSUME ManifestsTyped, NEW i \in Ids,
         manifest[i] # Nothing, manifest[i].format \in {"v3", "bad"},
         manifest' = [manifest EXCEPT ![i].format = IF @ = "v3" THEN "bad" ELSE "v3"]
  PROVE  /\ ManifestsTyped'
         /\ \A j \in Ids : manifest[j] # Nothing => manifest'[j] # Nothing
         /\ Format(i)' \in {"v3", "bad"} /\ \A j \in Ids \ {i} : Format(j)' = Format(j)
         /\ \A j \in Ids : ItemsOf(j)' = ItemsOf(j)
<1> DEFINE format == IF manifest[i].format = "v3" THEN "bad" ELSE "v3"
           m == [manifest[i] EXCEPT !.format = format]
<1>1. /\ manifest[i] \in Manifests /\ manifest[i].format # "v2" /\ manifest[i].items = ItemsOf(i)
      /\ manifest[i].items \in [Items -> OwnershipStates \cup {"absent"}]
  BY ManifestFields DEF ManifestsTyped, ItemsOf
<1>2. format \in {"v3", "bad"}
  OBVIOUS
<1>3. manifest' = [manifest EXCEPT ![i] = m]
  BY DEF ManifestsTyped
<1> HIDE DEF format
<1>4. m \in Manifests /\ m.format = format /\ m.items = ItemsOf(i)
  BY <1>1, <1>2, ManifestChanged
<1> HIDE DEF m
<1>5. /\ ManifestsTyped' /\ Format(i)' = format /\ ItemsOf(i)' = ItemsOf(i)
      /\ \A j \in Ids : manifest[j] # Nothing => manifest'[j] # Nothing
      /\ \A j \in Ids \ {i} : ItemsOf(j)' = ItemsOf(j) /\ Format(j)' = Format(j)
  BY <1>3, <1>4, ManifestWritten
<1> QED BY <1>2, <1>5

(***************************************************************************)
(* Records                                                                 *)
(***************************************************************************)

(* What a record says. *)
LEMMA RecordFields ==
  ASSUME NEW rec \in StoreRecords
  PROVE  /\ rec.kind \in {"operation", "artifact", "newer"}
         /\ rec = Newer <=> rec.kind = "newer"
         /\ rec.kind # "newer" => rec.root \in Roots /\ rec.strict \in BOOLEAN
         /\ rec.kind = "operation" => rec.final \in BOOLEAN /\ rec.id \in Ids /\ rec.item \in Items
         /\ rec.kind = "artifact" => rec.side \in {"repo", "store"}
BY DEF StoreRecords, Newer

(* The record an add writes. *)
LEMMA OperationFields ==
  ASSUME NEW p \in Procs, NEW x \in Items, job[p] \in StoreJobs, job[p].root \in Roots, job[p].id \in Ids
  PROVE  LET rec == Operation(p, x)
         IN  /\ rec \in StoreRecords /\ rec # Newer
             /\ rec.kind = "operation" /\ rec.root = job[p].root /\ rec.strict = job[p].strict
             /\ rec.final = FALSE /\ rec.id = job[p].id /\ rec.item = x
<1>1. job[p].strict \in BOOLEAN
  BY DEF StoreJobs
<1> QED BY <1>1 DEF Operation, StoreRecords, Newer

(* The record of a temporary file. *)
LEMMA ArtifactFields ==
  ASSUME NEW p \in Procs, NEW side \in {"repo", "store"}, job[p] \in StoreJobs, job[p].root \in Roots
  PROVE  LET rec == Artifact(p, side)
         IN  /\ rec \in StoreRecords /\ rec # Newer
             /\ rec.kind = "artifact" /\ rec.root = job[p].root /\ rec.strict = job[p].strict
<1>1. job[p].strict \in BOOLEAN
  BY DEF StoreJobs
<1> QED BY <1>1 DEF Artifact, StoreRecords, Newer

(* A record that reaches its last phase. *)
LEMMA FinalFields ==
  ASSUME NEW rec \in StoreRecords, rec.kind = "operation"
  PROVE  LET final == [rec EXCEPT !.final = TRUE]
         IN  /\ final \in StoreRecords /\ final # Newer
             /\ final.kind = "operation" /\ final.root = rec.root /\ final.strict = rec.strict
             /\ final.final = TRUE /\ final.id = rec.id /\ final.item = rec.item
<1>1. rec \in [kind : {"operation"}, root : Roots, strict : BOOLEAN, final : BOOLEAN,
                id : Ids, item : Items]
  BY DEF StoreRecords
<1> QED BY <1>1 DEF StoreRecords, Newer

(* While one process has the lock no other is anywhere it would need it. *)
LEMMA Alone ==
  ASSUME LockHeld, NEW p \in Procs, job[p] # Nothing, job[p].step \in Locked
  PROVE  /\ lock = p
         /\ \A q \in Procs \ {p} : job[q] # Nothing => job[q].step \notin Locked
BY DEF LockHeld

(* The records concern only the process that has the lock. *)
LEMMA HandledByOthers ==
  ASSUME LockHeld, RecordsHandled, NEW p \in Procs, \A q \in Procs \ {p} : job'[q] = job[q],
         records' = records \/ (job[p] # Nothing /\ job[p].step \in Locked),
         Handled(p)'
  PROVE  RecordsHandled'
<1> SUFFICES ASSUME NEW q \in Procs \ {p} PROVE Handled(q)'
  BY DEF RecordsHandled
<1>1. Handled(q) /\ job'[q] = job[q]
  BY DEF RecordsHandled
<1>2. CASE records' = records
  BY <1>1, <1>2 DEF Handled, Own
<1>3. CASE job[p] # Nothing /\ job[p].step \in Locked
  BY <1>1, <1>3, Alone DEF Handled, Locked, PastTheGate
<1> QED BY <1>2, <1>3

(* Behind the gate there are no records but those of the command itself, and none a
   command that requires durability may not touch (recover_before_mutation). *)
LEMMA RecordsStep ==
  ASSUME StoreTypeOK, JobsShaped, LockHeld, RecordsHandled,
         NEW p \in Procs, Start(p) \/ Run(p) \/ Abandon(p)
  PROVE  RecordsHandled'
<1>0. /\ JobsTyped /\ JobsTyped' /\ Flow(p) /\ Handled(p) /\ records \subseteq StoreRecords
      /\ \A q \in Procs \ {p} : job'[q] = job[q]
  BY ProcessFlow DEF StoreTypeOK, JobsTyped, RecordsHandled, Flow
<1> SUFFICES Handled(p)' /\ (records' = records \/ (job[p] # Nothing /\ job[p].step \in Locked))
  BY <1>0, HandledByOthers
<1> USE DEF AtStep, Locked, PastTheGate
<1>1. CASE Start(p)
  <2>1. PICK j : JustStarted(j) /\ StartJob(p, j)
    BY <1>1, Started
  <2>2. job'[p] = j /\ records' = records
    BY <2>1, <1>0 DEF StartJob, JobsTyped, store
  <2> QED BY <2>1, <2>2 DEF Handled, JustStarted
<1>2. CASE Leave(p) /\ records' = records
  BY <1>2, <1>0, Left DEF Handled
<1>3. CASE Acquire(p)
  <2>1. records' = records
    BY <1>3 DEF Acquire, store
  <2>2. CASE RecordsAdmit(p) /\ GoTo(p, "gate")
    BY <2>1, <2>2, <1>3, <1>0, WentTo DEF Acquire, Handled, RecordsAdmit, Steps
  <2>3. CASE job' = [job EXCEPT ![p] = Nothing]
    BY <2>1, <2>3, <1>0 DEF Handled, JobsTyped
  <2> QED BY <1>3, <2>2, <2>3 DEF Acquire
<1>4. CASE AcquireShared(p)
  BY <1>4, <1>0, WentTo DEF AcquireShared, Handled, Steps, store
<1>5. ASSUME NEW rec \in records, CleanRecord(p, rec) \/ RecoverRecord(p, rec)
      PROVE  Handled(p)' /\ job[p] # Nothing /\ job[p].step \in Locked
  <2>1. job' = job /\ records' = records \ {rec} /\ job[p] # Nothing /\ job[p].step = "gate"
    BY <1>5 DEF CleanRecord, RecoverRecord
  <2> QED BY <2>1, <1>0 DEF Handled
<1>6. CASE Passed(p)
  <2>1. job[p] # Nothing /\ job[p].step = "gate" /\ records = {} /\ records' = {}
    BY <1>6 DEF Passed, store
  <2>2. job'[p].step \in {"resolve", "run"}
    BY <1>6, <1>0, <2>1, WentTo DEF Passed, Steps
  <2> QED BY <2>1, <2>2, <1>0 DEF Handled
<1>7. ASSUME NEW i \in Ids, Resolve(p, i)
      PROVE  Handled(p)' /\ records' = records
  <2>1. records' = records /\ records = {} /\ job[p] # Nothing /\ job[p].step = "resolve"
    BY <1>7, <1>0 DEF Resolve, Handled
  <2>2. job'[p] # Nothing => job'[p].step \in {"begin", "run"}
    <3>1. CASE Proceeds(p)
      <4>1. job[p].cmd \in RepoCommands /\ job'[p].step = AfterResolve[job[p].cmd]
        BY <3>1, <2>1 DEF Proceeds, Follows
      <4> QED BY <4>1 DEF AfterResolve, RepoCommands
    <3>2. CASE Enters(p) \/ EntersShared(p) \/ Reads(p)
      BY <3>2, <2>1 DEF Enters, EntersShared, Reads
    <3>3. CASE UNCHANGED <<job, lock, readers>>
      <4>1. CASE Leave(p)
        BY <4>1, <1>0, Left
      <4>2. CASE job' = [job EXCEPT ![p].id = i, ![p].clone = git[job[p].root],
                                    ![p].step = AfterResolve[job[p].cmd]]
        <5>1. job[p].cmd \in RepoCommands /\ job[p] \in StoreJobs
          BY <2>1, <1>0 DEF JobsTyped, JobsShaped, Shaped
        <5>2. AfterResolve[job[p].cmd] \in {"begin", "run"}
          BY <5>1 DEF AfterResolve, RepoCommands
        <5>3. job'[p].step = AfterResolve[job[p].cmd]
          BY <4>2, <5>1, <1>0 DEF JobsTyped, StoreJobs
        <5> QED BY <5>2, <5>3
      <4> QED BY <4>1, <4>2, <1>7 DEF Resolve
    <3> QED BY <3>1, <3>2, <3>3, <2>1, <1>0 DEF Flow, Ends
  <2> QED BY <2>1, <2>2 DEF Handled
<1>8. ASSUME NEW x \in Items, BeginAdd(p, x)
      PROVE  Handled(p)' /\ job[p].step \in Locked
  <2>1. /\ job[p] # Nothing /\ job[p].step = "begin" /\ records = {} /\ job[p] \in StoreJobs
        /\ job[p].root \in Roots /\ job[p].id \in Ids
    BY <1>8, <1>0 DEF BeginAdd, Handled, JobsTyped, JobsShaped, Shaped, RepoCommands
  <2> DEFINE rec == Operation(p, x)
  <2>2. /\ rec # Newer /\ rec.kind = "operation" /\ rec.root = job[p].root
        /\ rec.strict = job[p].strict /\ rec.final = FALSE /\ rec.id = job[p].id
    BY <2>1, OperationFields
  <2>3. records' = {rec} /\ GoTo(p, "place")
    BY <1>8, <2>1 DEF BeginAdd
  <2> HIDE DEF rec
  <2>4. /\ job'[p] # Nothing /\ job'[p].step = "place"
        /\ job'[p].root = job[p].root /\ job'[p].strict = job[p].strict /\ job'[p].id = job[p].id
    BY <2>1, <2>3, <1>0, WentTo DEF Steps
  <2> QED BY <2>1, <2>2, <2>3, <2>4 DEF Handled, Own
<1>9. ASSUME NEW side \in {"repo", "store"}, BeginRefresh(p, side)
      PROVE  Handled(p)' /\ job[p].step \in Locked
  <2>1. /\ job[p] # Nothing /\ job[p].step = "begin" /\ records = {} /\ job[p] \in StoreJobs
        /\ job[p].root \in Roots
    BY <1>9, <1>0 DEF BeginRefresh, Handled, JobsTyped, JobsShaped, Shaped, RepoCommands
  <2> DEFINE rec == Artifact(p, side)
  <2>2. /\ rec # Newer /\ rec.kind = "artifact" /\ rec.root = job[p].root
        /\ rec.strict = job[p].strict
    BY <2>1, ArtifactFields
  <2>3. records' = {rec} /\ GoTo(p, "drop")
    BY <1>9, <2>1 DEF BeginRefresh
  <2> HIDE DEF rec
  <2>4. /\ job'[p] # Nothing /\ job'[p].step = "drop"
        /\ job'[p].root = job[p].root /\ job'[p].strict = job[p].strict
    BY <2>1, <2>3, <1>0, WentTo DEF Steps
  <2> QED BY <2>1, <2>2, <2>3, <2>4 DEF Handled, Own
<1>10. ASSUME NEW rec \in records, Place(p, rec) \/ SaveAdded(p, rec)
       PROVE  Handled(p)' /\ records' = records
  <2>1. /\ job[p] # Nothing /\ job[p].step \in {"place", "save"} /\ records' = records
        /\ GoTo(p, "save") \/ GoTo(p, "final")
    BY <1>10 DEF Place, SaveAdded
  <2>2. /\ job'[p] # Nothing /\ job'[p].step \in {"save", "final"}
        /\ job'[p].root = job[p].root /\ job'[p].strict = job[p].strict /\ job'[p].id = job[p].id
    BY <2>1, <1>0, WentTo DEF Steps
  <2>3. ASSUME NEW r \in records PROVE Own(p, r)'
    BY <2>1, <2>2, <1>0 DEF Handled, Own
  <2> QED BY <2>1, <2>2, <2>3, <1>0 DEF Handled
<1>11. ASSUME NEW rec \in records, Finalize(p, rec)
       PROVE  Handled(p)' /\ job[p].step \in Locked
  <2> DEFINE final == [rec EXCEPT !.final = TRUE]
  <2>1. /\ job[p] # Nothing /\ job[p].step = "final" /\ GoTo(p, "drop")
        /\ records' = (records \ {rec}) \cup {final}
    BY <1>11 DEF Finalize
  <2>2. ASSUME NEW r \in records PROVE Own(p, r) /\ r.kind = "operation" /\ r \in StoreRecords
    BY <2>1, <1>0 DEF Handled
  <2>3. /\ final # Newer /\ final.kind = "operation" /\ final.root = rec.root
        /\ final.strict = rec.strict /\ final.final = TRUE /\ final.id = rec.id
    BY <2>2, FinalFields
  <2> HIDE DEF final
  <2>4. /\ job'[p] # Nothing /\ job'[p].step = "drop"
        /\ job'[p].root = job[p].root /\ job'[p].strict = job[p].strict /\ job'[p].id = job[p].id
    BY <2>1, <1>0, WentTo DEF Steps
  <2>5. records \subseteq {rec}
    BY <2>1, <1>0 DEF Handled
  <2> QED BY <2>1, <2>2, <2>3, <2>4, <2>5, <1>0 DEF Handled, Own
<1>12. ASSUME NEW rec \in records, DropRecord(p, rec)
       PROVE  Handled(p)' /\ job[p] # Nothing /\ job[p].step \in Locked
  BY <1>12, <1>0, Left DEF DropRecord, Handled
<1>13. ASSUME ItemCommand(p)
       PROVE  Handled(p)' /\ (records' = records \/ (job[p] # Nothing /\ job[p].step \in Locked))
  <2>1. ASSUME NEW x \in Items, RefuseAdd(p, x) PROVE Leave(p) /\ records' = records
    BY <2>1 DEF RefuseAdd, store
  <2>2. ASSUME NEW x \in Items, BeginAdd(p, x) PROVE job[p] # Nothing
    BY <2>2 DEF BeginAdd
  <2>3. ASSUME NEW side, BeginRefresh(p, side) PROVE job[p] # Nothing
    BY <2>3 DEF BeginRefresh
  <2>4. ASSUME NEW rec, Finalize(p, rec) PROVE job[p] # Nothing
    BY <2>4 DEF Finalize
  <2> QED BY <1>13, <1>2, <1>8, <1>9, <1>10, <1>11, <1>12, <2>1, <2>2, <2>3, <2>4 DEF ItemCommand
<1>14. CASE RepairIndex(p) \/ Report(p) \/ RebuildIndex(p) \/ Reclaim(p)
  <2>1. Leave(p) /\ records' = records
    BY <1>14 DEF RepairIndex, Report, RebuildIndex, Reclaim, store
  <2> QED BY <2>1, <1>2
<1>15. CASE ReadIndex(p)
  <2>1. records' = records /\ job[p] # Nothing /\ job[p].step = "read"
    BY <1>15 DEF ReadIndex, store
  <2>2. job'[p] # Nothing => job'[p].step \in {"read", "report"}
    BY <2>1, <1>0 DEF Flow, Ends, Enters, EntersShared, Reads, Proceeds, Follows
  <2> QED BY <2>1, <2>2 DEF Handled
<1>16. CASE GcCommand(p)
  <2>1. /\ records' = records /\ job[p] # Nothing /\ job[p].step \in {"run", "collect", "delete"}
        /\ records = {}
    BY <1>16, <1>0 DEF GcCommand, PlanGc, Collect, DeleteFile, store, Handled
  <2>2. job'[p] # Nothing => job'[p].step \in {"run", "collect", "delete"}
    BY <2>1, <1>0 DEF Flow, Ends, Enters, EntersShared, Reads, Proceeds, Follows
  <2> QED BY <2>1, <2>2 DEF Handled
<1>17. CASE Migrate(p)
  <2>1. records' = records /\ (Leave(p) \/ job' = job)
    BY <1>17 DEF Migrate
  <2>2. CASE job' = job
    BY <2>1, <2>2, <1>0 DEF Handled, Own
  <2> QED BY <2>1, <2>2, <1>2
<1>18. CASE Abandon(p)
  BY <1>18, <1>2 DEF Abandon, store
<1>19. CASE Gate(p)
  <2>1. ASSUME NEW rec \in records, Blocked(p, rec) PROVE Leave(p) /\ records' = records
    BY <2>1 DEF Blocked, store
  <2>2. ASSUME Passed(p) PROVE records' = records
    BY <2>2 DEF Passed, store
  <2> QED BY <1>19, <1>2, <1>5, <1>6, <2>1, <2>2 DEF Gate
<1>20. \A i \in Ids : ~ Resolve(p, i) \/ (Handled(p)' /\ records' = records)
  BY <1>7
<1>21. ASSUME Start(p) \/ Acquire(p) \/ AcquireShared(p)
       PROVE  Handled(p)' /\ records' = records
  <2>1. Acquire(p) \/ AcquireShared(p) => records' = records
    BY DEF Acquire, AcquireShared, store
  <2>2. Start(p) => records' = records
    BY Started DEF StartJob, store
  <2> QED BY <1>1, <1>3, <1>4, <1>21, <2>1, <2>2
<1> QED BY <1>13, <1>14, <1>15, <1>16, <1>17, <1>18, <1>19, <1>20, <1>21 DEF Run

(***************************************************************************)
(* Items                                                                   *)
(***************************************************************************)

(* What a step of a process writes, if anything, besides the index. *)
Writes(p) ==
  \/ \E rec \in records : CleanRecord(p, rec) \/ RecoverRecord(p, rec)
  \/ \E x \in Items : BeginAdd(p, x)
  \/ \E side \in {"repo", "store"} : BeginRefresh(p, side)
  \/ \E rec \in records :
       Own(p, rec) /\ (Place(p, rec) \/ SaveAdded(p, rec) \/ Finalize(p, rec) \/ DropRecord(p, rec))
  \/ \E i \in Ids : Collect(p, i) \/ \E x \in Items : DeleteFile(p, i, x)
  \/ Migrate(p)

(* The steps that write nothing of it, with what they do to the job. *)
Idles(p) ==
  /\ UNCHANGED <<manifest, files, records>>
  /\ \/ Start(p) \/ Acquire(p) \/ AcquireShared(p) \/ Passed(p) \/ ReadIndex(p) \/ PlanGc(p)
     \/ \E i \in Ids : Resolve(p, i)
     \/ Leave(p)

(* Every step of a process is one or the other. *)
LEMMA WritesOrIdles ==
  ASSUME NEW p \in Procs, StoreTypeOK, Start(p) \/ Run(p) \/ Abandon(p)
  PROVE  Writes(p) \/ Idles(p)
<1> USE DEF store
<1>1. ASSUME Start(p) PROVE Idles(p)
  BY <1>1, Started DEF Idles, StartJob
<1>2. ASSUME Acquire(p) \/ AcquireShared(p) \/ ReadIndex(p) PROVE Idles(p)
  BY <1>2 DEF Idles, Acquire, AcquireShared, ReadIndex
<1>3. ASSUME Gate(p) PROVE Writes(p) \/ Idles(p)
  <2>1. ASSUME NEW rec, Blocked(p, rec) PROVE Idles(p)
    BY <2>1 DEF Idles, Blocked
  <2>2. ASSUME Passed(p) PROVE Idles(p)
    BY <2>2 DEF Idles, Passed
  <2> QED BY <1>3, <2>1, <2>2 DEF Gate, Writes
<1>4. ASSUME NEW i \in Ids, Resolve(p, i) PROVE Idles(p)
  <2>1. UNCHANGED <<manifest, files, records>>
    BY <1>4 DEF Resolve
  <2> QED BY <1>4, <2>1 DEF Idles
<1>5. ASSUME ItemCommand(p) PROVE Writes(p) \/ Idles(p)
  <2>1. ASSUME NEW x, RefuseAdd(p, x) PROVE Idles(p)
    BY <2>1 DEF Idles, RefuseAdd
  <2> QED BY <1>5, <2>1 DEF ItemCommand, Writes
<1>6. ASSUME RepairIndex(p) \/ Report(p) \/ RebuildIndex(p) \/ Reclaim(p) \/ Abandon(p) PROVE Idles(p)
  BY <1>6 DEF Idles, RepairIndex, Report, RebuildIndex, Reclaim, Abandon
<1>7. ASSUME GcCommand(p) PROVE Writes(p) \/ Idles(p)
  <2>1. ASSUME PlanGc(p) PROVE Idles(p)
    BY <2>1 DEF Idles, PlanGc
  <2> QED BY <1>7, <2>1 DEF GcCommand, Writes
<1>8. ASSUME Migrate(p) PROVE Writes(p)
  BY <1>8 DEF Writes
<1> QED BY <1>1, <1>2, <1>3, <1>4, <1>5, <1>6, <1>7, <1>8 DEF Run

(* A job that is not working on an item, with the plan it had, fits any items. *)
LEMMA NotAtWork ==
  ASSUME NEW p \in Procs, AtWork(p), job[p] # Nothing, UNCHANGED manifest,
         job'[p] = Nothing
         \/ (job'[p].step \notin {"begin", "place", "save", "final"} /\ job'[p].plan = job[p].plan)
  PROVE  AtWork(p)'
BY DEF AtWork, State, ItemsOf

(* With nothing written a process is still right about the items. *)
LEMMA IdlesAtWork ==
  ASSUME StoreTypeOK, JobsShaped, LockHeld, NEW p \in Procs, AtWork(p), Idles(p)
  PROVE  AtWork(p)'
<1>0. JobsTyped /\ UNCHANGED <<manifest, files, records>>
  BY DEF StoreTypeOK, JobsTyped, Idles
<1> USE DEF AtStep
<1>1. CASE Start(p)
  <2>1. PICK j : JustStarted(j) /\ StartJob(p, j)
    BY <1>1, Started
  <2>2. job'[p] = j
    BY <2>1, <1>0 DEF StartJob, JobsTyped
  <2> QED BY <2>1, <2>2 DEF AtWork, JustStarted
<1>2. CASE Leave(p)
  BY <1>2, <1>0, Left DEF AtWork
<1>3. CASE Acquire(p)
  <2>1. CASE GoTo(p, "gate")
    BY <2>1, <1>3, <1>0, WentTo, NotAtWork DEF Acquire, Steps
  <2>2. CASE job' = [job EXCEPT ![p] = Nothing]
    BY <2>2, <1>0 DEF AtWork, JobsTyped
  <2> QED BY <1>3, <2>1, <2>2 DEF Acquire
<1>4. CASE AcquireShared(p)
  BY <1>4, <1>0, WentTo, NotAtWork DEF AcquireShared, Steps
<1>5. CASE Passed(p)
  BY <1>5, <1>0, WentTo, NotAtWork DEF Passed, Steps
<1>6. CASE ReadIndex(p)
  <2>1. job[p] # Nothing /\ job[p].step = "read" /\ Flow(p)
    BY <1>6, ProcessFlow DEF ReadIndex, Run
  <2>2. \/ job'[p] = Nothing
        \/ job'[p].step \in {"read", "report"} /\ job'[p].plan = job[p].plan
    BY <2>1 DEF Flow, Ends, Enters, EntersShared, Reads, Proceeds, Follows
  <2> QED BY <2>1, <2>2, <1>0, NotAtWork
<1>7. CASE PlanGc(p)
  <2>1. /\ job[p] # Nothing /\ job[p] \in StoreJobs
        /\ Leave(p) \/ job' = [job EXCEPT ![p].step = "collect", ![p].plan = GcPlan]
    BY <1>7, <1>0 DEF PlanGc, JobsTyped
  <2>2. CASE job' = [job EXCEPT ![p].step = "collect", ![p].plan = GcPlan]
    <3>1. job'[p].step = "collect" /\ job'[p].plan = GcPlan
      BY <2>1, <2>2, <1>0 DEF JobsTyped, StoreJobs
    <3>2. ASSUME NEW i \in Ids, NEW x \in Items, <<i, x>> \in GcPlan
          PROVE  manifest[i] # Nothing /\ State(i, x) = "orphaned"
      BY <3>2 DEF GcPlan, Collectible, Held, State, ItemsOf, NoItems
    <3> QED BY <3>1, <3>2, <1>0 DEF AtWork, State, ItemsOf
  <2> QED BY <2>1, <2>2, <1>2
<1>8. ASSUME NEW i \in Ids, Resolve(p, i) PROVE AtWork(p)'
  <2>1. /\ job[p] # Nothing /\ job[p] \in StoreJobs /\ job[p].cmd \in RepoCommands /\ job[p].plan = {}
        /\ \/ Leave(p)
           \/ Usable(p, i)
              /\ job' = [job EXCEPT ![p].id = i, ![p].clone = git[job[p].root],
                                    ![p].step = AfterResolve[job[p].cmd]]
    BY <1>8, <1>0 DEF Resolve, JobsTyped, JobsShaped, Shaped
  <2>2. CASE Leave(p)
    BY <2>2, <1>2
  <2>3. CASE /\ Usable(p, i)
             /\ job' = [job EXCEPT ![p].id = i, ![p].clone = git[job[p].root],
                                   ![p].step = AfterResolve[job[p].cmd]]
    <3>1. /\ job'[p].id = i /\ job'[p].plan = {}
          /\ job'[p].step = AfterResolve[job[p].cmd]
      BY <2>1, <2>3, <1>0 DEF JobsTyped, StoreJobs
    <3>2. job'[p].step \in {"begin", "run"}
      BY <2>1, <3>1 DEF AfterResolve, RepoCommands
    <3>3. Format(i)' # "v2"
      BY <2>3, <1>0 DEF Usable, Loadable, Format
    <3> QED BY <3>1, <3>2, <3>3 DEF AtWork
  <2> QED BY <2>1, <2>2, <2>3
<1> QED BY <1>1, <1>2, <1>3, <1>4, <1>5, <1>6, <1>7, <1>8 DEF Idles

(* The items concern only the process that has the lock. *)
LEMMA AtWorkByOthers ==
  ASSUME LockHeld, JobsShaped, ItemsAtWork, NEW p \in Procs, \A q \in Procs \ {p} : job'[q] = job[q],
         UNCHANGED <<manifest, files, records>> \/ (job[p] # Nothing /\ job[p].step \in Locked),
         AtWork(p)'
  PROVE  ItemsAtWork'
<1> SUFFICES ASSUME NEW q \in Procs \ {p} PROVE AtWork(q)'
  BY DEF ItemsAtWork
<1>1. AtWork(q) /\ job'[q] = job[q]
  BY DEF ItemsAtWork
<1>2. CASE UNCHANGED <<manifest, files, records>>
  BY <1>1, <1>2 DEF AtWork, State, ItemsOf, Format
<1>3. CASE job[p] # Nothing /\ job[p].step \in Locked
  <2>1. job[q] # Nothing => job[q].step \notin Locked /\ job[q].plan = {}
    BY <1>3, Alone DEF JobsShaped, Shaped, Locked, PastTheGate
  <2> QED BY <1>1, <2>1 DEF AtWork, Locked, PastTheGate
<1> QED BY <1>2, <1>3

(* What may happen to the states of the items in one step. *)
Kept == \A i \in Ids, x \in Items : Converted(State(i, x))' = Converted(State(i, x))

Shelved(i, x) ==
  /\ State(i, x) \in {"absent", "attached"} /\ State(i, x)' = "attached"
  /\ \A j \in Ids, y \in Items : <<j, y>> # <<i, x>> => State(j, y)' = State(j, y)

Collected(i) ==
  /\ \A x \in Items : State(i, x)' = State(i, x) \/ (State(i, x) = "orphaned" /\ State(i, x)' = "absent")
  /\ \A j \in Ids \ {i}, y \in Items : State(j, y)' = State(j, y)

CatalogMoves == Kept \/ (\E i \in Ids, x \in Items : Shelved(i, x)) \/ \E i \in Ids : Collected(i)

(* Every file that is placed has an unfinished record, every item that goes *)
(* is in the plan of the gc that takes it.                                  *)
Accounted(p) ==
  /\ \A f \in files' \ files :
       \E rec \in records' : rec.kind = "operation" /\ ~rec.final /\ f = <<rec.id, rec.item>>
  /\ \A i \in Ids, x \in Items : State(i, x) # "absent" /\ State(i, x)' = "absent" =>
       job'[p] # Nothing /\ <<i, x>> \in job'[p].plan

(* What a step must see to for the items. *)
ItemsSeenTo(p) ==
  ManifestsTyped' /\ FilesListed' /\ AddsListed' /\ AtWork(p)' /\ CatalogMoves /\ Accounted(p)

(* What a step may count on. *)
Ready(p) ==
  /\ StoreTypeOK /\ JobsShaped /\ LockHeld /\ RecordsHandled
  /\ FilesListed /\ AddsListed /\ ItemsAtWork
  /\ JobsTyped /\ ManifestsTyped /\ records \subseteq StoreRecords
  /\ Handled(p) /\ AtWork(p)
  /\ (job[p] # Nothing => job[p] \in StoreJobs /\ Shaped(job[p]))

(* A step that writes neither manifests nor files. *)
LEMMA ItemsUntouched ==
  ASSUME NEW p \in Procs, Ready(p), UNCHANGED <<manifest, files>>,
         \A rec \in records' : rec.kind = "operation" /\ ~rec.final =>
            rec \in records \/ State(rec.id, rec.item) \in {"absent", "attached"},
         AtWork(p)'
  PROVE  ItemsSeenTo(p)
<1>1. /\ \A i, x : State(i, x)' = State(i, x)
      /\ ManifestsTyped'
  BY DEF State, ItemsOf, ManifestsTyped, Ready
<1>2. FilesListed' /\ AddsListed'
  BY <1>1 DEF FilesListed, AddsListed, Ready
<1>3. CatalogMoves
  BY <1>1 DEF CatalogMoves, Kept
<1>4. Accounted(p)
  BY <1>1 DEF Accounted
<1> QED BY <1>1, <1>2, <1>3, <1>4 DEF ItemsSeenTo

(* Recovery of an add lists the item when its file is there. *)
LEMMA RecoveryItems ==
  ASSUME NEW p \in Procs, Ready(p), NEW rec \in records, RecoverRecord(p, rec)
  PROVE  ItemsSeenTo(p)
<1> USE DEF AtStep, Ready
<1>1. /\ job[p] # Nothing /\ job[p].step = "gate" /\ job' = job /\ records' = records \ {rec}
      /\ files' = files /\ job[p].plan = {}
      /\ rec.kind = "operation" /\ ~rec.final /\ rec.id \in Ids /\ rec.item \in Items
  BY RecordFields DEF RecoverRecord, Interrupted, Shaped
<1>2. AtWork(p)'
  BY <1>1 DEF AtWork
<1>3. CASE manifest' = manifest
  BY <1>1, <1>2, <1>3, ItemsUntouched
<1>4. CASE <<rec.id, rec.item>> \in files /\ manifest' = [manifest EXCEPT ![rec.id] = Listed(rec.id, rec.item)]
  <2>1. Format(rec.id) # "v2"
    BY DEF RecoverRecord, Interrupted, Loadable
  <2>2. /\ ManifestsTyped' /\ State(rec.id, rec.item)' = "attached"
        /\ \A j \in Ids, y \in Items : <<j, y>> # <<rec.id, rec.item>> => State(j, y)' = State(j, y)
    BY <1>1, <1>4, <2>1, ItemListed
  <2>3. FilesListed'
    BY <1>1, <1>4, <2>2 DEF FilesListed
  <2>4. AddsListed'
    <3> SUFFICES ASSUME NEW r \in records', r.kind = "operation", ~r.final
                 PROVE  State(r.id, r.item)' \in {"absent", "attached"}
      BY DEF AddsListed
    <3>1. /\ r \in records /\ r.id \in Ids /\ r.item \in Items
          /\ State(r.id, r.item) \in {"absent", "attached"}
      BY <1>1, RecordFields DEF AddsListed
    <3> QED BY <2>2, <3>1
  <2>5. Shelved(rec.id, rec.item)
    BY <1>1, <2>2 DEF AddsListed, Shelved
  <2>6. Accounted(p)
    BY <1>1, <2>2 DEF Accounted
  <2> QED BY <1>1, <1>2, <2>2, <2>3, <2>4, <2>5, <2>6 DEF ItemsSeenTo, CatalogMoves
<1> QED BY <1>3, <1>4 DEF RecoverRecord

(* Steps that only write or drop a record. *)
LEMMA RecordItems ==
  ASSUME NEW p \in Procs, Ready(p)
  PROVE  /\ \A rec \in records : CleanRecord(p, rec) => ItemsSeenTo(p)
         /\ \A x \in Items : BeginAdd(p, x) => ItemsSeenTo(p)
         /\ \A side \in {"repo", "store"} : BeginRefresh(p, side) => ItemsSeenTo(p)
         /\ \A rec \in records : Finalize(p, rec) \/ DropRecord(p, rec) => ItemsSeenTo(p)
<1> USE DEF AtStep, Ready
<1>1. ASSUME NEW rec \in records, CleanRecord(p, rec) PROVE ItemsSeenTo(p)
  <2>1. /\ job[p] # Nothing /\ job[p].step = "gate" /\ job' = job /\ records' = records \ {rec}
        /\ files' = files /\ manifest' = manifest /\ job[p].plan = {}
    BY <1>1 DEF CleanRecord, Shaped
  <2>2. AtWork(p)'
    BY <2>1 DEF AtWork
  <2> QED BY <2>1, <2>2, ItemsUntouched
<1>2. ASSUME NEW x \in Items, BeginAdd(p, x) PROVE ItemsSeenTo(p)
  <2> DEFINE rec == Operation(p, x)
  <2>1. /\ job[p] # Nothing /\ job[p].step = "begin" /\ records = {} /\ records' = {rec}
        /\ files' = files /\ manifest' = manifest /\ job[p].plan = {}
        /\ job[p].id \in Ids /\ job[p].root \in Roots /\ GoTo(p, "place")
        /\ Format(job[p].id) # "v2"
    BY <1>2 DEF BeginAdd, Shaped, Handled, AtWork, RepoCommands
  <2>2. rec.id = job[p].id /\ rec.item = x
    BY <2>1, OperationFields
  <2>3. State(rec.id, rec.item) = "absent"
    BY <1>2, <2>1, <2>2 DEF BeginAdd, Held, State
  <2> HIDE DEF rec
  <2>4. job'[p].step = "place" /\ job'[p].id = job[p].id /\ job'[p].plan = {}
    BY <2>1, WentTo DEF Steps
  <2>5. AtWork(p)'
    BY <2>1, <2>2, <2>3, <2>4 DEF AtWork, State, ItemsOf, Format
  <2> QED BY <2>1, <2>3, <2>5, ItemsUntouched
<1>3. ASSUME NEW side \in {"repo", "store"}, BeginRefresh(p, side) PROVE ItemsSeenTo(p)
  <2> DEFINE rec == Artifact(p, side)
  <2>1. /\ job[p] # Nothing /\ job[p].step = "begin" /\ records = {} /\ records' = {rec}
        /\ files' = files /\ manifest' = manifest /\ job[p].plan = {}
        /\ job[p].root \in Roots /\ GoTo(p, "drop")
    BY <1>3 DEF BeginRefresh, Shaped, Handled, RepoCommands
  <2>2. rec.kind = "artifact"
    BY <2>1, ArtifactFields
  <2> HIDE DEF rec
  <2>3. job'[p].step = "drop" /\ job'[p].plan = {}
    BY <2>1, WentTo DEF Steps
  <2>4. AtWork(p)'
    BY <2>3 DEF AtWork
  <2> QED BY <2>1, <2>2, <2>4, ItemsUntouched
<1>4. ASSUME NEW rec \in records, Finalize(p, rec) PROVE ItemsSeenTo(p)
  <2> DEFINE final == [rec EXCEPT !.final = TRUE]
  <2>1. /\ job[p] # Nothing /\ job[p].step = "final" /\ records' = (records \ {rec}) \cup {final}
        /\ files' = files /\ manifest' = manifest /\ job[p].plan = {} /\ GoTo(p, "drop")
        /\ rec.kind = "operation" /\ rec \in StoreRecords
    BY <1>4 DEF Finalize, Shaped, Handled
  <2>2. final.final = TRUE
    BY <2>1, FinalFields
  <2> HIDE DEF final
  <2>3. job'[p].step = "drop" /\ job'[p].plan = {}
    BY <2>1, WentTo DEF Steps
  <2>4. AtWork(p)'
    BY <2>3 DEF AtWork
  <2> QED BY <2>1, <2>2, <2>4, ItemsUntouched
<1>5. ASSUME NEW rec \in records, DropRecord(p, rec) PROVE ItemsSeenTo(p)
  <2>1. records' = records \ {rec} /\ files' = files /\ manifest' = manifest /\ job'[p] = Nothing
    BY <1>5, Left DEF DropRecord
  <2>2. AtWork(p)'
    BY <2>1 DEF AtWork
  <2> QED BY <2>1, <2>2, ItemsUntouched
<1> QED BY <1>1, <1>2, <1>3, <1>4, <1>5

(* An add puts its canonical file in place under its record. *)
LEMMA PlaceItems ==
  ASSUME NEW p \in Procs, Ready(p), NEW rec \in records, Own(p, rec), Place(p, rec)
  PROVE  ItemsSeenTo(p)
<1> USE DEF AtStep, Ready
<1>1. /\ job[p] # Nothing /\ job[p].step = "place" /\ records' = records /\ job[p].plan = {}
      /\ files' = files \cup {<<rec.id, rec.item>>} /\ GoTo(p, "save")
      /\ rec.kind = "operation" /\ rec.id = job[p].id /\ rec.id \in Ids /\ rec.item \in Items
      /\ \A other \in records : other = rec
      /\ State(rec.id, rec.item) = "absent" /\ Format(job[p].id) # "v2"
  BY RecordFields DEF Place, Shaped, Handled, AtWork, Own
<1>2. /\ ManifestsTyped'
      /\ \A j \in Ids : Format(j)' = Format(j) /\ ItemsOf(j)' = ItemsOf(j)
  BY <1>1, DirectoryMade DEF Place
<1>3. \A j \in Ids, y \in Items : State(j, y)' = State(j, y)
  BY <1>2 DEF State
<1>4. job'[p].step = "save" /\ job'[p].id = job[p].id /\ job'[p].plan = {}
  BY <1>1, WentTo DEF Steps
<1>5. FilesListed'
  BY <1>1, <1>3 DEF FilesListed
<1>6. AddsListed'
  BY <1>1, <1>3 DEF AddsListed
<1>7. AtWork(p)'
  BY <1>1, <1>2, <1>3, <1>4 DEF AtWork
<1>8. Kept
  BY <1>3 DEF Kept
<1>9. Accounted(p)
  <2>1. \A f \in files' \ files :
          \E other \in records' : other.kind = "operation" /\ ~other.final /\ f = <<other.id, other.item>>
    <3>1. ~rec.final
      BY <1>1 DEF Handled
    <3> QED BY <1>1, <3>1
  <2> QED BY <1>3, <2>1 DEF Accounted
<1> QED BY <1>2, <1>5, <1>6, <1>7, <1>8, <1>9 DEF ItemsSeenTo, CatalogMoves

(* An add lists the item whose file it has placed. *)
LEMMA SaveItems ==
  ASSUME NEW p \in Procs, Ready(p), NEW rec \in records, Own(p, rec), SaveAdded(p, rec)
  PROVE  ItemsSeenTo(p)
<1> USE DEF AtStep, Ready
<1>1. /\ job[p] # Nothing /\ job[p].step = "save" /\ records' = records /\ job[p].plan = {}
      /\ files' = files /\ GoTo(p, "final") /\ <<rec.id, rec.item>> \in files
      /\ rec.kind = "operation" /\ rec.id = job[p].id /\ rec.id \in Ids /\ rec.item \in Items
      /\ \A other \in records : other = rec
      /\ State(rec.id, rec.item) = "absent" /\ Format(rec.id) # "v2"
      /\ manifest' = [manifest EXCEPT ![rec.id] = Listed(rec.id, rec.item)]
  BY RecordFields DEF SaveAdded, Shaped, Handled, AtWork, Own
<1>2. /\ ManifestsTyped' /\ State(rec.id, rec.item)' = "attached"
      /\ \A j \in Ids, y \in Items : <<j, y>> # <<rec.id, rec.item>> => State(j, y)' = State(j, y)
  BY <1>1, ItemListed
<1>3. job'[p].step = "final" /\ job'[p].plan = {}
  BY <1>1, WentTo DEF Steps
<1>4. FilesListed'
  BY <1>1, <1>2 DEF FilesListed
<1>5. AddsListed'
  BY <1>1, <1>2 DEF AddsListed
<1>6. AtWork(p)'
  BY <1>1, <1>2, <1>3 DEF AtWork
<1>7. Shelved(rec.id, rec.item)
  BY <1>1, <1>2 DEF Shelved
<1>8. Accounted(p)
  BY <1>1, <1>2 DEF Accounted
<1> QED BY <1>1, <1>2, <1>4, <1>5, <1>6, <1>7, <1>8 DEF ItemsSeenTo, CatalogMoves

(* A gc takes from a manifest what it planned to. *)
LEMMA CollectItems ==
  ASSUME NEW p \in Procs, Ready(p), NEW i \in Ids, Collect(p, i)
  PROVE  ItemsSeenTo(p)
<1> USE DEF AtStep, Ready
<1> DEFINE planned == {x \in Items : <<i, x>> \in job[p].plan}
<1>1. /\ job[p] # Nothing /\ job[p].step = "collect" /\ records = {} /\ records' = {} /\ files' = files
      /\ planned # {} /\ manifest[i] # Nothing
      /\ \A x \in planned : State(i, x) \in {"absent", "orphaned"}
  BY DEF Collect, Handled, AtWork
<1>2. CASE Leave(p) /\ manifest' = manifest
  <2>1. AtWork(p)'
    BY <1>2, Left DEF AtWork
  <2> QED BY <1>1, <1>2, <2>1, ItemsUntouched
<1>3. CASE /\ i \notin Unreadable /\ GoTo(p, "delete")
           /\ manifest' = [manifest EXCEPT ![i].items =
                             [x \in Items |-> IF x \in planned THEN "absent" ELSE @[x]]]
  <2>1. Format(i) # "v2" /\ planned \in SUBSET Items
    BY <1>1, <1>3 DEF Unreadable
  <2> HIDE DEF planned
  <2>2. /\ ManifestsTyped'
        /\ \A j \in Ids : manifest[j] # Nothing => manifest'[j] # Nothing
        /\ \A y \in Items : State(i, y)' = IF y \in planned THEN "absent" ELSE State(i, y)
        /\ \A j \in Ids \ {i}, y \in Items : State(j, y)' = State(j, y)
    BY <1>1, <1>3, <2>1, ItemsCollected
  <2>3. \A j \in Ids, y \in Items : State(j, y)' = State(j, y) \/ State(j, y)' = "absent"
    BY <2>2
  <2>4. FilesListed' /\ AddsListed'
    BY <1>1, <2>3 DEF FilesListed, AddsListed
  <2>5. job'[p] # Nothing /\ job'[p].step = "delete" /\ job'[p].plan = job[p].plan
    BY <1>1, <1>3, WentTo DEF Steps
  <2>6. AtWork(p)'
    BY <2>2, <2>3, <2>5, <1>1 DEF AtWork
  <2>7. Collected(i)
    BY <1>1, <2>2 DEF Collected
  <2>8. Accounted(p)
    BY <1>1, <2>2, <2>5 DEF Accounted, planned
  <2> QED BY <2>2, <2>4, <2>6, <2>7, <2>8 DEF ItemsSeenTo, CatalogMoves
<1> QED BY <1>2, <1>3 DEF Collect

(* A gc deletes the file of an item that is listed no more. *)
LEMMA DeleteItems ==
  ASSUME NEW p \in Procs, Ready(p), NEW i \in Ids, NEW x \in Items, DeleteFile(p, i, x)
  PROVE  ItemsSeenTo(p)
<1> USE DEF AtStep, Ready
<1>1. /\ job[p] # Nothing /\ job[p].step = "delete" /\ records = {} /\ records' = {}
      /\ files' = files \ {<<i, x>>} /\ manifest' = manifest /\ x \notin Held(i)
  BY DEF DeleteFile, Handled
<1>2. \A j, y : State(j, y)' = State(j, y)
  BY <1>1 DEF State, ItemsOf
<1>3. State(i, x) = "absent"
  BY <1>1 DEF Held, State
<1>4. FilesListed' /\ AddsListed'
  BY <1>1, <1>2, <1>3 DEF FilesListed, AddsListed
<1>5. Kept /\ ManifestsTyped'
  BY <1>1, <1>2 DEF Kept, ManifestsTyped
<1>6. AtWork(p)'
  <2>1. CASE Leave(p)
    BY <2>1, Left DEF AtWork
  <2> DEFINE rest == job[p].plan \ {<<i, x>>}
             s == IF \E y \in Items : <<i, y>> \in rest THEN "delete" ELSE "collect"
  <2>2. CASE job' = [job EXCEPT ![p].plan = rest, ![p].step = s]
    <3>0. rest \subseteq job[p].plan /\ s \in {"delete", "collect"}
      OBVIOUS
    <3> HIDE DEF rest, s
    <3>1. job'[p].plan = rest /\ job'[p].step = s
      BY <2>2, <1>1 DEF JobsTyped, StoreJobs
    <3> QED BY <1>1, <1>2, <3>0, <3>1 DEF AtWork
  <2> QED BY <2>1, <2>2 DEF DeleteFile
<1>7. Accounted(p)
  BY <1>1, <1>2 DEF Accounted
<1> QED BY <1>4, <1>5, <1>6, <1>7 DEF ItemsSeenTo, CatalogMoves

(* Converting a manifest keeps its items. *)
LEMMA MigrateItems ==
  ASSUME NEW p \in Procs, Ready(p), Migrate(p)
  PROVE  ItemsSeenTo(p)
<1> USE DEF AtStep, Ready
<1>1. /\ job[p] # Nothing /\ job[p].step = "run" /\ records = {} /\ records' = {} /\ files' = files
      /\ job[p].plan = {}
  BY DEF Migrate, Handled, Shaped
<1>2. CASE Leave(p) /\ manifest' = manifest
  <2>1. AtWork(p)'
    BY <1>2, Left DEF AtWork
  <2> QED BY <1>1, <1>2, <2>1, ItemsUntouched
<1>3. ASSUME NEW i \in Ids, Format(i) = "v2", job' = job,
             manifest' = [manifest EXCEPT ![i] =
                 [format |-> "v3", items |-> [x \in Items |-> Converted(@.items[x])]]]
      PROVE  ItemsSeenTo(p)
  <2>1. /\ ManifestsTyped'
        /\ \A y \in Items : State(i, y)' = Converted(State(i, y))
        /\ \A j \in Ids \ {i}, y \in Items : State(j, y)' = State(j, y)
    BY <1>3, ManifestConverted
  <2>2. \A s : (Converted(s) = "absent" => s = "absent") /\ Converted(Converted(s)) = Converted(s)
    BY DEF Converted
  <2>3. \A j \in Ids, y \in Items : State(j, y)' # "absent" => State(j, y) # "absent"
    <3>1. \A y \in Items : Converted(State(i, y)) # "absent" => State(i, y) # "absent"
      <4>1. Converted("absent") = "absent"
        BY DEF Converted
      <4> QED BY <4>1
    <3> QED BY <2>1, <3>1
  <2>4. FilesListed' /\ AddsListed'
    BY <1>1, <2>3 DEF FilesListed, AddsListed
  <2>5. AtWork(p)'
    BY <1>1, <1>3 DEF AtWork
  <2>6. Kept
    BY <2>1, <2>2 DEF Kept
  <2>7. \A j \in Ids, y \in Items : State(j, y)' = "absent" => State(j, y) = "absent"
    <3>1. \A s : Converted(s) = "absent" => s = "absent"
      BY DEF Converted
    <3> QED BY <2>1, <3>1
  <2>8. Accounted(p)
    BY <1>1, <2>7 DEF Accounted
  <2> QED BY <2>1, <2>4, <2>5, <2>6, <2>8 DEF ItemsSeenTo, CatalogMoves
<1> QED BY <1>2, <1>3 DEF Migrate, Legacy

(* Whatever a process does, what is listed has its file, and the catalog moves as promised. *)
LEMMA ItemsStep ==
  ASSUME NEW p \in Procs, Ready(p), Start(p) \/ Run(p) \/ Abandon(p)
  PROVE  FilesListed' /\ AddsListed' /\ ItemsAtWork' /\ ManifestsTyped' /\ CatalogMoves /\ Accounted(p)
<1>1. Flow(p) /\ (Writes(p) \/ Idles(p))
  BY ProcessFlow, WritesOrIdles DEF Ready
<1>2. CASE Idles(p)
  <2>1. AtWork(p)' /\ UNCHANGED <<manifest, files, records>>
    BY <1>2, IdlesAtWork DEF Ready, Idles
  <2>2. \A rec \in records' : rec \in records
    BY <2>1
  <2>3. ItemsSeenTo(p)
    BY <2>1, <2>2, ItemsUntouched
  <2> QED BY <1>1, <2>1, <2>3, AtWorkByOthers DEF Ready, ItemsSeenTo, Flow
<1>3. CASE Writes(p)
  <2>1. ItemsSeenTo(p)
    BY <1>3, RecoveryItems, RecordItems, PlaceItems, SaveItems, CollectItems, DeleteItems, MigrateItems
    DEF Writes
  <2>2. job[p] # Nothing /\ job[p].step \in Locked
    BY <1>3 DEF Writes, AtStep, Locked, PastTheGate, CleanRecord, RecoverRecord, BeginAdd, BeginRefresh,
      Place, SaveAdded, Finalize, DropRecord, Collect, DeleteFile, Migrate
  <2> QED BY <1>1, <2>1, <2>2, AtWorkByOthers DEF Ready, ItemsSeenTo, Flow
<1> QED BY <1>1, <1>2, <1>3

(***************************************************************************)
(* The inductive invariant                                                 *)
(***************************************************************************)

(* No two RepoIds have the same path. *)
RootsUnique ==
  \A i, j \in Ids :
    index[i] # Nothing /\ index[j] # Nothing /\ index[i].root = index[j].root
    /\ index[i].root # Nothing => i = j

(* The inductive invariant. *)
BookInv ==
  /\ StoreTypeOK /\ LockHeld /\ JobsShaped /\ RecordsHandled
  /\ FilesListed /\ AddsListed /\ ItemsAtWork
  /\ RootsUnique /\ WorksOnAssociated

(***************************************************************************)
(* The index                                                               *)
(***************************************************************************)

IndexTyped == index \in [Ids -> Entries \cup {Nothing}] /\ claims \subseteq Clones \X Ids

(* What an entry is. *)
LEMMA EntryMade ==
  ASSUME NEW r \in Roots \cup {Nothing}, NEW c \in Roots \cup {Nothing}
  PROVE  LET e == [root |-> r, common |-> c]
         IN  e \in Entries /\ e # Nothing /\ e.root = r
BY NothingElse DEF Entries

(* A RepoId gets a path no other has. *)
LEMMA RootGiven ==
  ASSUME IndexTyped, RootsUnique, NEW r \in Roots, NEW c \in Roots, NEW i \in Ids,
         \A j \in Ids \ {i} : index[j] = Nothing \/ index[j].root # r,
         index' = [index EXCEPT ![i] = [root |-> r, common |-> c]]
  PROVE  /\ index' \in [Ids -> Entries \cup {Nothing}] /\ RootsUnique'
         /\ index'[i] # Nothing /\ \A j \in Indexed("root", r)' : j = i
<1> DEFINE e == [root |-> r, common |-> c]
<1>1. e \in Entries /\ e # Nothing /\ e.root = r
  BY EntryMade
<1> HIDE DEF e
<1>2. /\ index' \in [Ids -> Entries \cup {Nothing}]
      /\ index'[i] = e /\ \A j \in Ids \ {i} : index'[j] = index[j]
  BY <1>1 DEF IndexTyped, e
<1>3. \A j \in Ids : index'[j] # Nothing /\ index'[j].root = r => j = i
  BY <1>2
<1>4. RootsUnique'
  <2> SUFFICES ASSUME NEW j \in Ids, NEW k \in Ids,
                      index'[j] # Nothing, index'[k] # Nothing, index'[j].root = index'[k].root,
                      index'[j].root # Nothing
               PROVE  j = k
    BY DEF RootsUnique
  <2>1. CASE j = i \/ k = i
    BY <2>1, <1>1, <1>2, <1>3
  <2>2. CASE j # i /\ k # i
    BY <2>2, <1>2 DEF RootsUnique
  <2> QED BY <2>1, <2>2
<1> QED BY <1>1, <1>2, <1>3, <1>4 DEF Indexed

(* What the index may do in a step of a process. *)
Rewrites(p) ==
  \/ UNCHANGED <<index, claims>>
  \/ \E i \in Ids : Resolve(p, i)
  \/ RepairIndex(p) \/ RebuildIndex(p) \/ Reclaim(p)

(* Every step of a process does one of these. *)
LEMMA RewritesIndex ==
  ASSUME StoreTypeOK, NEW p \in Procs, Start(p) \/ Run(p) \/ Abandon(p)
  PROVE  Rewrites(p)
<1> USE DEF store, Rewrites
<1>1. ASSUME Start(p) PROVE UNCHANGED <<index, claims>>
  BY <1>1, Started DEF StartJob
<1>2. ASSUME Acquire(p) \/ AcquireShared(p) \/ ReadIndex(p) PROVE UNCHANGED <<index, claims>>
  BY <1>2 DEF Acquire, AcquireShared, ReadIndex
<1>3. ASSUME Gate(p) PROVE UNCHANGED <<index, claims>>
  BY <1>3 DEF Gate, CleanRecord, RecoverRecord, Blocked, Passed
<1>4. ASSUME ItemCommand(p) PROVE UNCHANGED <<index, claims>>
  BY <1>4 DEF ItemCommand, BeginAdd, RefuseAdd, BeginRefresh, Place, SaveAdded, Finalize, DropRecord
<1>5. ASSUME Report(p) \/ Abandon(p) \/ Migrate(p) PROVE UNCHANGED <<index, claims>>
  BY <1>5 DEF Report, Abandon, Migrate
<1>6. ASSUME GcCommand(p) PROVE UNCHANGED <<index, claims>>
  BY <1>6 DEF GcCommand, PlanGc, Collect, DeleteFile
<1> QED BY <1>1, <1>2, <1>3, <1>4, <1>5, <1>6 DEF Run

(* The common directory of a path is a path. *)
LEMMA CommonTyped ==
  ASSUME StoreTypeOK, NEW r \in Roots
  PROVE  CommonDir(r) \in Roots
BY DEF StoreTypeOK, CommonDir, Working

(* The RepoId of a checkout is the only one the index gives its path, if it gives it any. *)
LEMMA AssociatedAlone ==
  ASSUME RootsUnique, NEW r \in Roots, r # Nothing, NEW c, NEW i \in Associated(r, c)
  PROVE  i \in Ids /\ index[i] # Nothing /\ \A j \in Indexed("root", r) : j = i
<1>1. i \in Ids /\ index[i] # Nothing
  BY DEF Associated, Indexed
<1>2. CASE Indexed("root", r) # {}
  BY <1>2 DEF Associated, Indexed, RootsUnique
<1>3. CASE Indexed("root", r) = {}
  BY <1>1, <1>3
<1> QED BY <1>1, <1>2, <1>3

(* resolve_repo leaves the path of the checkout to the RepoId it finds. *)
LEMMA ResolveIndex ==
  ASSUME StoreTypeOK, JobsShaped, RootsUnique, NEW p \in Procs, NEW i \in Ids, Resolve(p, i),
         NEW r, r = job[p].root
  PROVE  /\ IndexTyped' /\ RootsUnique'
         /\ index'[i] # Nothing /\ \A j \in Indexed("root", r)' : j = i
<1> DEFINE known == Associated(r, CommonDir(r))
<1>1. /\ job[p] # Nothing /\ r \in Roots /\ r # Nothing /\ IndexTyped
      /\ git[r] \in Clones \cup {Nothing}
  BY NothingDistinct DEF Resolve, AtStep, JobsShaped, Shaped, StoreTypeOK, IndexTyped
<1>2. CommonDir(r) \in Roots
  BY <1>1, CommonTyped
<1>3. claims' \subseteq Clones \X Ids
  BY <1>1 DEF Resolve, IndexTyped
<1>4. i \in (IF known # {} THEN known ELSE Fresh) /\ index' = Registered(r, i)
  BY DEF Resolve
<1>5. CASE Indexed("root", r) # {}
  <2>1. index' = index /\ i \in known
    BY <1>4, <1>5 DEF Registered, Associated
  <2>2. index[i] # Nothing /\ \A j \in Indexed("root", r) : j = i
    BY <2>1, <1>1, AssociatedAlone
  <2> QED BY <2>1, <2>2, <1>1, <1>3 DEF IndexTyped, RootsUnique, Indexed
<1>6. CASE Indexed("root", r) = {}
  <2>1. index' = [index EXCEPT ![i] = [root |-> r, common |-> CommonDir(r)]]
    BY <1>4, <1>6 DEF Registered
  <2>2. \A j \in Ids \ {i} : index[j] = Nothing \/ index[j].root # r
    BY <1>6 DEF Indexed
  <2> QED BY <2>1, <2>2, <1>1, <1>2, <1>3, RootGiven DEF IndexTyped
<1> QED BY <1>5, <1>6

(* repo repair gives the path of the checkout to the RepoId it had looked up. *)
LEMMA RepairRoots ==
  ASSUME StoreTypeOK, JobsShaped, RootsUnique, NEW p \in Procs, RepairIndex(p)
  PROVE  IndexTyped' /\ RootsUnique'
<1> DEFINE r == job[p].root
           i == job[p].id
<1>1. /\ job[p] # Nothing /\ r \in Roots /\ r # Nothing /\ i \in Ids /\ IndexTyped
      /\ claims' = claims
  BY NothingDistinct DEF RepairIndex, AtStep, JobsShaped, Shaped, StoreTypeOK, IndexTyped, RepoCommands
<1>2. CommonDir(r) \in Roots
  BY <1>1, CommonTyped
<1>3. CASE index' = index
  BY <1>1, <1>3 DEF IndexTyped, RootsUnique
<1>4. CASE /\ i \in Associated(r, CommonDir(r))
           /\ index' = [index EXCEPT ![i] = [root |-> r, common |-> CommonDir(r)]]
  <2>1. \A j \in Indexed("root", r) : j = i
    BY <1>1, <1>4, AssociatedAlone
  <2>2. \A j \in Ids \ {i} : index[j] = Nothing \/ index[j].root # r
    BY <2>1 DEF Indexed
  <2> QED BY <1>1, <1>2, <1>4, <2>2, RootGiven DEF IndexTyped
<1> QED BY <1>3, <1>4 DEF RepairIndex

(* store rebuild-index gives no path to anybody. *)
LEMMA RebuildRoots ==
  ASSUME StoreTypeOK, NEW p \in Procs, RebuildIndex(p)
  PROVE  IndexTyped' /\ RootsUnique'
<1> DEFINE e == [root |-> Nothing, common |-> Nothing]
<1>1. e \in Entries /\ e # Nothing /\ e.root = Nothing
  BY EntryMade
<1>2. /\ index' = [i \in Ids |-> IF Format(i) = "v3" THEN e ELSE Nothing]
      /\ claims' = claims /\ claims \subseteq Clones \X Ids
  BY DEF RebuildIndex, StoreTypeOK
<1> HIDE DEF e
<1> QED BY <1>1, <1>2 DEF IndexTyped, RootsUnique

(* repo reclaim takes the path from whoever had it. *)
LEMMA ReclaimRoots ==
  ASSUME StoreTypeOK, JobsShaped, RootsUnique, NEW p \in Procs, Reclaim(p)
  PROVE  IndexTyped' /\ RootsUnique'
<1> DEFINE j == job[p]
           e == [root |-> j.root, common |-> j.common]
<1>1. /\ j # Nothing /\ j.root \in Roots /\ j.common \in Roots /\ j.clone \in Clones /\ j.id \in Ids
      /\ IndexTyped /\ j.root # Nothing
  BY NothingDistinct DEF Reclaim, AtStep, JobsShaped, Shaped, StoreTypeOK, IndexTyped
<1>2. CASE UNCHANGED <<index, claims>>
  BY <1>1, <1>2 DEF IndexTyped, RootsUnique
<1>3. CASE /\ index' = [i \in Ids |-> IF i = j.id THEN e
                                      ELSE IF i \in Displaced(j) THEN Nothing ELSE index[i]]
           /\ claims' = claims \cup {<<j.clone, j.id>>}
  <2>1. e \in Entries /\ e # Nothing /\ e.root = j.root
    BY <1>1, EntryMade
  <2>2. \A i \in Ids \ {j.id} : index'[i] # Nothing => index'[i] = index[i] /\ index[i].root # j.root
    BY <1>3 DEF Displaced, Indexed
  <2>3. index'[j.id] = e
    BY <1>1, <1>3
  <2>4. index' \in [Ids -> Entries \cup {Nothing}]
    BY <1>1, <1>3, <2>1 DEF IndexTyped
  <2>5. claims' \subseteq Clones \X Ids
    BY <1>1, <1>3 DEF IndexTyped
  <2> HIDE DEF e
  <2>6. RootsUnique'
    BY <1>1, <2>1, <2>2, <2>3 DEF RootsUnique
  <2> QED BY <2>4, <2>5, <2>6 DEF IndexTyped
<1> QED BY <1>2, <1>3 DEF Reclaim

(* The body of WorksOnAssociated. *)
Associates(p) ==
  job[p] # Nothing /\ job[p].id # Nothing /\ (p \in readers \/ lock = p)
  /\ job[p].step \in {"begin", "place", "save", "final", "drop", "report"}
  => \/ index[job[p].id] # Nothing
     /\ \A i \in Indexed("root", job[p].root) : i = job[p].id

(* The index changes only at the hands of the one who has the lock. *)
LEMMA AssociatesByOthers ==
  ASSUME LockHeld, LockHeld', WorksOnAssociated, NEW p \in Procs, Flow(p),
         index' = index \/ (job[p] # Nothing /\ job[p].step \in Locked),
         Associates(p)'
  PROVE  WorksOnAssociated'
<1> SUFFICES ASSUME NEW q \in Procs \ {p} PROVE Associates(q)'
  BY DEF WorksOnAssociated, Associates
<1>1. Associates(q) /\ job'[q] = job[q]
  BY DEF WorksOnAssociated, Associates, Flow
<1>2. CASE index' = index
  <2>1. (q \in readers' \/ lock' = q) => (q \in readers \/ lock = q)
    BY <1>1, NothingDistinct DEF Flow, Ends, Enters, EntersShared, Reads, Proceeds
  <2> QED BY <1>1, <1>2, <2>1 DEF Associates, Indexed
<1>3. CASE job[p] # Nothing /\ job[p].step \in Locked
  <2>1. lock = p /\ readers = {} /\ p # Nothing
    BY <1>3, NothingDistinct DEF LockHeld
  <2>2. q \notin readers' /\ lock' # q
    BY <1>3, <2>1, NothingDistinct DEF Flow, Ends, Enters, EntersShared, Reads, Proceeds, Locked, PastTheGate
  <2> QED BY <2>2 DEF Associates
<1> QED BY <1>2, <1>3

(* What a process does at some of its steps. *)
LEMMA AtItsStep ==
  ASSUME NEW p \in Procs, Run(p)
  PROVE  /\ job[p] # Nothing
         /\ job[p].step = "read" => ReadIndex(p)
         /\ job[p].step = "resolve" => \E i \in Ids : Resolve(p, i)
         /\ job[p].step \in {"collect", "delete"} =>
              \E i \in Ids : Collect(p, i) \/ \E x \in Items : DeleteFile(p, i, x)
<1> USE DEF AtStep
<1>1. Acquire(p) \/ AcquireShared(p) \/ Gate(p) => job[p] # Nothing /\ job[p].step \in {"lock", "gate"}
  BY DEF Acquire, AcquireShared, Gate, CleanRecord, RecoverRecord, Blocked, Passed
<1>2. ItemCommand(p) => job[p] # Nothing /\ job[p].step \in {"begin", "place", "save", "final", "drop"}
  BY DEF ItemCommand, BeginAdd, RefuseAdd, BeginRefresh, Place, SaveAdded, Finalize, DropRecord
<1>3. RepairIndex(p) \/ RebuildIndex(p) \/ Reclaim(p) \/ Migrate(p) => job[p] # Nothing /\ job[p].step = "run"
  BY DEF RepairIndex, RebuildIndex, Reclaim, Migrate
<1>4. PlanGc(p) => job[p] # Nothing /\ job[p].step = "run"
  BY DEF PlanGc
<1>8. \A i \in Ids : Collect(p, i) \/ (\E x \in Items : DeleteFile(p, i, x)) =>
        job[p] # Nothing /\ job[p].step \in {"collect", "delete"}
  BY DEF Collect, DeleteFile
<1>5. Report(p) => job[p] # Nothing /\ job[p].step = "report"
  BY DEF Report
<1>6. ReadIndex(p) => job[p] # Nothing /\ job[p].step = "read"
  BY DEF ReadIndex
<1>7. \A i \in Ids : Resolve(p, i) => job[p] # Nothing /\ job[p].step = "resolve"
  BY DEF Resolve
<1> QED BY <1>1, <1>2, <1>3, <1>4, <1>5, <1>6, <1>7, <1>8 DEF Run, GcCommand

(* No two RepoIds get the same path, and a command goes on working on the one it resolved. *)
LEMMA IndexStep ==
  ASSUME StoreTypeOK, JobsShaped, LockHeld, LockHeld', RootsUnique, WorksOnAssociated,
         NEW p \in Procs, Start(p) \/ Run(p) \/ Abandon(p)
  PROVE  IndexTyped' /\ RootsUnique' /\ WorksOnAssociated'
<1>0. /\ JobsTyped /\ Flow(p) /\ Rewrites(p) /\ Associates(p) /\ IndexTyped
      /\ (job[p] # Nothing => Shaped(job[p]) /\ job[p] \in StoreJobs)
  BY ProcessFlow, RewritesIndex
  DEF StoreTypeOK, JobsTyped, IndexTyped, WorksOnAssociated, Associates, JobsShaped
<1> USE DEF AtStep
<1>1. ASSUME NEW i \in Ids, Resolve(p, i) PROVE IndexTyped' /\ RootsUnique' /\ WorksOnAssociated'
  <2>0. PICK r : r = job[p].root
    OBVIOUS
  <2>1. /\ IndexTyped' /\ RootsUnique'
        /\ index'[i] # Nothing /\ \A j \in Indexed("root", r)' : j = i
    BY <1>1, <2>0, ResolveIndex
  <2>2. job[p] # Nothing /\ job[p].step = "resolve"
    BY <1>1 DEF Resolve
  <2>3. job'[p] # Nothing => job'[p].id = i /\ job'[p].root = r
    <3>1. CASE Leave(p)
      BY <3>1, <1>0, Left
    <3>2. CASE job' = [job EXCEPT ![p].id = i, ![p].clone = git[job[p].root],
                                  ![p].step = AfterResolve[job[p].cmd]]
      BY <3>2, <2>0, <2>2, <1>0 DEF JobsTyped, StoreJobs
    <3> QED BY <1>1, <3>1, <3>2 DEF Resolve
  <2>4. Associates(p)'
    BY <2>1, <2>3 DEF Associates
  <2> QED BY <2>1, <2>2, <2>4, <1>0, AssociatesByOthers DEF Locked, PastTheGate
<1>2. ASSUME RepairIndex(p) \/ RebuildIndex(p) \/ Reclaim(p)
      PROVE  IndexTyped' /\ RootsUnique' /\ WorksOnAssociated'
  <2>1. IndexTyped' /\ RootsUnique'
    BY <1>2, RepairRoots, RebuildRoots, ReclaimRoots
  <2>2. job[p] # Nothing /\ job[p].step = "run" /\ Leave(p)
    BY <1>2 DEF RepairIndex, RebuildIndex, Reclaim
  <2>3. Associates(p)'
    BY <2>2, <1>0, Left DEF Associates
  <2> QED BY <2>1, <2>2, <2>3, <1>0, AssociatesByOthers DEF Locked, PastTheGate
<1>3. ASSUME UNCHANGED <<index, claims>>
      PROVE  IndexTyped' /\ RootsUnique' /\ WorksOnAssociated'
  <2>1. IndexTyped' /\ RootsUnique'
    BY <1>3, <1>0 DEF IndexTyped, RootsUnique
  <2>2. Associates(p)'
    <3>1. CASE ReadIndex(p)
      <4>1. /\ job[p] # Nothing /\ job[p] \in StoreJobs /\ job[p].root \in Roots
            /\ job[p].root # Nothing
        BY <3>1, <1>0, NothingDistinct DEF ReadIndex, Shaped
      <4>2. CASE Leave(p)
        BY <4>2, <1>0, Left DEF Associates
      <4>3. ASSUME NEW i, i \in Associated(job[p].root, CommonDir(job[p].root)),
                   job' = [job EXCEPT ![p].id = i, ![p].step = "report"]
            PROVE  Associates(p)'
        <5>1. job'[p].id = i /\ job'[p].root = job[p].root
          BY <4>1, <4>3, <1>0 DEF JobsTyped, StoreJobs
        <5>2. index[i] # Nothing /\ \A j \in Indexed("root", job[p].root) : j = i
          BY <4>1, <4>3, AssociatedAlone
        <5> QED BY <5>1, <5>2, <1>3 DEF Associates, Indexed
      <4> QED BY <3>1, <4>2, <4>3 DEF ReadIndex
    <3>2. CASE ~ReadIndex(p) /\ \A i \in Ids : ~Resolve(p, i)
      <4>1. job'[p] # Nothing => job[p] = Nothing \/ job[p].step \notin {"read", "resolve"}
        <5>1. Start(p) => job[p] = Nothing
          BY Started DEF StartJob
        <5>2. Abandon(p) => job'[p] = Nothing
          BY <1>0, Left DEF Abandon
        <5> QED BY <3>2, <5>1, <5>2, AtItsStep
      <4>2. CASE UNCHANGED <<job, lock, readers>> \/ job'[p] = Nothing
        BY <4>2, <1>0, <1>3 DEF Associates, Indexed
      <4>3. CASE job[p] = Nothing /\ job'[p] # Nothing /\ JustStarted(job'[p])
        BY <4>3 DEF Associates, JustStarted
      <4>4. CASE job[p] # Nothing /\ job'[p] # Nothing /\ (Enters(p) \/ EntersShared(p) \/ Reads(p))
        BY <4>1, <4>4 DEF Associates, Enters, EntersShared, Reads
      <4>5. CASE job[p] # Nothing /\ job'[p] # Nothing /\ Proceeds(p) /\ job'[p].root = job[p].root
        BY <4>1, <4>5, <1>0, <1>3 DEF Associates, Proceeds, Follows, Indexed
      <4> QED BY <4>2, <4>3, <4>4, <4>5, <1>0 DEF Flow, Ends
    <3>3. ASSUME NEW i \in Ids, Resolve(p, i) PROVE Associates(p)'
      BY <3>3, <1>1 DEF WorksOnAssociated, Associates
    <3> QED BY <3>1, <3>2, <3>3
  <2> QED BY <1>3, <2>1, <2>2, <1>0, AssociatesByOthers
<1> QED BY <1>0, <1>1, <1>2, <1>3 DEF Rewrites

(***************************************************************************)
(* The invariant, step by step                                             *)
(***************************************************************************)

(* It holds of an initial store. *)
LEMMA BookInit ==
  ASSUME StoreInit
  PROVE  BookInv
<1> USE DEF StoreInit
<1>1. /\ job = [p \in Procs |-> Nothing] /\ records = {} /\ lock = Nothing /\ readers = {}
      /\ Nothing \notin Procs
      /\ files = UNION {{<<i, x>> : x \in Held(i)} : i \in Ids}
  BY NothingDistinct
<1>2. LockHeld /\ JobsShaped /\ RecordsHandled /\ AddsListed /\ ItemsAtWork /\ WorksOnAssociated
  BY <1>1 DEF LockHeld, JobsShaped, RecordsHandled, Handled, AddsListed, ItemsAtWork, AtWork, WorksOnAssociated
<1>3. FilesListed
  BY <1>1 DEF FilesListed, Held, State
<1>4. git \in [Roots -> Clones \cup {Nothing}] /\ home \in [Clones -> Roots \cup {Nothing}]
  OBVIOUS
<1>5. ManifestsTyped
  <2>1. [format : {"v2"}, items : [Items -> InitialStates]] \subseteq Manifests
    <3>1. InitialStates \subseteq LegacyStates
      BY StoreParametersTyped DEF LegacyStates, OwnershipStates
    <3>2. [Items -> InitialStates] \subseteq [Items -> LegacyStates]
      BY <3>1
    <3> QED BY <3>2 DEF Manifests
  <2> HIDE DEF Manifests
  <2>2. manifest \in [Ids -> {Nothing} \cup [format : {"v2"}, items : [Items -> InitialStates]]]
    OBVIOUS
  <2> QED BY <2>1, <2>2 DEF ManifestsTyped
<1>6. claims \subseteq Clones \X Ids /\ \A k \in Clones, i \in Ids : <<k, i>> \in claims => home[k] \in Roots
  BY <1>4
<1> DEFINE entry(i) ==
             IF \E k \in Clones : <<k, i>> \in claims
             THEN LET k == CHOOSE k \in Clones : <<k, i>> \in claims
                  IN  [root |-> home[k], common |-> home[k]]
             ELSE [root |-> Nothing, common |-> Nothing]
<1>7. ASSUME NEW i \in Ids PROVE entry(i) \in Entries
  <2>1. CASE \E k \in Clones : <<k, i>> \in claims
    BY <2>1, <1>6 DEF Entries
  <2>2. CASE ~\E k \in Clones : <<k, i>> \in claims
    BY <2>2 DEF Entries
  <2> QED BY <2>1, <2>2
<1>8. index = [i \in Ids |-> IF manifest[i] = Nothing THEN Nothing ELSE entry(i)]
  OBVIOUS
<1> HIDE DEF entry
<1>9. index \in [Ids -> Entries \cup {Nothing}]
  BY <1>7, <1>8
<1>10. RootsUnique
  BY <1>8 DEF RootsUnique
<1>11. StoreTypeOK
  <2>1. \A i \in Ids : {<<i, x>> : x \in Held(i)} \subseteq Ids \X Items
    BY DEF Held
  <2>2. files \subseteq Ids \X Items
    BY <1>1, <2>1
  <2>3. strict \in BOOLEAN /\ lockFile \in BOOLEAN /\ acts \in Nat /\ starts \in Nat
    OBVIOUS
  <2> QED BY <1>1, <1>4, <1>5, <1>6, <1>9, <2>2, <2>3 DEF StoreTypeOK, ManifestsTyped
<1> QED BY <1>2, <1>3, <1>10, <1>11 DEF BookInv

(* What a step of a process leaves alone. *)
LEMMA Surroundings ==
  ASSUME StoreTypeOK, NEW p \in Procs, Start(p) \/ Run(p) \/ Abandon(p)
  PROVE  UNCHANGED <<git, home, strict, acts>> /\ starts' \in Nat /\ lockFile' \in BOOLEAN
<1> USE DEF StoreTypeOK, world, counts, locking, Leave
<1>1. ASSUME Start(p) PROVE UNCHANGED <<git, home, strict, acts>> /\ starts' \in Nat /\ lockFile' \in BOOLEAN
  BY <1>1, Started DEF StartJob
<1>2. ASSUME Acquire(p) \/ AcquireShared(p)
      PROVE  UNCHANGED <<git, home, strict, counts>> /\ lockFile' \in BOOLEAN
  BY <1>2 DEF Acquire, AcquireShared
<1>3. ASSUME Gate(p) PROVE UNCHANGED <<git, home, strict, counts>> /\ lockFile' \in BOOLEAN
  BY <1>3 DEF Gate, CleanRecord, RecoverRecord, Blocked, Passed
<1>4. ASSUME NEW i \in Ids, Resolve(p, i) PROVE UNCHANGED <<git, home, strict, counts>> /\ lockFile' \in BOOLEAN
  BY <1>4 DEF Resolve
<1>5. ASSUME ItemCommand(p) PROVE UNCHANGED <<git, home, strict, counts>> /\ lockFile' \in BOOLEAN
  BY <1>5 DEF ItemCommand, BeginAdd, RefuseAdd, BeginRefresh, Place, SaveAdded, Finalize, DropRecord
<1>6. ASSUME RepairIndex(p) \/ Report(p) \/ RebuildIndex(p) \/ Reclaim(p) \/ Abandon(p)
      PROVE  UNCHANGED <<git, home, strict, counts>> /\ lockFile' \in BOOLEAN
  BY <1>6 DEF RepairIndex, Report, RebuildIndex, Reclaim, Abandon
<1>7. ASSUME ReadIndex(p) \/ Migrate(p) PROVE UNCHANGED <<git, home, strict, counts>> /\ lockFile' \in BOOLEAN
  BY <1>7 DEF ReadIndex, Migrate
<1>8. ASSUME GcCommand(p) PROVE UNCHANGED <<git, home, strict, counts>> /\ lockFile' \in BOOLEAN
  BY <1>8 DEF GcCommand, PlanGc, Collect, DeleteFile
<1> QED BY <1>1, <1>2, <1>3, <1>4, <1>5, <1>6, <1>7, <1>8 DEF Run

(* Records and files stay what they are. *)
LEMMA StoreWritten ==
  ASSUME NEW p \in Procs, Ready(p), Start(p) \/ Run(p) \/ Abandon(p)
  PROVE  records' \subseteq StoreRecords /\ files' \subseteq Ids \X Items
<1>0. records \subseteq StoreRecords /\ files \subseteq Ids \X Items /\ (Writes(p) \/ Idles(p))
  BY WritesOrIdles DEF Ready, StoreTypeOK
<1> USE DEF AtStep
<1>1. CASE Idles(p)
  BY <1>0, <1>1 DEF Idles
<1>2. ASSUME NEW x \in Items, BeginAdd(p, x) PROVE records' \subseteq StoreRecords /\ files' = files
  BY <1>0, <1>2, OperationFields DEF BeginAdd, Ready, Shaped, RepoCommands
<1>3. ASSUME NEW side \in {"repo", "store"}, BeginRefresh(p, side)
      PROVE  records' \subseteq StoreRecords /\ files' = files
  BY <1>0, <1>3, ArtifactFields DEF BeginRefresh, Ready, Shaped, RepoCommands
<1>4. ASSUME NEW rec \in records, CleanRecord(p, rec) \/ RecoverRecord(p, rec) \/ DropRecord(p, rec)
      PROVE  records' \subseteq StoreRecords /\ files' = files
  BY <1>0, <1>4 DEF CleanRecord, RecoverRecord, DropRecord
<1>5. ASSUME NEW rec \in records, Place(p, rec)
      PROVE  records' \subseteq StoreRecords /\ files' \subseteq Ids \X Items
  <2>1. rec.kind = "operation" /\ records' = records /\ files' = files \cup {<<rec.id, rec.item>>}
    BY <1>5 DEF Place, Ready, Handled
  <2> QED BY <1>0, <2>1, RecordFields
<1>6. ASSUME NEW rec \in records, SaveAdded(p, rec) PROVE records' = records /\ files' = files
  BY <1>6 DEF SaveAdded
<1>7. ASSUME NEW rec \in records, Finalize(p, rec)
      PROVE  records' \subseteq StoreRecords /\ files' = files
  <2>1. rec.kind = "operation"
    BY <1>7 DEF Finalize, Ready, Handled
  <2> QED BY <1>0, <1>7, <2>1, FinalFields DEF Finalize
<1>8. ASSUME NEW i, Collect(p, i) PROVE records' = records /\ files' = files
  BY <1>8 DEF Collect
<1>9. ASSUME NEW i, NEW x, DeleteFile(p, i, x) PROVE records' = records /\ files' \subseteq files
  BY <1>9 DEF DeleteFile
<1>10. ASSUME Migrate(p) PROVE records' = records /\ files' = files
  BY <1>10 DEF Migrate
<1> QED BY <1>0, <1>1, <1>2, <1>3, <1>4, <1>5, <1>6, <1>7, <1>8, <1>9, <1>10 DEF Writes

(* A step of a process preserves it. *)
LEMMA BookProcess ==
  ASSUME BookInv, NEW p \in Procs, Start(p) \/ Run(p) \/ Abandon(p)
  PROVE  BookInv' /\ CatalogMoves
<1>1. Ready(p) /\ RootsUnique /\ WorksOnAssociated
  BY DEF BookInv, Ready, JobsTyped, ManifestsTyped, StoreTypeOK, RecordsHandled, ItemsAtWork, JobsShaped
<1>2. JobsTyped' /\ Flow(p)
  BY <1>1, ProcessFlow DEF Ready
<1>3. JobsShaped' /\ LockHeld'
  BY <1>1, <1>2, FlowShapes, FlowLock DEF Ready
<1>4. RecordsHandled'
  BY <1>1, RecordsStep DEF Ready
<1>5. FilesListed' /\ AddsListed' /\ ItemsAtWork' /\ ManifestsTyped' /\ CatalogMoves
  BY <1>1, ItemsStep
<1>6. IndexTyped' /\ RootsUnique' /\ WorksOnAssociated'
  BY <1>1, <1>3, IndexStep DEF Ready
<1>7. StoreTypeOK'
  <2>1. lock' \in Procs \cup {Nothing} /\ readers' \subseteq Procs
    BY <1>1, <1>2 DEF Ready, StoreTypeOK, Flow, Enters, EntersShared, Reads, Proceeds, Ends
  <2>2. /\ git' \in [Roots -> Clones \cup {Nothing}] /\ home' \in [Clones -> Roots \cup {Nothing}]
        /\ strict' \in BOOLEAN /\ lockFile' \in BOOLEAN /\ acts' \in Nat /\ starts' \in Nat
    BY <1>1, Surroundings DEF Ready, StoreTypeOK
  <2>3. records' \subseteq StoreRecords /\ files' \subseteq Ids \X Items
    BY <1>1, StoreWritten
  <2> QED BY <1>2, <1>5, <1>6, <2>1, <2>2, <2>3 DEF StoreTypeOK, JobsTyped, ManifestsTyped, IndexTyped
<1> QED BY <1>1, <1>3, <1>4, <1>5, <1>6, <1>7 DEF BookInv

(* Users move checkouts about; of the store they touch the format of one   *)
(* manifest, or, with nobody holding the lock, the record of a newer version. *)
LEMMA UserActs ==
  ASSUME StoreTypeOK, StoreUserAct
  PROVE  /\ git' \in [Roots -> Clones \cup {Nothing}] /\ home' \in [Clones -> Roots \cup {Nothing}]
         /\ strict' \in BOOLEAN /\ acts' \in Nat
         /\ UNCHANGED <<job, lock, readers, lockFile, index, files, claims, starts>>
         /\ \/ records' = records
            \/ lock = Nothing /\ (records' = records \ {Newer} \/ records' = records \cup {Newer})
         /\ \/ manifest' = manifest
            \/ \E i \in Ids : CorruptManifest(i)
<1> DEFINE Same == UNCHANGED <<job, lock, readers, lockFile, index, files, claims, starts>>
<1> USE DEF StoreTypeOK, StoreAct, store, locking, world
<1>1. ASSUME NEW r \in Roots, RemoveCheckout(r)
      PROVE  /\ git' \in [Roots -> Clones \cup {Nothing}] /\ home' \in [Clones -> Roots \cup {Nothing}]
             /\ strict' \in BOOLEAN /\ acts' \in Nat /\ Same /\ UNCHANGED <<records, manifest>>
  BY <1>1 DEF RemoveCheckout
<1>2. ASSUME NEW r \in Roots, NEW k \in Clones, CloneInto(r, k) \/ AddWorktree(r, k)
      PROVE  /\ git' \in [Roots -> Clones \cup {Nothing}] /\ home' \in [Clones -> Roots \cup {Nothing}]
             /\ strict' \in BOOLEAN /\ acts' \in Nat /\ Same /\ UNCHANGED <<records, manifest>>
  BY <1>2 DEF CloneInto, AddWorktree
<1>3. ASSUME NEW r \in Roots, NEW s \in Roots, MoveCheckout(r, s)
      PROVE  /\ git' \in [Roots -> Clones \cup {Nothing}] /\ home' \in [Clones -> Roots \cup {Nothing}]
             /\ strict' \in BOOLEAN /\ acts' \in Nat /\ Same /\ UNCHANGED <<records, manifest>>
  <2>1. git[r] \in Clones
    BY <1>3 DEF MoveCheckout, Working
  <2> QED BY <1>3, <2>1 DEF MoveCheckout
<1>4. ASSUME NEW i \in Ids, CorruptManifest(i)
      PROVE  /\ UNCHANGED <<git, home, strict, records>> /\ acts' \in Nat /\ Same
  BY <1>4 DEF CorruptManifest
<1>5. ASSUME Configure
      PROVE  /\ UNCHANGED <<git, home, records, manifest>> /\ strict' \in BOOLEAN /\ acts' \in Nat /\ Same
  BY <1>5 DEF Configure
<1>6. ASSUME NewerVersion
      PROVE  /\ UNCHANGED <<git, home, strict, manifest>> /\ acts' \in Nat /\ Same
             /\ lock = Nothing /\ (records' = records \ {Newer} \/ records' = records \cup {Newer})
  BY <1>6 DEF NewerVersion, Newer
<1> QED BY <1>1, <1>2, <1>3, <1>4, <1>5, <1>6 DEF StoreUserAct

(* So does whatever a user does. *)
LEMMA BookUser ==
  ASSUME BookInv, StoreUserAct
  PROVE  BookInv' /\ CatalogMoves
<1> USE DEF BookInv
<1>1. /\ UNCHANGED <<job, lock, readers, lockFile, index, files, claims, starts>>
      /\ \/ records' = records
         \/ lock = Nothing /\ (records' = records \ {Newer} \/ records' = records \cup {Newer})
      /\ manifest \in [Ids -> Manifests \cup {Nothing}] /\ records \subseteq StoreRecords
  BY UserActs DEF StoreTypeOK
<1>2. Newer \in StoreRecords /\ Newer.kind = "newer"
  BY DEF Newer, StoreRecords
<1>3. records' \subseteq StoreRecords /\ \A rec \in records' : rec \in records \/ rec.kind = "newer"
  BY <1>1, <1>2
<1>4. /\ ManifestsTyped'
      /\ \A j \in Ids : manifest[j] # Nothing => manifest'[j] # Nothing
      /\ \A j \in Ids : Format(j) # "v2" => Format(j)' # "v2"
      /\ \A j \in Ids, x \in Items : State(j, x)' = State(j, x)
  <2>1. CASE manifest' = manifest
    BY <1>1, <2>1 DEF ManifestsTyped, Format, State, ItemsOf
  <2>2. ASSUME NEW i \in Ids, CorruptManifest(i)
        PROVE  /\ ManifestsTyped'
               /\ \A j \in Ids : manifest[j] # Nothing => manifest'[j] # Nothing
               /\ Format(i)' \in {"v3", "bad"} /\ \A j \in Ids \ {i} : Format(j)' = Format(j)
               /\ \A j \in Ids : ItemsOf(j)' = ItemsOf(j)
    BY <1>1, <2>2, ManifestCorrupted DEF CorruptManifest, ManifestsTyped
  <2> QED BY <2>1, <2>2, UserActs DEF State
<1>5. StoreTypeOK'
  BY <1>1, <1>3, <1>4, UserActs DEF StoreTypeOK, ManifestsTyped
<1>6. LockHeld' /\ JobsShaped'
  BY <1>1 DEF LockHeld, JobsShaped
<1>7. RecordsHandled'
  <2> SUFFICES ASSUME NEW p \in Procs PROVE Handled(p)'
    BY DEF RecordsHandled
  <2>1. CASE records' = records
    BY <1>1, <2>1 DEF RecordsHandled, Handled, Own
  <2>2. CASE lock = Nothing
    <3>1. job[p] # Nothing => job[p].step \notin Locked
      BY <2>2, NothingDistinct DEF LockHeld
    <3> QED BY <1>1, <3>1 DEF Handled, Locked, PastTheGate
  <2> QED BY <1>1, <2>1, <2>2
<1>8. FilesListed'
  BY <1>1, <1>4 DEF FilesListed
<1>9. AddsListed'
  <2> SUFFICES ASSUME NEW rec \in records', rec.kind = "operation", ~rec.final
               PROVE  State(rec.id, rec.item)' \in {"absent", "attached"}
    BY DEF AddsListed
  <2>1. rec \in records /\ rec.id \in Ids /\ rec.item \in Items
    BY <1>1, <1>3, RecordFields
  <2> QED BY <1>4, <2>1 DEF AddsListed
<1>10. ItemsAtWork'
  <2> SUFFICES ASSUME NEW p \in Procs, job[p] # Nothing PROVE AtWork(p)'
    BY <1>1 DEF ItemsAtWork, AtWork
  <2>0. AtWork(p) /\ job' = job /\ files' = files /\ Shaped(job[p])
    BY <1>1 DEF ItemsAtWork, JobsShaped
  <2>1. job[p].step \in {"begin", "place", "save"} => Format(job[p].id)' # "v2"
    BY <1>4, <2>0 DEF AtWork, Shaped
  <2>2. ASSUME NEW i \in Ids, NEW x \in Items, <<i, x>> \in job[p].plan
        PROVE  manifest'[i] # Nothing /\ State(i, x)' \in {"absent", "orphaned"}
    BY <1>4, <2>0, <2>2 DEF AtWork
  <2>3. ASSUME job[p].step \in {"place", "save", "final"}, NEW rec \in records'
        PROVE  /\ rec \in records /\ rec.id \in Ids /\ rec.item \in Items
               /\ State(rec.id, rec.item)' = State(rec.id, rec.item)
    <3>1. records' = records
      BY <1>1, <2>3, NothingDistinct DEF LockHeld, Locked, PastTheGate
    <3>2. rec.kind = "operation"
      BY <2>3, <3>1 DEF RecordsHandled, Handled
    <3> QED BY <1>1, <1>4, <3>1, <3>2, RecordFields
  <2> QED BY <2>0, <2>1, <2>2, <2>3 DEF AtWork
<1>11. RootsUnique' /\ WorksOnAssociated'
  BY <1>1 DEF RootsUnique, WorksOnAssociated, Indexed
<1>12. CatalogMoves
  BY <1>4 DEF CatalogMoves, Kept
<1> QED BY <1>5, <1>6, <1>7, <1>8, <1>9, <1>10, <1>11, <1>12

(***************************************************************************)
(* Theorems                                                                *)
(***************************************************************************)

(* So every step does. *)
LEMMA BookNextInv ==
  ASSUME BookInv, [BookNext]_bookVars
  PROVE  BookInv' /\ CatalogMoves
<1>1. ASSUME UNCHANGED bookVars PROVE BookInv' /\ CatalogMoves
  <2>1. /\ UNCHANGED <<git, home, strict, lock, readers, lockFile, index, manifest, files, records, job>>
        /\ UNCHANGED <<starts, acts, claims>>
    BY <1>1 DEF bookVars, world, store, locking, counts
  <2>2. StoreTypeOK' /\ LockHeld' /\ JobsShaped' /\ RootsUnique'
    BY <2>1 DEF BookInv, StoreTypeOK, LockHeld, JobsShaped, RootsUnique
  <2>3. RecordsHandled' /\ WorksOnAssociated'
    BY <2>1 DEF BookInv, RecordsHandled, Handled, Own, WorksOnAssociated, Indexed
  <2>4. \A i, x : State(i, x)' = State(i, x) /\ Format(i)' = Format(i)
    BY <2>1 DEF State, ItemsOf, Format
  <2>5. FilesListed' /\ AddsListed' /\ ItemsAtWork'
    BY <2>1, <2>4 DEF BookInv, FilesListed, AddsListed, ItemsAtWork, AtWork
  <2>6. CatalogMoves
    BY <2>4 DEF CatalogMoves, Kept
  <2> QED BY <2>2, <2>3, <2>5, <2>6 DEF BookInv
<1>2. Rest => UNCHANGED bookVars
  BY DEF Rest
<1> QED BY <1>1, <1>2, BookProcess, BookUser DEF BookNext

(* The invariant holds throughout, for every number of processes, checkouts,
   clones, RepoIds and items and every bound. *)
THEOREM BookInvariant == BookSpec => []BookInv
<1>1. StoreInit => BookInv
  BY BookInit
<1>2. BookInv /\ [BookNext]_bookVars => BookInv'
  BY BookNextInv
<1> QED BY <1>1, <1>2, PTL DEF BookSpec

(* The lock, index, manifests, files, records and jobs have their types throughout. *)
THEOREM StoreTyped == BookSpec => []StoreTypeOK
<1>1. BookInv => StoreTypeOK
  BY DEF BookInv
<1> QED BY <1>1, BookInvariant, PTL

(* While a command works for a RepoId, or a status that holds the lock reports
   on one, the index goes on associating its path with that RepoId. *)
THEOREM WorksOnAssociatedHolds == BookSpec => []WorksOnAssociated
<1>1. BookInv => WorksOnAssociated
  BY DEF BookInv
<1> QED BY <1>1, BookInvariant, PTL

(* A command past the recovery gate has the lock alone, and every record left is
   its own (recover_before_mutation). *)
THEOREM GateClearsHolds == BookSpec => []GateClears
<1>1. ASSUME BookInv PROVE GateClears
  <2> SUFFICES ASSUME NEW p \in Procs, job[p] # Nothing, job[p].step \in PastTheGate
               PROVE  lock = p /\ readers = {} /\ \A rec \in records : Own(p, rec)
    BY DEF GateClears
  <2>1. lock = p /\ readers = {}
    BY <1>1, NothingDistinct DEF BookInv, LockHeld, Locked
  <2>2. Handled(p)
    BY <1>1 DEF BookInv, RecordsHandled
  <2>3. \A rec \in records : Own(p, rec)
    BY <2>2 DEF Handled, PastTheGate
  <2> QED BY <2>1, <2>3
<1> QED BY <1>1, BookInvariant, PTL

(* Who may remove a record. *)
LEMMA RecordGone ==
  ASSUME BookInv, [BookNext]_bookVars, NEW rec \in records \ records', rec # Newer
  PROVE  \E p \in Procs :
           /\ lock = p
           /\ job[p].strict => rec.strict
           /\ \/ rec.root = job[p].root
              \/ Stale(rec)
              \/ rec.kind = "artifact" /\ rec.side = "store"
<1>1. ~(Rest \/ UNCHANGED bookVars)
  BY DEF Rest, bookVars, store
<1>2. ~StoreUserAct
  BY UserActs DEF BookInv
<1>3. PICK p \in Procs : Start(p) \/ Run(p) \/ Abandon(p)
  BY <1>1, <1>2 DEF BookNext
<1>4. Writes(p)
  BY <1>3, WritesOrIdles DEF BookInv, Idles
<1>5. /\ LockHeld /\ Handled(p)
      /\ (job[p] # Nothing /\ job[p].step \in Locked => lock = p)
  BY DEF BookInv, RecordsHandled, LockHeld
<1> USE DEF AtStep
<1>6. ASSUME NEW r \in records, CleanRecord(p, r) \/ RecoverRecord(p, r)
      PROVE  /\ job[p] # Nothing /\ job[p].step = "gate" /\ rec = r
             /\ Cleanable(p, rec) \/ rec.root = job[p].root
  BY <1>6 DEF CleanRecord, RecoverRecord, Interrupted, Owned
<1>7. ASSUME NEW r \in records, Own(p, r), Finalize(p, r) \/ DropRecord(p, r)
      PROVE  /\ job[p] # Nothing /\ job[p].step \in {"final", "drop"} /\ rec = r
             /\ rec.strict = job[p].strict /\ rec.root = job[p].root
  BY <1>7 DEF Finalize, DropRecord, Own
<1>8. ~(\E x \in Items : BeginAdd(p, x)) /\ ~(\E side \in {"repo", "store"} : BeginRefresh(p, side))
  BY DEF BeginAdd, BeginRefresh
<1>9. ~Migrate(p) /\ ~(\E r : Place(p, r) \/ SaveAdded(p, r))
  BY DEF Migrate, Place, SaveAdded
<1>10. ~(\E i \in Ids : Collect(p, i) \/ \E x \in Items : DeleteFile(p, i, x))
  BY DEF Collect, DeleteFile
<1>11. CASE \E r \in records : CleanRecord(p, r) \/ RecoverRecord(p, r)
  <2>1. lock = p /\ (job[p].strict => rec.strict)
    BY <1>5, <1>6, <1>11 DEF Handled, Locked
  <2> QED BY <1>6, <1>11, <2>1 DEF Cleanable, ArtifactPath, Owned
<1>12. CASE \E r \in records : Own(p, r) /\ (Finalize(p, r) \/ DropRecord(p, r))
  BY <1>5, <1>7, <1>12 DEF Locked, PastTheGate
<1> QED BY <1>4, <1>8, <1>9, <1>10, <1>11, <1>12 DEF Writes

(* A record goes at the hands of its owner's repository, or when nothing is left to
   recover; never a best-effort one at the hands of a strict command, never one of a
   newer version (require_recovery_opt_in, load_all). *)
THEOREM RecordsOnlyByOwnerHolds == BookSpec => RecordsOnlyByOwner
<1>1. BookInv /\ [BookNext]_bookVars =>
        [\A rec \in (records \ records') \ {Newer} :
           \E p \in Procs :
             /\ lock = p
             /\ job[p].strict => rec.strict
             /\ \/ rec.root = job[p].root
                \/ Stale(rec)
                \/ rec.kind = "artifact" /\ rec.side = "store"]_bookVars
  BY RecordGone
<1> QED BY <1>1, BookInvariant, PTL DEF BookSpec, RecordsOnlyByOwner

(***************************************************************************)
(* The store implements StoreCatalog                                       *)
(***************************************************************************)

(* The catalog StoreCatalog is instantiated with. *)
Book == [i \in Ids |-> [x \in Items |-> Converted(ItemsOf(i)[x])]]

CatalogTyped ==
  Book \in [Ids -> [Items -> {"absent", "attached", "detached", "unreachable", "orphaned"}]]

(* It is a catalog. *)
LEMMA BookTyped ==
  ASSUME StoreTypeOK
  PROVE  CatalogTyped
<1>1. \A i \in Ids : ItemsOf(i) \in [Items -> LegacyStates \cup {"absent"}]
  BY ItemsTyped DEF StoreTypeOK, ManifestsTyped
<1>2. \A s \in LegacyStates \cup {"absent"} :
        Converted(s) \in {"absent", "attached", "detached", "unreachable", "orphaned"}
  BY DEF LegacyStates, OwnershipStates, Converted
<1> QED BY <1>1, <1>2 DEF Book, CatalogTyped

(* A step that moves the states as it may is a step of StoreCatalog, or none. *)
LEMMA CatalogStep ==
  ASSUME CatalogTyped, CatalogTyped', CatalogMoves
  PROVE  [Catalog!CatalogNext]_Book
<1> DEFINE Words == {"absent", "attached", "detached", "unreachable", "orphaned"}
<1>1. Book \in [Ids -> [Items -> Words]] /\ Book' \in [Ids -> [Items -> Words]]
  BY DEF CatalogTyped
<1>2. \A i \in Ids, x \in Items :
        Book[i][x] = Converted(State(i, x)) /\ Book'[i][x] = Converted(State(i, x))'
  BY DEF Book, State
<1>3. /\ Converted("absent") = "absent" /\ Converted("attached") = "attached"
      /\ Converted("orphaned") = "orphaned"
  BY DEF Converted
<1>4. CASE Kept
  <2>1. \A i \in Ids, x \in Items : Book'[i][x] = Book[i][x]
    BY <1>2, <1>4 DEF Kept
  <2>2. \A i \in Ids : Book'[i] = Book[i]
    BY <1>1, <2>1
  <2> QED BY <1>1, <2>2
<1>5. ASSUME NEW i \in Ids, NEW x \in Items, Shelved(i, x)
      PROVE  Catalog!CatalogNext \/ Book' = Book
  <2>1. /\ Book[i][x] \in {"absent", "attached"} /\ Book'[i][x] = "attached"
        /\ \A j \in Ids, y \in Items : <<j, y>> # <<i, x>> => Book'[j][y] = Book[j][y]
    BY <1>2, <1>3, <1>5 DEF Shelved, Converted
  <2>2. Book' = [Book EXCEPT ![i][x] = "attached"]
    <3>1. Book'[i] = [Book[i] EXCEPT ![x] = "attached"]
      BY <1>1, <2>1
    <3>2. \A j \in Ids \ {i} : Book'[j] = Book[j]
      BY <1>1, <2>1
    <3> QED BY <1>1, <3>1, <3>2
  <2>3. CASE Book[i][x] = "absent"
    BY <2>2, <2>3 DEF Catalog!CatalogNext, Catalog!Shelve, Book
  <2>4. CASE Book[i][x] = "attached"
    BY <1>1, <2>2, <2>4
  <2> QED BY <2>1, <2>3, <2>4
<1>6. ASSUME NEW i \in Ids, Collected(i)
      PROVE  Catalog!CatalogNext
  <2> DEFINE gone == {x \in Items : State(i, x) = "orphaned" /\ State(i, x)' = "absent"}
  <2>1. /\ \A x \in Items : Book'[i][x] = IF x \in gone THEN "absent" ELSE Book[i][x]
        /\ \A x \in gone : Book[i][x] = "orphaned"
        /\ \A j \in Ids \ {i}, x \in Items : Book'[j][x] = Book[j][x]
    BY <1>2, <1>3, <1>6 DEF Collected, Converted
  <2>2. gone \in SUBSET {x \in Items : Book[i][x] = "orphaned"}
    BY <2>1
  <2> HIDE DEF gone
  <2>3. Book' = [Book EXCEPT ![i] = [x \in Items |-> IF x \in gone THEN "absent" ELSE @[x]]]
    <3>1. Book'[i] = [x \in Items |-> IF x \in gone THEN "absent" ELSE Book[i][x]]
      BY <1>1, <2>1
    <3>2. \A j \in Ids \ {i} : Book'[j] = Book[j]
      BY <1>1, <2>1
    <3> QED BY <1>1, <3>1, <3>2
  <2> QED BY <2>2, <2>3 DEF Catalog!CatalogNext, Catalog!Collect, Book
<1> QED BY <1>4, <1>5, <1>6 DEF CatalogMoves

(* The store implements StoreCatalog: an item appears attached, and only an orphaned
   one ever disappears, whatever happens to checkouts, index, records and processes. *)
THEOREM ImplementsCatalogHolds == BookSpec => ImplementsCatalog
<1>1. StoreInit => Catalog!CatalogInit
  BY BookInit, BookTyped DEF BookInv, Catalog!CatalogInit, CatalogTyped, Book
<1>2. BookInv => CatalogTyped
  BY BookTyped DEF BookInv
<1>3. BookInv /\ CatalogTyped /\ CatalogTyped' /\ [BookNext]_bookVars => [Catalog!CatalogNext]_Book
  BY BookNextInv, CatalogStep
<1> QED BY <1>1, <1>2, <1>3, BookInvariant, PTL DEF BookSpec, ImplementsCatalog, Catalog!CatalogSpec, Book

(***************************************************************************)
(* What a report finds                                                     *)
(***************************************************************************)

(* store verify misses no canonical file at any moment: adds place before they save,
   gc saves before it deletes, recovery goes by the file (check_canonical_store_item). *)
THEOREM ItemsHaveFilesHolds == BookSpec => []ItemsHaveFiles
<1>1. ASSUME BookInv PROVE ItemsHaveFiles
  <2>1. \A i \in Ids : CanonicalIssues(i) = {}
    BY <1>1 DEF BookInv, FilesListed, CanonicalIssues, Held, State
  <2>2. ASSUME NEW issue \in VerifyIssues PROVE issue[1] # "CanonicalStoreMissing"
    <3>1. CASE issue \in ScanIssues
      BY <3>1 DEF ScanIssues
    <3>2. ASSUME NEW i \in Scanned, issue \in CanonicalIssues(i) \cup AssociationIssues(i)
          PROVE  issue[1] # "CanonicalStoreMissing"
      <4>1. issue \in AssociationIssues(i)
        BY <2>1, <3>2 DEF Scanned
      <4> QED BY <4>1 DEF AssociationIssues
    <3> QED BY <2>2, <3>1, <3>2 DEF VerifyIssues
  <2> QED BY <2>2 DEF ItemsHaveFiles, IssueCodes
<1> QED BY <1>1, BookInvariant, PTL

(* store verify finds no path that the index gives one RepoId and that resolves to
   another (verify_associated_local_repo). *)
THEOREM RootsUnambiguousHolds == BookSpec => []RootsUnambiguous
<1>1. ASSUME BookInv PROVE RootsUnambiguous
  <2>1. ASSUME NEW i \in Scanned, index[i] # Nothing, index[i].root # Nothing
        PROVE  ResolvedReadOnly(index[i].root) = {i}
    <3> DEFINE r == index[i].root
    <3>1. i \in Ids /\ Format(i) = "v3"
      BY <2>1 DEF Scanned, Unreadable
    <3>2. Indexed("root", r) = {i}
      BY <1>1, <2>1, <3>1 DEF BookInv, RootsUnique, Indexed
    <3>3. Associated(r, CommonDir(r)) = {i}
      BY <3>2 DEF Associated
    <3> QED BY <3>1, <3>3 DEF ResolvedReadOnly
  <2>2. ASSUME NEW i \in Scanned, NEW issue \in AssociationIssues(i)
        PROVE  issue[1] # "LocalRepositoryAssociationMismatch"
    BY <2>1 DEF AssociationIssues
  <2>3. ASSUME NEW issue \in VerifyIssues PROVE issue[1] # "LocalRepositoryAssociationMismatch"
    <3>1. CASE issue \in ScanIssues
      BY <3>1 DEF ScanIssues
    <3>2. ASSUME NEW i \in Scanned, issue \in CanonicalIssues(i)
          PROVE  issue[1] # "LocalRepositoryAssociationMismatch"
      <4>1. PICK x \in Held(i) : issue = <<"CanonicalStoreMissing", i, x>>
        BY <3>2 DEF CanonicalIssues
      <4> QED BY <4>1
    <3> QED BY <2>2, <2>3, <3>1, <3>2 DEF VerifyIssues
  <2> QED BY <2>3 DEF RootsUnambiguous, IssueCodes
<1> QED BY <1>1, BookInvariant, PTL

(* A file nobody answers for was not answered for before, or a gc has just ended. *)
LEMMA OrphansStep ==
  ASSUME BookInv, [BookNext]_bookVars, NEW i \in Ids, NEW x \in Items, x \in OrphanStoreItems(i)',
         ~AnsweredFor(i, x)'
  PROVE  \/ x \in OrphanStoreItems(i) /\ ~AnsweredFor(i, x)
         \/ \E p \in Procs : job'[p] = Nothing /\ job[p] # Nothing /\ <<i, x>> \in job[p].plan
<1>1. <<i, x>> \in files' /\ State(i, x)' = "absent"
  BY DEF OrphanStoreItems, Held, State
<1>2. /\ \A rec \in records' : ~(rec.kind = "operation" /\ ~rec.final /\ rec.id = i /\ rec.item = x)
      /\ \A p \in Procs : job'[p] # Nothing => <<i, x>> \notin job'[p].plan
  BY DEF AnsweredFor
<1>3. CASE UNCHANGED <<files, job>> /\ (\A rec \in records : rec \in records' \/ rec.kind = "newer")
           /\ State(i, x) = State(i, x)'
  BY <1>1, <1>2, <1>3 DEF OrphanStoreItems, Held, State, AnsweredFor
<1>4. CASE Rest \/ UNCHANGED bookVars
  BY <1>3, <1>4 DEF Rest, bookVars, store, State, ItemsOf
<1>5. CASE StoreUserAct
  <2>1. State(i, x) = State(i, x)'
    <3>1. ASSUME NEW j \in Ids, CorruptManifest(j) PROVE State(i, x) = State(i, x)'
      BY <3>1, ManifestCorrupted DEF CorruptManifest, BookInv, StoreTypeOK, ManifestsTyped, State
    <3> QED BY <1>5, <3>1, UserActs DEF BookInv, State, ItemsOf
  <2>2. UNCHANGED <<files, job>> /\ \A rec \in records : rec \in records' \/ rec.kind = "newer"
    BY <1>5, UserActs DEF BookInv, Newer
  <2> QED BY <1>3, <2>1, <2>2
<1>6. ASSUME NEW p \in Procs, Start(p) \/ Run(p) \/ Abandon(p)
      PROVE  \/ x \in OrphanStoreItems(i) /\ ~AnsweredFor(i, x)
             \/ \E q \in Procs : job'[q] = Nothing /\ job[q] # Nothing /\ <<i, x>> \in job[q].plan
  <2>1. Ready(p)
    BY DEF BookInv, Ready, JobsTyped, ManifestsTyped, StoreTypeOK, RecordsHandled, ItemsAtWork, JobsShaped
  <2>2. Accounted(p) /\ Flow(p) /\ (Writes(p) \/ Idles(p))
    BY <1>6, <2>1, ItemsStep, ProcessFlow, WritesOrIdles DEF Ready
  <2>3. <<i, x>> \in files /\ State(i, x) = "absent"
    <3>1. <<i, x>> \in files
      <4> SUFFICES ASSUME <<i, x>> \in files' \ files PROVE FALSE
        BY <1>1
      <4>1. PICK rec \in records' : rec.kind = "operation" /\ ~rec.final /\ <<i, x>> = <<rec.id, rec.item>>
        BY <2>2 DEF Accounted
      <4> QED BY <1>2, <4>1
    <3> QED BY <1>1, <1>2, <2>2, <3>1 DEF Accounted
  <2>4. ASSUME NEW rec \in records, rec.kind = "operation", ~rec.final, rec.id = i, rec.item = x
        PROVE  FALSE
    <3>1. rec \notin records' /\ rec # Newer
      BY <1>2, <2>4 DEF Newer
    <3>2. Writes(p)
      BY <2>2, <3>1 DEF Idles
    <3> USE DEF AtStep
    <3>3. ASSUME NEW r \in records, CleanRecord(p, r) PROVE FALSE
      BY <2>4, <3>1, <3>3 DEF CleanRecord, Cleanable, Stale, ArtifactPath
    <3>4. ASSUME NEW r \in records, RecoverRecord(p, r) PROVE FALSE
      <4>1. r = rec /\ manifest' = [manifest EXCEPT ![i] = Listed(i, x)] /\ Format(i) # "v2"
        BY <2>3, <2>4, <3>1, <3>4 DEF RecoverRecord, Interrupted, Loadable
      <4>2. State(i, x)' = "attached"
        BY <2>1, <4>1, ItemListed DEF Ready
      <4> QED BY <1>1, <4>2
    <3>5. ASSUME NEW r \in records, Own(p, r), Finalize(p, r) \/ DropRecord(p, r) PROVE FALSE
      <4>1. r = rec /\ job[p] # Nothing /\ job[p].step \in {"final", "drop"}
        BY <3>1, <3>5 DEF Finalize, DropRecord
      <4> QED BY <2>1, <2>3, <2>4, <4>1 DEF Ready, Handled, AtWork
    <3>6. ~(\E y \in Items : BeginAdd(p, y)) /\ ~(\E side \in {"repo", "store"} : BeginRefresh(p, side))
      BY <3>1 DEF BeginAdd, BeginRefresh
    <3>7. ~Migrate(p) /\ ~(\E r : Place(p, r) \/ SaveAdded(p, r))
      BY <3>1 DEF Migrate, Place, SaveAdded
    <3>8. ~(\E j \in Ids : Collect(p, j) \/ \E y \in Items : DeleteFile(p, j, y))
      BY <3>1 DEF Collect, DeleteFile
    <3> QED BY <3>2, <3>3, <3>4, <3>5, <3>6, <3>7, <3>8 DEF Writes
  <2>5. ASSUME NEW q \in Procs, job[q] # Nothing, <<i, x>> \in job[q].plan
        PROVE  job'[q] = Nothing
    <3> SUFFICES ASSUME job'[q] # Nothing PROVE FALSE
      OBVIOUS
    <3>1. q = p
      BY <1>2, <2>2, <2>5 DEF Flow
    <3>2. job[p].step \in {"collect", "delete"} /\ job[p] \in StoreJobs /\ JobsTyped
      BY <2>1, <2>5, <3>1 DEF Ready, Shaped
    <3>3. Run(p)
      <4>1. Start(p) => job[p] = Nothing
        BY <2>1, Started DEF StartJob, Ready
      <4>2. Abandon(p) => job'[p] = Nothing
        BY <3>2, Left DEF Abandon
      <4> QED BY <1>6, <2>5, <3>1, <4>1, <4>2
    <3>4. ASSUME NEW j \in Ids, Collect(p, j) PROVE FALSE
      <4>1. GoTo(p, "delete")
        BY <3>1, <3>2, <3>4, Left DEF Collect
      <4>2. job'[p].plan = job[p].plan
        BY <2>5, <3>1, <3>2, <4>1, WentTo DEF Steps
      <4> QED BY <1>2, <2>5, <3>1, <4>2
    <3>5. ASSUME NEW j \in Ids, NEW y \in Items, DeleteFile(p, j, y) PROVE FALSE
      <4> DEFINE rest == job[p].plan \ {<<j, y>>}
                 s == IF \E z \in Items : <<j, z>> \in rest THEN "delete" ELSE "collect"
      <4>1. job' = [job EXCEPT ![p].plan = rest, ![p].step = s]
        BY <3>1, <3>2, <3>5, Left DEF DeleteFile
      <4> HIDE DEF rest, s
      <4>2. job'[p].plan = rest
        BY <3>2, <4>1 DEF JobsTyped, StoreJobs
      <4>3. <<i, x>> \in rest
        BY <1>1, <2>5, <3>1, <3>5 DEF DeleteFile, rest
      <4> QED BY <1>2, <3>1, <4>2, <4>3
    <3> QED BY <3>2, <3>3, <3>4, <3>5, AtItsStep
  <2> QED BY <2>3, <2>4, <2>5 DEF OrphanStoreItems, Held, State, AnsweredFor
<1> QED BY <1>4, <1>5, <1>6 DEF BookNext

(* A canonical file is in nobody's book only when a gc ended between saving the
   manifest and deleting the file (ops/gc.rs run). *)
THEOREM OrphansOnlyFromGcHolds == BookSpec => OrphansOnlyFromGc
<1>1. BookInv /\ [BookNext]_bookVars =>
        [\A i \in Ids : \A x \in OrphanStoreItems(i)' :
           AnsweredFor(i, x)'
           \/ (x \in OrphanStoreItems(i) /\ ~AnsweredFor(i, x))
           \/ \E p \in Procs : job'[p] = Nothing /\ job[p] # Nothing /\ <<i, x>> \in job[p].plan]_bookVars
  <2>1. \A i \in Ids : OrphanStoreItems(i)' \subseteq Items
    BY DEF OrphanStoreItems
  <2> QED BY <2>1, OrphansStep
<1> QED BY <1>1, BookInvariant, PTL DEF BookSpec, OrphansOnlyFromGc
=============================================================================
