------------------------------- MODULE Workspace -------------------------------
(***************************************************************************)
(* WorkspaceRepository: saved versions of a resume with their snapshots,   *)
(* and tracked jobs that may link to a version.  One repository owns the   *)
(* file (WorkspaceProvider); its operations run one at a time in the order *)
(* of the calls, each in an exclusive transaction whose statements are     *)
(* steps here.  A statement that fails, and a kill, roll it back.  The     *)
(* foreign keys of the file are not relied upon.                           *)
(* Rows are numbered in the order in which idFactory issued their names,   *)
(* which is the order of their creation times.                             *)
(***************************************************************************)
EXTENDS Naturals, FiniteSets, Sequences

CONSTANTS FreeVersions, ProVersions, \* 1 and 200 in the code
          FreeJobs, ProJobs,         \* 3 and 500
          MaxSnapshots,              \* MAX_SNAPSHOTS_PER_VERSION, 100
          None,
          MaxIds, MaxCalls, MaxKills \* bounds on the names, calls and restarts

(* What the constants are; MCClients assumes it.                           *)
CapsAssumption == {FreeVersions, ProVersions, FreeJobs, ProJobs} \subseteq Nat

VARIABLES disk,    \* [schema, versions, snapshots, jobs], committed
          work,    \* the transaction of the operation at the head, or None
          queue,   \* operations called and not answered
          stage,   \* of the head: statements already run
          handle,  \* "none", "ready" (initialized) or "closed"
          closing, \* closeRequested
          issued,  \* what the names 1, 2 ... were issued for
          calls, kills

vars == <<disk, work, queue, stage, handle, closing, issued, calls, kills>>

Issued(kind) == {i \in DOMAIN issued : issued[i] = kind}
Version(i, latest) == [id |-> i, latest |-> latest]
Snapshot(i, v) == [id |-> i, of |-> v]
Job(i, link) == [id |-> i, link |-> link]
With(rows, i) == {x \in rows : x.id = i}
SnapshotsOf(d, v) == {s \in d.snapshots : s.of = v}

Empty == [schema |-> "none", versions |-> {}, snapshots |-> {}, jobs |-> {}]
Used == [schema |-> "one", versions |-> {Version(1, 2)}, snapshots |-> {Snapshot(2, 1)},
         jobs |-> {Job(3, 1)}]

Init ==
  /\ \/ disk = Empty /\ issued = <<>>
     \/ disk \in {Used, [Used EXCEPT !.schema = "other"]} /\ issued = <<"version", "snapshot", "job">>
  /\ work = None /\ queue = <<>> /\ stage = 0
  /\ handle = "none" /\ closing = FALSE
  /\ calls = 0 /\ kills = 0

Typed(d) ==
  /\ d.schema \in {"none", "tables", "one", "other"}
  /\ \A v \in d.versions : v \in [id : Issued("version"), latest : Issued("snapshot")]
  /\ \A s \in d.snapshots : s \in [id : Issued("snapshot"), of : Issued("version")]
  /\ \A j \in d.jobs : j \in [id : Issued("job"), link : Issued("version") \cup {None}]

TypeOK ==
  /\ Typed(disk) /\ work # None => Typed(work)
  /\ stage \in 0..3 /\ handle \in {"none", "ready", "closed"} /\ closing \in BOOLEAN
  /\ issued \in Seq({"version", "snapshot", "job"}) /\ Len(issued) <= MaxIds

---------------------------------------------------------------------------
(* The calls.  Names are issued and the plan is judged when the call is    *)
(* made (planCaps); the transaction may run much later.                    *)

Call(op, kinds) ==
  /\ ~closing /\ handle = "ready" /\ calls < MaxCalls
  /\ Len(issued) + Len(kinds) <= MaxIds
  /\ queue' = Append(queue, op)
  /\ issued' = issued \o kinds
  /\ calls' = calls + 1
  /\ UNCHANGED <<disk, work, stage, handle, closing, kills>>

SaveVersion(cap) ==
  LET i == Len(issued) + 1 IN
  Call([kind |-> "saveVersion", id |-> i, snapshot |-> i + 1, cap |-> cap], <<"version", "snapshot">>)
AddSnapshot(v) ==
  Call([kind |-> "addSnapshot", id |-> v, snapshot |-> Len(issued) + 1], <<"snapshot">>)
DeleteVersion(v) == Call([kind |-> "deleteVersion", id |-> v], <<>>)
SaveNewJob(link, cap) ==
  Call([kind |-> "saveJob", id |-> Len(issued) + 1, link |-> link, cap |-> cap], <<"job">>)
SaveOldJob(j, link, cap) ==
  Call([kind |-> "saveJob", id |-> j, link |-> link, cap |-> cap], <<>>)
DeleteJob(j) == Call([kind |-> "deleteJob", id |-> j], <<>>)
DeleteAll == Call([kind |-> "deleteAll"], <<>>)

(* A screen may hold the name of a row that is gone by now.                *)
Askings ==
  \/ \E cap \in {FreeVersions, ProVersions} : SaveVersion(cap)
  \/ \E v \in Issued("version") : AddSnapshot(v) \/ DeleteVersion(v)
  \/ \E link \in Issued("version") \cup {None}, cap \in {FreeJobs, ProJobs} :
       SaveNewJob(link, cap) \/ \E j \in Issued("job") : SaveOldJob(j, link, cap)
  \/ \E j \in Issued("job") : DeleteJob(j)
  \/ DeleteAll

CallInitialize ==
  /\ handle = "none" /\ ~closing /\ queue = <<>>
  /\ queue' = <<[kind |-> "initialize"]>>
  /\ UNCHANGED <<disk, work, stage, handle, closing, issued, calls, kills>>

Close ==
  /\ ~closing /\ closing' = TRUE
  /\ queue' = Append(queue, [kind |-> "close"])
  /\ UNCHANGED <<disk, work, stage, handle, issued, calls, kills>>

---------------------------------------------------------------------------
(* The statements.  Read begins a transaction, or rejects; Write(n, d)     *)
(* runs statement n with the result d; Commit ends the operation.          *)

Runs(kind, n) == queue # <<>> /\ Head(queue).kind = kind /\ stage = n
Op == Head(queue)
Write(kind, n, d) ==
  /\ Runs(kind, n) /\ work' = d /\ stage' = n + 1
  /\ UNCHANGED <<disk, queue, handle, closing, issued, calls, kills>>
Ends == queue' = Tail(queue) /\ work' = None /\ stage' = 0

Rejects ==
  /\ queue # <<>> /\ Op.kind # "close"
  /\ Ends /\ UNCHANGED <<disk, handle, closing, issued, calls, kills>>

(* Nothing, or the file of the first release, is accepted; the tables and  *)
(* the version are written together.                                       *)
CreateSchema == Write("initialize", 0, IF disk.schema = "none" THEN [disk EXCEPT !.schema = "tables"] ELSE disk)
StampVersion == Write("initialize", 1, IF work.schema = "tables" THEN [work EXCEPT !.schema = "one"] ELSE work)

(* The rows are counted in the transaction that adds one.                  *)
HasRoom_AtCap(rows) == Cardinality(rows) <= Op.cap
HasRoom(rows)       == Cardinality(rows) < Op.cap

InsertVersion ==
  /\ Runs("saveVersion", 0)
  /\ HasRoom(disk.versions)
  /\ Write("saveVersion", 0, [disk EXCEPT !.versions = @ \cup {Version(Op.id, Op.snapshot)}])
InsertFirst ==
  Write("saveVersion", 1, [work EXCEPT !.snapshots = @ \cup {Snapshot(Op.snapshot, Op.id)}])

InsertSnapshot ==
  /\ Runs("addSnapshot", 0)
  /\ With(disk.versions, Op.id) # {} /\ Cardinality(SnapshotsOf(disk, Op.id)) < MaxSnapshots
  /\ Write("addSnapshot", 0, [disk EXCEPT !.snapshots = @ \cup {Snapshot(Op.snapshot, Op.id)}])
UpdateLatest ==
  Write("addSnapshot", 1,
        [work EXCEPT !.versions = (@ \ With(@, Op.id)) \cup {Version(Op.id, Op.snapshot)}])

(* UPDATE jobs SET linked_version_id = NULL                                 *)
Unlinked_None(jobs) == jobs
Unlinked(jobs)      == {Job(j.id, IF j.link = Op.id THEN None ELSE j.link) : j \in jobs}

Unlink == Write("deleteVersion", 0, [disk EXCEPT !.jobs = Unlinked(@)])
DropSnapshots == Write("deleteVersion", 1, [work EXCEPT !.snapshots = @ \ SnapshotsOf(work, Op.id)])
DropVersion == Write("deleteVersion", 2, [work EXCEPT !.versions = @ \ With(@, Op.id)])

(* An insertion, or the update of the job of that name.                    *)
PutJob ==
  /\ Runs("saveJob", 0)
  /\ Op.link = None \/ With(disk.versions, Op.link) # {}
  /\ With(disk.jobs, Op.id) = {} => HasRoom(disk.jobs)
  /\ Write("saveJob", 0, [disk EXCEPT !.jobs = (@ \ With(@, Op.id)) \cup {Job(Op.id, Op.link)}])
DropJob == Write("deleteJob", 0, [disk EXCEPT !.jobs = @ \ With(@, Op.id)])

DropAllJobs == Write("deleteAll", 0, [disk EXCEPT !.jobs = {}])
DropAllSnapshots == Write("deleteAll", 1, [work EXCEPT !.snapshots = {}])
DropAllVersions == Write("deleteAll", 2, [work EXCEPT !.versions = {}])

Writes ==
  \/ CreateSchema \/ StampVersion \/ InsertVersion \/ InsertFirst \/ InsertSnapshot
  \/ UpdateLatest \/ Unlink \/ DropSnapshots \/ DropVersion \/ PutJob \/ DropJob
  \/ DropAllJobs \/ DropAllSnapshots \/ DropAllVersions

Length(kind) ==
  CASE kind \in {"saveJob", "deleteJob"} -> 1
    [] kind \in {"initialize", "saveVersion", "addSnapshot"} -> 2
    [] OTHER -> 3

Commit ==
  /\ queue # <<>> /\ Op.kind # "close" /\ stage = Length(Op.kind)
  /\ Op.kind = "initialize" => work.schema = "one"
  /\ disk' = work
  /\ handle' = "ready"
  /\ Ends /\ UNCHANGED <<closing, issued, calls, kills>>

CloseHandle ==
  /\ Runs("close", 0) /\ handle' = "closed"
  /\ Ends /\ UNCHANGED <<disk, closing, issued, calls, kills>>

Kill ==
  /\ kills < MaxKills /\ kills' = kills + 1
  /\ work' = None /\ queue' = <<>> /\ stage' = 0 /\ handle' = "none" /\ closing' = FALSE
  /\ UNCHANGED <<disk, issued, calls>>

Next == Askings \/ CallInitialize \/ Close \/ Writes \/ Rejects \/ Commit \/ CloseHandle \/ Kill

Spec == Init /\ [][Next]_vars

---------------------------------------------------------------------------

(* Whatever failed or was killed between two statements, getVersion can    *)
(* open every version: its latest snapshot is there, and is the newest it  *)
(* has; no snapshot outlives its version, and every job that links to a    *)
(* version links to one that is there (addSnapshot, deleteVersion).        *)
ReferencesSound ==
  /\ \A v \in disk.versions :
       /\ Snapshot(v.latest, v.id) \in disk.snapshots
       /\ \A s \in SnapshotsOf(disk, v.id) : s.id <= v.latest
  /\ \A s \in disk.snapshots : With(disk.versions, s.of) # {}
  /\ \A j \in disk.jobs : j.link # None => With(disk.versions, j.link) # {}

(* A row is added within the limit of the plan its own save was called     *)
(* with, however many saves were waiting then; only an update of a job is  *)
(* allowed beyond it (saveVersion, saveJob).                               *)
CapsHeld ==
  [][/\ Cardinality(disk'.versions) > Cardinality(disk.versions) =>
          Cardinality(disk'.versions) <= Op.cap
     /\ Cardinality(disk'.jobs) > Cardinality(disk.jobs) => Cardinality(disk'.jobs) <= Op.cap]_vars
=============================================================================
