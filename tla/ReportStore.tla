------------------------------ MODULE ReportStore ------------------------------
(***************************************************************************)
(* ReportRepository and the migration of its SQLite file.  A repository    *)
(* runs one operation at a time, in the order of the calls; several        *)
(* repositories of one process (a provider that was mounted again) share   *)
(* the file and the map of migrations in flight.                           *)
(*                                                                         *)
(* disk is the committed file, work[r] the snapshot of r's transaction:    *)
(* what a transaction does is nobody's to see before it commits, so the    *)
(* statements between its first write and its end are one step.  SQLite    *)
(* admits one writer, and refuses to let a snapshot write that is no       *)
(* longer the file.  A kill loses the memory and keeps the file.           *)
(***************************************************************************)
EXTENDS Naturals, FiniteSets, Sequences

CONSTANTS Reports,    \* identifiers of analyses
          Repos,      \* repositories
          Caps,       \* maximumReports of a save, 3 or 10 000 in the code
          TempFiles,  \* abandoned copies of PDFs in the cache
          None,
          MaxCalls,   \* bound on the calls, initialize and close apart
          MaxKills    \* bound on the restarts of the process

(* A file holds finitely many reports.                                     *)
(* What the constants are; MCClients assumes it.                           *)
FileAssumption ==
  /\ IsFiniteSet(Reports) /\ Caps \subseteq Nat
  /\ None \notin [user : Nat, table : Nat, meta : Nat, index : BOOLEAN, rowv : Nat,
                  rows : SUBSET Reports]

VARIABLES disk,    \* [user, table, meta, index, rowv, rows]
          work,    \* Repos -> the snapshot of its transaction, or None
          queue,   \* Repos -> the operations called and not answered
          stage,   \* Repos -> where the operation at the head is
          handle,  \* Repos -> "none", "open", "ready" (initialized) or "closed"
          closing, \* Repos -> closeRequested
          flight,  \* the repository whose migration is in MIGRATION_FLIGHTS
          files,   \* copies not yet deleted
          sweeping,\* some cleanupAbandonedDetailed is running
          calls, kills

vars == <<disk, work, queue, stage, handle, closing, flight, files, sweeping,
          calls, kills>>

Op(kind, id, cap) == [kind |-> kind, id |-> id, cap |-> cap]
Initialize == Op("initialize", None, 0)
Operations ==
  [kind : {"read", "deleteAll"}, id : {None}, cap : {0}]
    \cup [kind : {"save"}, id : Reports, cap : Caps]
    \cup [kind : {"delete"}, id : Reports, cap : {0}]

Schema(version, rows) ==
  [user |-> version, table |-> version, meta |-> version,
   index |-> version = 2, rowv |-> version, rows |-> rows]

(* What attestVersionOne and attestVersionTwo accept. *)
AttestedAs(version, d) == d = [Schema(version, d.rows) EXCEPT !.rowv = d.rowv]

(* Files the program meets: none yet, either version, a newer one, tables  *)
(* without a version and an old version that was tampered with.            *)
Met == {Schema(0, {})} \cup {Schema(1, {i}) : i \in Reports} \cup {Schema(2, {i}) : i \in Reports}
         \cup {[Schema(2, Reports) EXCEPT !.user = 3],
               [Schema(1, Reports) EXCEPT !.user = 0],
               [Schema(1, Reports) EXCEPT !.index = TRUE]}

Init ==
  /\ disk \in Met
  /\ work = [r \in Repos |-> None]
  /\ queue = [r \in Repos |-> <<>>]
  /\ stage = [r \in Repos |-> "idle"]
  /\ handle = [r \in Repos |-> "none"]
  /\ closing = [r \in Repos |-> FALSE]
  /\ flight = None
  /\ files = TempFiles
  /\ sweeping = FALSE
  /\ calls = 0
  /\ kills = 0

TypeOK ==
  /\ disk.rows \subseteq Reports /\ {disk.user, disk.table, disk.meta, disk.rowv} \subseteq 0..3
  /\ \A r \in Repos :
       /\ work[r] # None => work[r].rows \subseteq Reports
       /\ \A i \in DOMAIN queue[r] : queue[r][i] \in Operations \cup {Initialize, Op("close", None, 0)}
  /\ stage \in [Repos -> {"idle", "begin", "joined", "lock", "counted", "written", "cleaning"}]
  /\ handle \in [Repos -> {"none", "open", "ready", "closed"}]
  /\ closing \in [Repos -> BOOLEAN] /\ sweeping \in BOOLEAN
  /\ flight \in Repos \cup {None} /\ files \subseteq TempFiles

Head1(r) == Head(queue[r])
AtHead(r, kinds, s) == queue[r] # <<>> /\ Head1(r).kind \in kinds /\ stage[r] = s
WrittenByAnother(r) == \E q \in Repos \ {r} : stage[q] \in {"lock", "written", "cleaning"} /\ work[q] # None

(* The head of the queue is answered, the next operation may begin. *)
Answered(r) ==
  /\ queue' = [queue EXCEPT ![r] = Tail(@)]
  /\ stage' = [stage EXCEPT ![r] = "idle"]
  /\ work' = [work EXCEPT ![r] = None]
Refused(r) ==
  Answered(r) /\ UNCHANGED <<disk, handle, closing, flight, files, sweeping, calls, kills>>
Moves(r, to, w) ==
  /\ stage' = [stage EXCEPT ![r] = to]
  /\ work' = [work EXCEPT ![r] = w]
  /\ UNCHANGED <<disk, queue, handle, closing, files, calls, kills>>

(* A call is queued unless close was called; what it was called with is    *)
(* captured.  Callers have the repository from the provider, initialized.  *)
Call(r, op) ==
  /\ ~closing[r] /\ handle[r] = "ready" /\ calls < MaxCalls
  /\ queue' = [queue EXCEPT ![r] = Append(@, op)]
  /\ calls' = calls + 1
  /\ UNCHANGED <<disk, work, stage, handle, closing, flight, files, sweeping, kills>>

(* The provider initializes a repository that is not, and may try again.   *)
CallInitialize(r) ==
  /\ ~closing[r] /\ handle[r] # "ready"
  /\ \A i \in DOMAIN queue[r] : queue[r][i] # Initialize
  /\ queue' = [queue EXCEPT ![r] = Append(@, Initialize)]
  /\ UNCHANGED <<disk, work, stage, handle, closing, flight, files, sweeping, calls, kills>>

Close(r) ==
  /\ ~closing[r]
  /\ closing' = [closing EXCEPT ![r] = TRUE]
  /\ queue' = [queue EXCEPT ![r] = Append(@, Op("close", None, 0))]
  /\ UNCHANGED <<disk, work, stage, handle, flight, files, sweeping, calls, kills>>

CloseHandle(r) ==
  /\ AtHead(r, {"close"}, "idle")
  /\ handle' = [handle EXCEPT ![r] = "closed"]
  /\ Answered(r)
  /\ UNCHANGED <<disk, closing, flight, files, sweeping, calls, kills>>

---------------------------------------------------------------------------
(* initialize: open the file once, then migrate it or wait for the         *)
(* migration that another repository began.                                *)

Open(r) ==
  /\ AtHead(r, {"initialize"}, "idle") /\ handle[r] = "none"
  /\ handle' = [handle EXCEPT ![r] = "open"]
  /\ UNCHANGED <<disk, work, queue, stage, closing, flight, files, sweeping, calls, kills>>

Join(r) ==
  /\ AtHead(r, {"initialize"}, "idle") /\ handle[r] = "open"
  /\ Moves(r, IF flight = None THEN "begin" ELSE "joined", None)
  /\ flight' = IF flight = None THEN r ELSE flight
  /\ UNCHANGED sweeping

(* The table of the lock is the first statement: a write, so that nothing  *)
(* is read before the transaction is the only writer.                      *)
Lock(r) ==
  /\ AtHead(r, {"initialize"}, "begin") /\ ~WrittenByAnother(r)
  /\ Moves(r, "lock", disk)
  /\ UNCHANGED <<flight, sweeping>>

(* Version 0 must have no table at all, version 1 must be exactly that of  *)
(* the first release; its rows keep their contents and change version.     *)
Migrated_KeepsRows(d) ==
  IF d.user < 2 THEN [Schema(2, d.rows) EXCEPT !.rowv = d.rowv] ELSE d
Migrated(d) ==
  CASE d.user = 0 /\ d.table = 0 -> Schema(2, d.rows)
    [] d.user = 1 /\ AttestedAs(1, d) -> Schema(2, d.rows)
    [] d.user = 2 -> d
    [] OTHER -> None

(* The flight ends for the repository that made it and for all who joined. *)
FlightEnds(r, ok) ==
  LET crew == {r} \cup {q \in Repos : stage[q] = "joined"} IN
  /\ flight' = None
  /\ queue' = [q \in Repos |-> IF q \in crew THEN Tail(queue[q]) ELSE queue[q]]
  /\ stage' = [q \in Repos |-> IF q \in crew THEN "idle" ELSE stage[q]]
  /\ handle' = [q \in Repos |-> IF q \in crew /\ ok THEN "ready" ELSE handle[q]]
  /\ work' = [work EXCEPT ![r] = None]
  /\ UNCHANGED <<closing, files, sweeping, calls, kills>>

Migrate(r) ==
  /\ AtHead(r, {"initialize"}, "lock")
  /\ LET d == Migrated(work[r]) IN
       /\ d # None /\ AttestedAs(2, d)
       /\ disk' = d
  /\ FlightEnds(r, TRUE)

MigrationFails(r) ==
  /\ \E s \in {"begin", "lock"} : AtHead(r, {"initialize"}, s)
  /\ UNCHANGED disk
  /\ FlightEnds(r, FALSE)

---------------------------------------------------------------------------
(* The operations on reports.                                              *)

Read(r) == AtHead(r, {"read"}, "idle") /\ Refused(r)

(* A statement fails: the transaction is rolled back and the call rejected.*)
Fails(r) ==
  /\ queue[r] # <<>> /\ Head1(r).kind # "close" /\ stage[r] \in {"idle", "counted", "written"}
  /\ Refused(r)

(* The count is read in the transaction of the write it allows. *)
Count(r) ==
  /\ AtHead(r, {"save", "deleteAll"}, "idle")
  /\ Head1(r).kind = "save" => Cardinality(disk.rows) < Head1(r).cap
  /\ Moves(r, "counted", disk)
  /\ UNCHANGED <<flight, sweeping>>

(* SQLite lets a snapshot write only while it is the file.                 *)
MayWrite_Always(r) == ~WrittenByAnother(r)
MayWrite(r) == ~WrittenByAnother(r) /\ work[r] = disk

Insert(r) ==
  /\ AtHead(r, {"save"}, "counted") /\ MayWrite(r)
  /\ Head1(r).id \notin disk.rows
  /\ Moves(r, "written", [disk EXCEPT !.rows = @ \cup {Head1(r).id}])
  /\ UNCHANGED <<flight, sweeping>>

Commit(r) ==
  /\ AtHead(r, {"save"}, "written")
  /\ disk' = work[r]
  /\ Answered(r)
  /\ UNCHANGED <<handle, closing, flight, files, sweeping, calls, kills>>

Delete(r) ==
  /\ AtHead(r, {"delete"}, "idle") /\ ~WrittenByAnother(r)
  /\ disk' = [disk EXCEPT !.rows = @ \ {Head1(r).id}]
  /\ Answered(r)
  /\ UNCHANGED <<handle, closing, flight, files, sweeping, calls, kills>>

(* deleteAll clears the table, and within the same transaction has the     *)
(* registry delete what is left of the PDFs.                               *)
DeleteRows(r) ==
  /\ AtHead(r, {"deleteAll"}, "counted") /\ MayWrite(r)
  /\ Moves(r, "cleaning", [disk EXCEPT !.rows = {}])
  /\ sweeping' = TRUE
  /\ UNCHANGED flight

(* The receipt says that all that was attempted was deleted and nothing    *)
(* was refused or is in use.                                               *)
CleanupVerified(r) ==
  /\ AtHead(r, {"deleteAll"}, "cleaning") /\ files = {}
  /\ disk' = work[r]
  /\ sweeping' = FALSE
  /\ Answered(r)
  /\ UNCHANGED <<handle, closing, flight, files, calls, kills>>

(* A receipt that is not verified rolls the rows back.                     *)
RolledBack_Commits(r) == disk' = work[r]
RolledBack(r) == UNCHANGED disk

CleanupUnverified(r) ==
  /\ AtHead(r, {"deleteAll"}, "cleaning")
  /\ RolledBack(r)
  /\ sweeping' = FALSE
  /\ Answered(r)
  /\ UNCHANGED <<handle, closing, flight, files, calls, kills>>

(* After cleanupTimeoutMs; the registry goes on. *)
CleanupTimesOut_Late(r) == AtHead(r, {"deleteAll"}, "cleaning") /\ ~sweeping /\ Refused(r)
CleanupTimesOut(r)      == AtHead(r, {"deleteAll"}, "cleaning") /\ Refused(r)

(* TempFileRegistry deletes a copy. *)
Sweep == \E f \in files :
  /\ sweeping
  /\ files' = files \ {f}
  /\ UNCHANGED <<disk, work, queue, stage, handle, closing, flight, sweeping, calls, kills>>

Kill ==
  /\ kills < MaxKills
  /\ kills' = kills + 1
  /\ work' = [r \in Repos |-> None]
  /\ queue' = [r \in Repos |-> <<>>]
  /\ stage' = [r \in Repos |-> "idle"]
  /\ handle' = [r \in Repos |-> "none"]
  /\ closing' = [r \in Repos |-> FALSE]
  /\ flight' = None
  /\ sweeping' = FALSE
  /\ UNCHANGED <<disk, files, calls>>

(* What the repository and SQLite do; the registry's answer is not theirs. *)
Step(r) ==
  \/ CloseHandle(r) \/ Open(r) \/ Join(r) \/ Lock(r) \/ Migrate(r) \/ MigrationFails(r)
  \/ Read(r) \/ Fails(r) \/ Count(r) \/ Insert(r)
  \/ Commit(r) \/ Delete(r) \/ DeleteRows(r) \/ CleanupTimesOut(r)

Next ==
  \/ \E r \in Repos : \/ Step(r) \/ CleanupVerified(r) \/ CleanupUnverified(r)
                      \/ Close(r) \/ CallInitialize(r)
                      \/ \E op \in Operations : Call(r, op)
  \/ Sweep \/ Kill

Spec == Init /\ [][Next]_vars

(* The queue is promises and timers: it goes on.  The registry may not.    *)
Fairness == \A r \in Repos : WF_vars(Step(r))

---------------------------------------------------------------------------

(* A repository that may be used has the second version of the schema and  *)
(* only rows that recordFromRow can read, whatever was killed, raced or    *)
(* failed before (initialize, migrateReportDatabase).                      *)
ReadyMeansMigrated ==
  \A r \in Repos : handle[r] = "ready" => AttestedAs(2, disk) /\ disk.rowv = 2

(* A report leaves the file only by its own deletion, or by a deleteAll    *)
(* that has seen the copies of the PDFs deleted: no migration, timeout or  *)
(* rollback loses one (deleteAll, migratePhysicalReportDatabase).          *)
NothingLost ==
  [][\A i \in disk.rows \ disk'.rows : \E r \in Repos :
       /\ queue[r] # <<>>
       /\ \/ Head1(r) = Op("delete", i, 0)
          \/ Head1(r).kind = "deleteAll" /\ files = {}]_vars

(* A save never makes the reports more than its own plan allows, whatever  *)
(* others saved since it was called (enqueuePreparedSave).                 *)
CapRespected ==
  [][Cardinality(disk'.rows) > Cardinality(disk.rows) =>
       \E r \in Repos : /\ queue[r] # <<>> /\ queue'[r] # queue[r]
                        /\ Cardinality(disk'.rows) <= Head1(r).cap]_vars

(* Every call is answered, the one to a cleanup that never answers too     *)
(* (withTimeout, enqueueAuthorized).                                       *)
EveryCallAnswered == \A r \in Repos : []<>(queue[r] = <<>>)
=============================================================================
