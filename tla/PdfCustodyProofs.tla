-------------------------- MODULE PdfCustodyProofs --------------------------
(***************************************************************************)
(* What the device keeps of a PDF, for any number of callers, requests and *)
(* screens: the registry of the directories of copies, the PDFs of a share *)
(* and, by AnalysisCoordinatorProofs, the copies the coordinator answers   *)
(* for.  Each is proved from its own invariant; a behaviour of all three   *)
(* components together steps one of them and leaves the variables of the   *)
(* others alone.                                                           *)
(***************************************************************************)
EXTENDS MCPdfCustody, AnalysisCoordinatorProofs

-----------------------------------------------------------------------------
(* AnalysisCoordinator: its own behaviours, as far as its variables go.    *)

LEMMA CustodyIsCoordinated == CustodySpec => Spec
<1>1. CustodyInit => Init
  BY DEF CustodyInit
<1>2. [CustodyNext]_custodyVars => [Next]_vars
  BY DEF CustodyNext, custodyVars
<1> QED
  BY <1>1, <1>2, PTL DEF CustodySpec, Spec

\* Every copy in the cache has an owner while privacy is ready; at rest a copy
\* is the committed source, or somebody deletes it, or privacy is blocked; and
\* a busy screen has a task (the cleanups of analysisCoordinator.ts).
THEOREM PdfsReachTheirEnd == CustodySpec => []PdfsHaveAnEnd
<1>1. ReadyMeansClean /\ EveryPdfHasAnEnd /\ BusyHasATask => PdfsHaveAnEnd
  BY DEF PdfsHaveAnEnd
<1> QED
  BY <1>1, CustodyIsCoordinated, PdfsEnd, PTL

\* Only the source on the screen is uploaded, by the activation that is
\* current, when nothing is left to clean up (runNetwork).
THEOREM OnlyTheCurrentIsUploaded == CustodySpec => UploadsCurrent
BY CustodyIsCoordinated, UploadsAreCurrent, PTL

-----------------------------------------------------------------------------
(* TempFileRegistry: the operation whose turn it is alone is under way. *)

StageOf(c) == [kind |-> "stage", by |-> c, n |-> 0]
Queued     == Registry!ToSet(operations)

\* Only the first operation is under way, and a staging waits once.
Turns ==
    /\ \A op \in Registry!Ops : at[op] # "start" => Registry!Turn(op)
    /\ \A i, j \in DOMAIN operations :
         operations[i] = operations[j] /\ operations[i] \in Registry!Stagings => i = j

Waiting ==
    /\ \A op \in Queued \cap Registry!Stagings : caller[op.by] = "staging"
    /\ \A c \in Callers : caller[c] \in {"idle", "staging"} => asks[c] = 0
    /\ \A op \in Queued \cap Registry!Cleanups : caller[op.by] = "held" /\ asks[op.by] # 0

\* What a staging has, wherever it is.
StagingAt(c) ==
    LET place == at[StageOf(c)] IN
    /\ caller[c] = "staging" /\ live[req[c]] = c => place \in {"create", "copy", "inspect", "undo"}
    /\ place \in {"create", "copy", "inspect", "undo"} => live[req[c]] = c
    /\ place \in {"copy", "inspect"} => req[c] \in exists
    /\ place = "inspect" => c \in bytes[req[c]]
    /\ place \in {"acquire", "look", "delete", "verify"} => live[req[c]] = None

\* A cleanup under way has its caller's lease.
CleanupAt(op) == at[op] # "start" => live[req[op.by]] = op.by

\* A sweep that has missed nothing has looked at what it has left.
SweepAt(op) ==
    /\ at[op] = "look" => missed \/ exists \subseteq entries
    /\ at[op] \in {"delete", "verify"} =>
         /\ target \in Requests /\ live[target] = None
         /\ missed \/ exists \subseteq entries \cup {target}

\* A copy is in the directory of its caller's request.
Copies ==
    /\ \A r \in Requests : bytes[r] # {} => r \in exists
    /\ \A r \in Requests : \A c \in bytes[r] : req[c] = r
    /\ \A c \in receipt : caller[c] \in {"held", "gone"}

Kept ==
    /\ Registry!OwnBytesOnly /\ Registry!SourceKept
    /\ Registry!DeletedMeansGone /\ Registry!LiveHasHolder

RegistryInv ==
    /\ Registry!TypeOK /\ Turns /\ Waiting
    /\ \A c \in Callers : StagingAt(c)
    /\ \A op \in Registry!Cleanups : CleanupAt(op)
    /\ \A op \in Registry!Sweeps : SweepAt(op)
    /\ Copies /\ Kept

LEMMA RegistryConstants ==
    /\ None \notin Callers /\ None \notin Requests
    /\ MaxAsks \in Nat /\ MaxSweeps \in Nat /\ MaxRestarts \in Nat
BY CustodyAssumption DEF Registry!RegistryAssumption

LEMMA OperationKinds ==
    /\ \A op \in Registry!Stagings :
         op \in Registry!Ops /\ op.kind = "stage" /\ op.by \in Callers /\ op = StageOf(op.by)
    /\ \A op \in Registry!Cleanups :
         op \in Registry!Ops /\ op.kind = "cleanup" /\ op.by \in Callers
    /\ \A op \in Registry!Sweeps : op \in Registry!Ops /\ op.kind = "sweep"
    /\ \A op \in Registry!Ops :
         op \in Registry!Stagings \/ op \in Registry!Cleanups \/ op \in Registry!Sweeps
    /\ \A c \in Callers : StageOf(c) \in Registry!Stagings /\ StageOf(c).by = c
BY DEF Registry!Stagings, Registry!Cleanups, Registry!Sweeps, Registry!Ops, StageOf

\* The invariant, at the start.
LEMMA RegistryInvInit == Registry!Init => RegistryInv
<1> SUFFICES ASSUME Registry!Init PROVE RegistryInv
  OBVIOUS
<1>1. <<>> \in Seq(Registry!Ops) /\ DOMAIN <<>> = {} /\ Registry!ToSet(<<>>) = {}
  BY DEF Registry!ToSet
<1>2. at = [op \in Registry!Ops |-> "start"] /\ operations = <<>>
  BY DEF Registry!Init
<1>3. Registry!TypeOK
  <2>1. at \in [Registry!Ops -> Registry!Places]
    BY <1>2 DEF Registry!Places
  <2>2. \A op \in Registry!Ops : at[op] # "start" => op \in Registry!ToSet(operations)
    BY <1>2
  <2>3. /\ {} \subseteq Requests /\ bytes \in [Requests -> SUBSET Callers]
        /\ live \in [Requests -> Callers \cup {None}] /\ exists = {} /\ req \in [Callers -> Requests]
        /\ receipt = {} /\ entries = {} /\ target = None /\ missed = FALSE
    BY DEF Registry!Init
  <2>4. /\ caller \in [Callers -> {"idle", "staging", "held", "failed", "gone"}]
        /\ asks \in [Callers -> 0 .. MaxAsks] /\ swept \in 0 .. MaxSweeps
        /\ restarts \in 0 .. MaxRestarts
    BY RegistryConstants DEF Registry!Init
  <2> QED
    BY <1>1, <1>2, <2>1, <2>2, <2>3, <2>4 DEF Registry!TypeOK
<1>4. \A op \in Registry!Ops : at[op] = "start"
  BY <1>2
<1>5. Turns /\ Waiting /\ Queued = {}
  <2>1. \A c \in Callers : asks[c] = 0
    BY DEF Registry!Init
  <2> QED
    BY <1>1, <1>2, <1>4, <2>1 DEF Turns, Waiting, Queued
<1>6. \A c \in Callers : StagingAt(c)
  BY <1>4, OperationKinds, RegistryConstants DEF StagingAt, Registry!Init
<1>7. /\ \A op \in Registry!Cleanups : CleanupAt(op)
      /\ \A op \in Registry!Sweeps : SweepAt(op)
  BY <1>4, OperationKinds DEF CleanupAt, SweepAt
<1>8. Copies /\ Kept
  BY DEF Registry!Init, Copies, Kept, Registry!OwnBytesOnly, Registry!SourceKept,
         Registry!DeletedMeansGone, Registry!LiveHasHolder, Registry!InUse
<1> QED
  BY <1>3, <1>5, <1>6, <1>7, <1>8 DEF RegistryInv

\* Whose turn it is, is alone under way.
LEMMA Alone ==
    ASSUME RegistryInv, NEW op \in Registry!Ops, Registry!Turn(op)
    PROVE  /\ \A o \in Registry!Ops \ {op} : at[o] = "start"
           /\ op \in Queued /\ 1 \in DOMAIN operations /\ operations[1] = op
           /\ operations \in Seq(Registry!Ops) /\ operations # <<>>
<1>1. operations \in Seq(Registry!Ops) /\ operations # <<>> /\ Head(operations) = op
  BY DEF RegistryInv, Registry!TypeOK, Registry!Turn
<1>2. 1 \in DOMAIN operations /\ operations[1] = op
  BY <1>1
<1> QED
  BY <1>1, <1>2 DEF RegistryInv, Turns, Registry!Turn, Queued, Registry!ToSet

\* The operation at the head waits for the file system.
LEMMA AwaitsTurn ==
    ASSUME RegistryInv, NEW op \in Registry!Ops, Registry!Turn(op),
           NEW p \in Registry!Places, Registry!Await(op, p)
    PROVE  /\ at' \in [Registry!Ops -> Registry!Places] /\ operations' = operations
           /\ at'[op] = p /\ \A o \in Registry!Ops \ {op} : at'[o] = "start" /\ at[o] = "start"
           /\ Queued' = Queued /\ Turns'
           /\ \A o \in Registry!Ops : at'[o] # "start" => o \in Queued
<1>1. at' = [at EXCEPT ![op] = p] /\ operations' = operations
  BY DEF Registry!Await
<1>2. at \in [Registry!Ops -> Registry!Places]
  BY DEF RegistryInv, Registry!TypeOK
<1>3. /\ at'[op] = p /\ at' \in [Registry!Ops -> Registry!Places]
      /\ \A o \in Registry!Ops \ {op} : at'[o] = at[o]
  BY <1>1, <1>2
<1> QED
  BY <1>1, <1>3, Alone DEF RegistryInv, Turns, Queued, Registry!Turn

\* The operation at the head is over, and the next one's turn comes.
LEMMA FinishesTurn ==
    ASSUME RegistryInv, NEW op \in Registry!Ops, Registry!Turn(op), Registry!Finish(op)
    PROVE  /\ at' \in [Registry!Ops -> Registry!Places]
           /\ operations' \in Seq(Registry!Ops)
           /\ \A o \in Registry!Ops : at'[o] = "start"
           /\ Turns' /\ Queued' \subseteq Queued /\ Queued \subseteq Queued' \cup {op}
           /\ op \in Registry!Stagings => op \notin Queued'
<1>1. /\ operations \in Seq(Registry!Ops) /\ operations # <<>> /\ operations[1] = op
      /\ at \in [Registry!Ops -> Registry!Places]
  BY Alone DEF RegistryInv, Registry!TypeOK
<1>2. operations' = Tail(operations) /\ at' = [at EXCEPT ![op] = "start"]
  BY DEF Registry!Finish, Registry!Leave
<1>3. /\ operations' \in Seq(Registry!Ops)
      /\ \A i \in DOMAIN operations' : i + 1 \in DOMAIN operations /\ operations'[i] = operations[i + 1]
      /\ \A i \in DOMAIN operations : i = 1 \/ (i - 1 \in DOMAIN operations' /\ operations'[i - 1] = operations[i])
      /\ DOMAIN operations \subseteq Nat /\ DOMAIN operations' \subseteq Nat \ {0}
      /\ 1 \in DOMAIN operations
  BY <1>1, <1>2
<1>4. \A o \in Registry!Ops : at'[o] = "start"
  BY <1>1, <1>2, Alone
<1>5. at' \in [Registry!Ops -> Registry!Places]
  BY <1>1, <1>2 DEF Registry!Places
<1>6. Turns'
  BY <1>3, <1>4 DEF RegistryInv, Turns
<1>7. Queued' \subseteq Queued /\ Queued \subseteq Queued' \cup {op}
  <2>1. ASSUME NEW o \in Queued'
        PROVE  o \in Queued
    <3>1. PICK i \in DOMAIN operations' : operations'[i] = o
      BY <2>1 DEF Queued, Registry!ToSet
    <3> QED
      BY <1>3, <3>1 DEF Queued, Registry!ToSet
  <2>2. ASSUME NEW o \in Queued, o # op
        PROVE  o \in Queued'
    <3>1. PICK i \in DOMAIN operations : operations[i] = o
      BY <2>2 DEF Queued, Registry!ToSet
    <3>2. i - 1 \in DOMAIN operations' /\ operations'[i - 1] = o
      BY <1>1, <1>3, <2>2, <3>1
    <3> QED
      BY <3>2 DEF Queued, Registry!ToSet
  <2> QED
    BY <2>1, <2>2
<1>8. ASSUME op \in Registry!Stagings, op \in Queued'
      PROVE  FALSE
  <2>1. PICK i \in DOMAIN operations' : operations'[i] = op
    BY <1>8 DEF Queued, Registry!ToSet
  <2>2. i + 1 \in DOMAIN operations /\ operations[i + 1] = op /\ i + 1 # 1 /\ i \in Nat
    BY <1>3, <2>1
  <2> QED
    BY <1>1, <1>3, <1>8, <2>2 DEF RegistryInv, Turns
<1> QED
  BY <1>3, <1>4, <1>5, <1>6, <1>7, <1>8

\* An operation joins the fence.
LEMMA Enqueues ==
    ASSUME RegistryInv, NEW op \in Registry!Ops, Registry!Enqueue(op), at' = at,
           op \in Registry!Stagings => op \notin Queued
    PROVE  operations' \in Seq(Registry!Ops) /\ Turns' /\ Queued' = Queued \cup {op}
<1>1. operations \in Seq(Registry!Ops) /\ operations' = Append(operations, op)
  BY DEF RegistryInv, Registry!TypeOK, Registry!Enqueue
<1>2. /\ operations' \in Seq(Registry!Ops)
      /\ DOMAIN operations' = DOMAIN operations \cup {Len(operations) + 1}
      /\ \A i \in DOMAIN operations : operations'[i] = operations[i]
      /\ operations'[Len(operations) + 1] = op
      /\ operations # <<>> => operations' # <<>> /\ Head(operations') = Head(operations)
  BY <1>1
<1>3. Queued' = Queued \cup {op}
  BY <1>2 DEF Queued, Registry!ToSet
<1>4. \A i \in DOMAIN operations : operations[i] \in Queued
  BY DEF Queued, Registry!ToSet
<1>5. Turns'
  BY <1>2, <1>4 DEF RegistryInv, Turns, Registry!Turn
<1> QED
  BY <1>2, <1>3, <1>5

\* stagePdf is called.
LEMMA StagesKeep ==
    ASSUME RegistryInv, NEW c \in Callers, Registry!Stage(c)
    PROVE  RegistryInv'
<1> DEFINE op == StageOf(c)
<1>1. /\ caller[c] = "idle" /\ caller' = [caller EXCEPT ![c] = "staging"] /\ at' = at
      /\ Registry!Enqueue(op)
      /\ UNCHANGED <<exists, bytes, live, req, asks, receipt, entries, target, missed, swept, restarts>>
  BY DEF Registry!Stage, StageOf, Registry!disk, Registry!sweep, Registry!bounds
<1>2. op \in Registry!Stagings /\ op \in Registry!Ops /\ op.by = c
  BY OperationKinds
<1>3. caller \in [Callers -> {"idle", "staging", "held", "failed", "gone"}]
  BY DEF RegistryInv, Registry!TypeOK
<1>4. caller'[c] = "staging" /\ \A d \in Callers \ {c} : caller'[d] = caller[d]
  BY <1>1, <1>3
<1>5. op \notin Queued
  BY <1>1, <1>2 DEF RegistryInv, Waiting
<1> HIDE DEF op
<1>6. operations' \in Seq(Registry!Ops) /\ Turns' /\ Queued' = Queued \cup {op}
  BY <1>1, <1>2, <1>5, Enqueues
<1>7. Registry!TypeOK'
  BY <1>1, <1>3, <1>6 DEF RegistryInv, Registry!TypeOK, Queued
<1>8. Waiting'
  BY <1>1, <1>2, <1>4, <1>6, OperationKinds DEF RegistryInv, Waiting
<1>9. live[req[c]] # c
  BY <1>1, RegistryConstants DEF RegistryInv, Kept, Registry!LiveHasHolder, Registry!InUse,
     Registry!TypeOK
<1>10. \A d \in Callers : StagingAt(d)'
  BY <1>1, <1>4, <1>9 DEF RegistryInv, StagingAt
<1>11. /\ \A o \in Registry!Cleanups : CleanupAt(o)'
       /\ \A o \in Registry!Sweeps : SweepAt(o)'
  BY <1>1 DEF RegistryInv, CleanupAt, SweepAt
<1>12. Copies'
  BY <1>1, <1>3, <1>4 DEF RegistryInv, Copies
<1>13. Registry!OwnBytesOnly' /\ Registry!SourceKept' /\ Registry!DeletedMeansGone'
  BY <1>1, <1>4 DEF RegistryInv, Kept, Registry!OwnBytesOnly, Registry!SourceKept,
     Registry!DeletedMeansGone, Registry!InUse
<1>14. Registry!LiveHasHolder'
  BY <1>1, <1>4, <1>6 DEF RegistryInv, Kept, Registry!LiveHasHolder, Registry!InUse,
     Registry!Asked, Queued, Registry!TypeOK
<1> QED
  BY <1>6, <1>7, <1>8, <1>10, <1>11, <1>12, <1>13, <1>14 DEF RegistryInv, Kept

\* cleanupRequest is called.
LEMMA AsksKeep ==
    ASSUME RegistryInv, NEW c \in Callers, Registry!Cleanup(c)
    PROVE  RegistryInv'
<1> DEFINE op == [kind |-> "cleanup", by |-> c, n |-> asks[c] + 1]
<1>1. /\ caller[c] = "held" /\ asks[c] < MaxAsks /\ asks' = [asks EXCEPT ![c] = @ + 1]
      /\ Registry!Enqueue(op)
      /\ UNCHANGED <<exists, bytes, live, at, req, caller, receipt, entries, target, missed, swept, restarts>>
  BY DEF Registry!Cleanup, Registry!disk, Registry!sweep, Registry!bounds
<1>2. asks \in [Callers -> 0 .. MaxAsks] /\ asks[c] + 1 \in 1 .. MaxAsks
  BY <1>1, RegistryConstants DEF RegistryInv, Registry!TypeOK
<1>3. op \in Registry!Cleanups /\ op.by = c /\ op.kind = "cleanup"
  BY <1>2 DEF Registry!Cleanups
<1>4. /\ asks' \in [Callers -> 0 .. MaxAsks] /\ asks'[c] # 0
      /\ \A d \in Callers \ {c} : asks'[d] = asks[d]
  BY <1>1, <1>2
<1> HIDE DEF op
<1>5. op \in Registry!Ops /\ op \notin Registry!Stagings
  BY <1>3, OperationKinds
<1>6. operations' \in Seq(Registry!Ops) /\ Turns' /\ Queued' = Queued \cup {op}
  BY <1>1, <1>5, Enqueues
<1>7. Registry!TypeOK'
  BY <1>1, <1>4, <1>6 DEF RegistryInv, Registry!TypeOK, Queued
<1>8. Waiting'
  BY <1>1, <1>3, <1>4, <1>5, <1>6, OperationKinds DEF RegistryInv, Waiting
<1>9. \A d \in Callers : StagingAt(d)'
  BY <1>1 DEF RegistryInv, StagingAt
<1>10. /\ \A o \in Registry!Cleanups : CleanupAt(o)'
       /\ \A o \in Registry!Sweeps : SweepAt(o)'
  BY <1>1 DEF RegistryInv, CleanupAt, SweepAt
<1>11. Copies'
  BY <1>1 DEF RegistryInv, Copies
<1>12. Registry!OwnBytesOnly' /\ Registry!SourceKept' /\ Registry!DeletedMeansGone'
  BY <1>1, <1>4 DEF RegistryInv, Kept, Registry!OwnBytesOnly, Registry!SourceKept,
     Registry!DeletedMeansGone, Registry!InUse
<1>13. Registry!LiveHasHolder'
  <2>1. Registry!Asked(c)' /\ \A d : Registry!Asked(d) => Registry!Asked(d)'
    BY <1>3, <1>6 DEF Registry!Asked, Queued
  <2> QED
    BY <1>1, <1>4, <2>1 DEF RegistryInv, Kept, Registry!LiveHasHolder, Registry!InUse, Registry!TypeOK
<1> QED
  BY <1>6, <1>7, <1>8, <1>9, <1>10, <1>11, <1>12, <1>13 DEF RegistryInv, Kept

\* cleanupAbandoned is called.
LEMMA SweepAsked ==
    ASSUME RegistryInv, Registry!CleanupAbandoned
    PROVE  RegistryInv'
<1> DEFINE op == [kind |-> "sweep", by |-> None, n |-> swept + 1]
<1>1. /\ swept < MaxSweeps /\ swept' = swept + 1 /\ Registry!Enqueue(op)
      /\ UNCHANGED <<exists, bytes, live, at, req, caller, asks, receipt, entries, target, missed, restarts>>
  BY DEF Registry!CleanupAbandoned, Registry!disk, Registry!sweep, Registry!caller
<1>2. swept' \in 1 .. MaxSweeps /\ swept' \in 0 .. MaxSweeps
  BY <1>1, RegistryConstants DEF RegistryInv, Registry!TypeOK
<1>3. op \in Registry!Sweeps
  BY <1>1, <1>2 DEF Registry!Sweeps
<1> HIDE DEF op
<1>5. op \in Registry!Ops /\ op \notin Registry!Stagings /\ op \notin Registry!Cleanups
  BY <1>3, OperationKinds
<1>6. operations' \in Seq(Registry!Ops) /\ Turns' /\ Queued' = Queued \cup {op}
  BY <1>1, <1>5, Enqueues
<1>7. Registry!TypeOK'
  BY <1>1, <1>2, <1>6 DEF RegistryInv, Registry!TypeOK, Queued
<1>8. Waiting'
  BY <1>1, <1>5, <1>6 DEF RegistryInv, Waiting
<1>9. \A d \in Callers : StagingAt(d)'
  BY <1>1 DEF RegistryInv, StagingAt
<1>10. /\ \A o \in Registry!Cleanups : CleanupAt(o)'
       /\ \A o \in Registry!Sweeps : SweepAt(o)'
  BY <1>1 DEF RegistryInv, CleanupAt, SweepAt
<1>11. Copies'
  BY <1>1 DEF RegistryInv, Copies
<1>12. Registry!OwnBytesOnly' /\ Registry!SourceKept' /\ Registry!DeletedMeansGone'
  BY <1>1 DEF RegistryInv, Kept, Registry!OwnBytesOnly, Registry!SourceKept,
     Registry!DeletedMeansGone, Registry!InUse
<1>13. Registry!LiveHasHolder'
  <2>1. \A d : Registry!Asked(d) => Registry!Asked(d)'
    BY <1>6 DEF Registry!Asked, Queued
  <2> QED
    BY <1>1, <2>1 DEF RegistryInv, Kept, Registry!LiveHasHolder, Registry!InUse
<1> QED
  BY <1>6, <1>7, <1>8, <1>9, <1>10, <1>11, <1>12, <1>13 DEF RegistryInv, Kept

\* The process ends: every lease and every operation is gone.
LEMMA RestartKeeps ==
    ASSUME RegistryInv, Registry!Restart
    PROVE  RegistryInv'
<1>1. /\ restarts' \in 0 .. MaxRestarts
      /\ live' = [r \in Requests |-> None] /\ operations' = <<>>
      /\ at' = [op \in Registry!Ops |-> "start"]
      /\ caller' = [c \in Callers |-> IF caller[c] = "idle" THEN "idle" ELSE "gone"]
      /\ entries' = {} /\ target' = None /\ missed' = FALSE
      /\ UNCHANGED <<exists, bytes, req, asks, receipt, swept>>
  BY RegistryConstants DEF Registry!Restart, Registry!disk, RegistryInv, Registry!TypeOK
<1>2. <<>> \in Seq(Registry!Ops) /\ DOMAIN <<>> = {} /\ Registry!ToSet(<<>>) = {}
  BY DEF Registry!ToSet
<1>3. (\A op \in Registry!Ops : at'[op] = "start") /\ at' \in [Registry!Ops -> Registry!Places]
  BY <1>1 DEF Registry!Places
<1>4. /\ caller' \in [Callers -> {"idle", "staging", "held", "failed", "gone"}]
      /\ \A c \in Callers : caller'[c] \in {"idle", "gone"}
      /\ \A c \in Callers : caller[c] # "idle" => caller'[c] = "gone"
  BY <1>1
<1>5. Registry!TypeOK'
  BY <1>1, <1>2, <1>3, <1>4 DEF RegistryInv, Registry!TypeOK
<1>6. Turns' /\ Waiting' /\ Queued' = {}
  <2>1. Queued' = {} /\ DOMAIN operations' = {}
    BY <1>1, <1>2 DEF Queued
  <2>2. \A c \in Callers : caller'[c] \in {"idle", "staging"} => asks'[c] = 0
    BY <1>1, <1>4 DEF RegistryInv, Waiting
  <2> QED
    BY <1>3, <2>1, <2>2 DEF Turns, Waiting
<1>7. \A c \in Callers : StagingAt(c)'
  BY <1>3, <1>4, OperationKinds DEF StagingAt
<1>8. /\ \A op \in Registry!Cleanups : CleanupAt(op)'
      /\ \A op \in Registry!Sweeps : SweepAt(op)'
  BY <1>3, OperationKinds DEF CleanupAt, SweepAt
<1>9. Copies'
  BY <1>1, <1>4 DEF RegistryInv, Copies, Registry!TypeOK
<1>10. Kept'
  BY <1>1, <1>4 DEF RegistryInv, Kept, Registry!OwnBytesOnly, Registry!SourceKept,
     Registry!DeletedMeansGone, Registry!LiveHasHolder, Registry!InUse
<1> QED
  BY <1>5, <1>6, <1>7, <1>8, <1>9, <1>10 DEF RegistryInv

\* What a step of the operation at the head has to see to.
LEMMA TurnKeeps ==
    ASSUME RegistryInv, NEW op \in Registry!Ops, Registry!Turn(op),
           (\E p \in Registry!Places : Registry!Await(op, p) /\ caller' = caller) \/ Registry!Finish(op),
           UNCHANGED <<req, asks, swept, restarts>>,
           exists' \subseteq Requests, bytes' \in [Requests -> SUBSET Callers],
           live' \in [Requests -> Callers \cup {None}],
           caller' \in [Callers -> {"idle", "staging", "held", "failed", "gone"}],
           \A c \in Callers : caller'[c] = caller[c] \/ (op \in Registry!Stagings /\ c = op.by),
           \A c \in Callers : live'[req[c]] = c => live[req[c]] = c \/ (op \in Registry!Stagings /\ c = op.by),
           receipt' \subseteq Callers, entries' \subseteq Requests,
           target' \in Requests \cup {None}, missed' \in BOOLEAN,
           op \in Registry!Stagings => StagingAt(op.by)',
           op \in Registry!Cleanups => CleanupAt(op)',
           op \in Registry!Sweeps => SweepAt(op)',
           Copies', Kept'
    PROVE  RegistryInv'
<1>1. /\ at' \in [Registry!Ops -> Registry!Places] /\ operations' \in Seq(Registry!Ops)
      /\ \A o \in Registry!Ops \ {op} : at'[o] = "start" /\ at[o] = "start"
      /\ \A o \in Registry!Ops : at'[o] # "start" => o \in Queued'
      /\ Turns'
  BY AwaitsTurn, FinishesTurn, Alone
<1>2. Registry!TypeOK'
  BY <1>1 DEF RegistryInv, Registry!TypeOK, Queued
<1>3. /\ Queued' \subseteq Queued /\ op \in Queued
      /\ op \in Registry!Stagings /\ ~(caller' = caller) => op \notin Queued'
  BY AwaitsTurn, FinishesTurn, Alone
<1>4. Waiting'
  <2>1. ASSUME NEW o \in Queued' \cap Registry!Stagings
        PROVE  caller'[o.by] = "staging"
    BY <1>3, <2>1, OperationKinds DEF RegistryInv, Waiting
  <2>2. ASSUME NEW o \in Queued' \cap Registry!Cleanups
        PROVE  caller'[o.by] = "held" /\ asks'[o.by] # 0
    BY <1>3, <2>2, OperationKinds DEF RegistryInv, Waiting
  <2>3. \A c \in Callers : caller'[c] \in {"idle", "staging"} => asks'[c] = 0
    BY <1>3 DEF RegistryInv, Waiting
  <2> QED
    BY <2>1, <2>2, <2>3 DEF Waiting
<1>5. \A c \in Callers : StagingAt(c)'
  <2>1. ASSUME NEW c \in Callers, ~(op \in Registry!Stagings /\ c = op.by)
        PROVE  StagingAt(c)'
    <3>1. StageOf(c) \in Registry!Ops /\ StageOf(c) # op
      BY <2>1, OperationKinds
    <3>2. at'[StageOf(c)] = "start" /\ at[StageOf(c)] = "start"
      BY <1>1, <3>1
    <3>3. ~(caller[c] = "staging" /\ live[req[c]] = c)
      BY <3>2 DEF RegistryInv, StagingAt
    <3>4. caller'[c] = caller[c] /\ req' = req /\ (live'[req[c]] = c => live[req[c]] = c)
      BY <2>1
    <3> QED
      BY <3>2, <3>3, <3>4 DEF StagingAt
  <2> QED
    BY <2>1
<1>6. /\ \A o \in Registry!Cleanups : CleanupAt(o)'
      /\ \A o \in Registry!Sweeps : SweepAt(o)'
  BY <1>1, OperationKinds DEF CleanupAt, SweepAt
<1> QED
  BY <1>1, <1>2, <1>4, <1>5, <1>6 DEF RegistryInv

\* Whose turn it is, and what is known of it.
LEMMA StagingFacts ==
    ASSUME RegistryInv, NEW op \in Registry!Stagings, Registry!Turn(op)
    PROVE  /\ op \in Registry!Ops /\ op.by \in Callers /\ req[op.by] \in Requests
           /\ op \notin Registry!Cleanups /\ op \notin Registry!Sweeps
           /\ StageOf(op.by) = op /\ caller[op.by] = "staging" /\ StagingAt(op.by)
           /\ op.by \notin receipt
<1>1. /\ op \in Registry!Ops /\ op.by \in Callers /\ StageOf(op.by) = op
      /\ op \notin Registry!Cleanups /\ op \notin Registry!Sweeps
  BY OperationKinds
<1>2. op \in Queued
  BY <1>1, Alone
<1> QED
  BY <1>1, <1>2 DEF RegistryInv, Waiting, Copies, Registry!TypeOK

\* A staging that has no lease fails, whatever it deletes.
LEMMA StagingFails ==
    ASSUME RegistryInv, NEW op \in Registry!Stagings, Registry!Turn(op),
           live[req[op.by]] # op.by, Registry!StageFails(op),
           UNCHANGED <<live, entries, target, missed, swept, restarts>>,
           UNCHANGED <<exists, bytes>>
             \/ (Registry!Deleted(req[op.by]) /\ live[req[op.by]] = None)
    PROVE  RegistryInv'
<1>1. /\ op \in Registry!Ops /\ op.by \in Callers /\ req[op.by] \in Requests
      /\ op \notin Registry!Cleanups /\ op \notin Registry!Sweeps
      /\ StageOf(op.by) = op /\ caller[op.by] = "staging" /\ op.by \notin receipt
  BY StagingFacts
<1>2. /\ caller' = [caller EXCEPT ![op.by] = "failed"] /\ Registry!Finish(op)
      /\ UNCHANGED <<req, asks, receipt>>
  BY DEF Registry!StageFails
<1>3. Registry!TypeOK
  BY DEF RegistryInv
<1>4. /\ caller' \in [Callers -> {"idle", "staging", "held", "failed", "gone"}]
      /\ caller'[op.by] = "failed" /\ \A c \in Callers \ {op.by} : caller'[c] = caller[c]
  BY <1>1, <1>2, <1>3 DEF Registry!TypeOK
<1>5. /\ exists' \subseteq exists /\ bytes' \in [Requests -> SUBSET Callers]
      /\ \A r \in Requests : bytes'[r] \subseteq bytes[r] /\ (bytes'[r] # {} => r \in exists')
      /\ \A r \in Requests : live[r] # None => bytes'[r] = bytes[r] /\ (r \in exists' <=> r \in exists)
  BY <1>1, <1>3 DEF RegistryInv, Copies, Registry!TypeOK, Registry!Deleted, Registry!disk
<1>6. /\ \A o \in Registry!Ops : at'[o] = "start"
      /\ Queued \subseteq Queued' \cup {op}
  BY <1>1, <1>2, FinishesTurn
<1>7. StagingAt(op.by)'
  BY <1>1, <1>4, <1>6 DEF StagingAt
<1>8. Copies'
  BY <1>1, <1>2, <1>4, <1>5 DEF RegistryInv, Copies, Registry!TypeOK
<1>9. Registry!OwnBytesOnly' /\ Registry!DeletedMeansGone'
  BY <1>2, <1>5 DEF RegistryInv, Kept, Registry!OwnBytesOnly, Registry!DeletedMeansGone, Registry!InUse
<1>10. Registry!SourceKept'
  BY <1>2, <1>3, <1>4, <1>5, RegistryConstants DEF RegistryInv, Kept, Registry!SourceKept, Registry!TypeOK
<1>11. Registry!LiveHasHolder'
  <2>1. \A c : Registry!Asked(c) => Registry!Asked(c)'
    BY <1>1, <1>6, OperationKinds DEF Registry!Asked, Queued
  <2>2. ASSUME NEW r \in Requests, live[r] # None
        PROVE  live[r] \in Callers /\ live[r] # op.by
    BY <1>3, <2>2 DEF RegistryInv, Kept, Registry!LiveHasHolder, Registry!InUse, Registry!TypeOK
  <2> QED
    BY <1>2, <1>4, <2>1, <2>2 DEF RegistryInv, Kept, Registry!LiveHasHolder, Registry!InUse
<1>12. Kept'
  BY <1>9, <1>10, <1>11 DEF Kept
<1>13. /\ exists' \subseteq Requests /\ live' \in [Requests -> Callers \cup {None}]
       /\ receipt' \subseteq Callers /\ entries' \subseteq Requests
       /\ target' \in Requests \cup {None} /\ missed' \in BOOLEAN
  BY <1>2, <1>3, <1>5 DEF Registry!TypeOK
<1> QED
  BY <1>1, <1>2, <1>4, <1>5, <1>7, <1>8, <1>12, <1>13, TurnKeeps

\* A staging begins by a look at who has its request.
LEMMA BeginKeeps ==
    ASSUME RegistryInv, NEW op \in Registry!Stagings, Registry!Begin(op)
    PROVE  RegistryInv'
<1>1. /\ Registry!Turn(op) /\ at[op] = "start"
      /\ UNCHANGED <<exists, bytes, live, entries, target, missed, swept, restarts>>
  BY DEF Registry!Begin, Registry!Step, Registry!disk, Registry!sweep, Registry!bounds
<1>2. /\ op \in Registry!Ops /\ op.by \in Callers /\ req[op.by] \in Requests
      /\ op \notin Registry!Cleanups /\ op \notin Registry!Sweeps
      /\ StageOf(op.by) = op /\ caller[op.by] = "staging" /\ StagingAt(op.by)
  BY <1>1, StagingFacts
<1>3. Registry!TypeOK
  BY DEF RegistryInv
<1>4. CASE Registry!StageFails(op)
  <2>1. live[req[op.by]] # op.by
    BY <1>1, <1>2 DEF StagingAt
  <2> QED
    BY <1>1, <1>4, <2>1, StagingFails
<1>5. CASE /\ ~Registry!InUse(req[op.by]) /\ Registry!Await(op, "acquire")
           /\ UNCHANGED <<req, caller, asks, receipt>>
  <2>1. "acquire" \in Registry!Places
    BY DEF Registry!Places
  <2>2. at'[op] = "acquire" /\ Queued' = Queued
    BY <1>1, <1>2, <1>5, <2>1, AwaitsTurn
  <2>3. StagingAt(op.by)'
    BY <1>1, <1>2, <1>5, <2>2, RegistryConstants DEF StagingAt, Registry!InUse
  <2>4. Copies' /\ Kept'
    BY <1>1, <1>5, <2>2 DEF RegistryInv, Copies, Kept, Registry!OwnBytesOnly, Registry!SourceKept,
       Registry!DeletedMeansGone, Registry!LiveHasHolder, Registry!InUse, Registry!Asked, Queued
  <2> QED
    BY <1>1, <1>2, <1>3, <1>5, <2>1, <2>3, <2>4, TurnKeeps DEF Registry!TypeOK
<1> QED
  BY <1>4, <1>5 DEF Registry!Begin, Registry!Target, Registry!caller

\* A directory without a copy is given to whom nobody else's request is.
LEMMA AcquireKeeps ==
    ASSUME RegistryInv, NEW op \in Registry!Stagings, Registry!Acquire(op)
    PROVE  RegistryInv'
<1>1. /\ Registry!Turn(op) /\ at[op] = "acquire"
      /\ UNCHANGED <<exists, bytes, entries, target, missed, swept, restarts>>
  BY DEF Registry!Acquire, Registry!Step, Registry!disk, Registry!sweep, Registry!bounds
<1>2. /\ op \in Registry!Ops /\ op.by \in Callers /\ req[op.by] \in Requests
      /\ op \notin Registry!Cleanups /\ op \notin Registry!Sweeps
      /\ StageOf(op.by) = op /\ caller[op.by] = "staging" /\ StagingAt(op.by)
  BY <1>1, StagingFacts
<1>3. Registry!TypeOK /\ live[req[op.by]] = None /\ op.by # None
  BY <1>1, <1>2, RegistryConstants DEF RegistryInv, StagingAt
<1>4. CASE Registry!StageFails(op) /\ UNCHANGED live
  BY <1>1, <1>3, <1>4, StagingFails
<1>5. CASE /\ req[op.by] \notin exists /\ live' = [live EXCEPT ![req[op.by]] = op.by]
           /\ Registry!Await(op, "create") /\ UNCHANGED <<req, caller, asks, receipt>>
  <2>1. "create" \in Registry!Places
    BY DEF Registry!Places
  <2>2. at'[op] = "create" /\ Queued' = Queued
    BY <1>1, <1>2, <1>5, <2>1, AwaitsTurn
  <2>3. /\ live' \in [Requests -> Callers \cup {None}] /\ live'[req[op.by]] = op.by
        /\ \A r \in Requests \ {req[op.by]} : live'[r] = live[r]
    BY <1>2, <1>3, <1>5 DEF Registry!TypeOK
  <2>4. StagingAt(op.by)'
    BY <1>2, <1>5, <2>2, <2>3 DEF StagingAt
  <2>5. Copies'
    BY <1>1, <1>5 DEF RegistryInv, Copies
  <2>6. bytes[req[op.by]] = {}
    BY <1>2, <1>5 DEF RegistryInv, Copies
  <2>7. Registry!OwnBytesOnly' /\ Registry!SourceKept' /\ Registry!DeletedMeansGone'
    BY <1>1, <1>2, <1>3, <1>5, <2>3, <2>6 DEF RegistryInv, Kept, Registry!OwnBytesOnly, Registry!SourceKept,
       Registry!DeletedMeansGone, Registry!InUse, Registry!TypeOK
  <2>8. Registry!LiveHasHolder'
    BY <1>2, <1>5, <2>2, <2>3 DEF RegistryInv, Kept, Registry!LiveHasHolder, Registry!InUse,
       Registry!Asked, Queued
  <2>9. \A c \in Callers : live'[req[c]] = c => live[req[c]] = c \/ c = op.by
    BY <1>3, <2>3 DEF Registry!TypeOK
  <2> QED
    BY <1>1, <1>2, <1>3, <1>5, <2>1, <2>3, <2>4, <2>5, <2>7, <2>8, <2>9, TurnKeeps DEF Registry!TypeOK, Kept
<1> QED
  BY <1>4, <1>5 DEF Registry!Acquire, Registry!Target, Registry!caller, Registry!Quarantined

\* Its owner creates the directory and puts its copy there.
LEMMA CreateAndCopyKeep ==
    ASSUME RegistryInv, NEW op \in Registry!Stagings, Registry!Create(op) \/ Registry!Copy(op)
    PROVE  RegistryInv'
<1>1. /\ Registry!Turn(op) /\ at[op] \in {"create", "copy"}
      /\ UNCHANGED <<live, req, caller, asks, receipt, entries, target, missed, swept, restarts>>
  BY DEF Registry!Create, Registry!Copy, Registry!Step, Registry!caller, Registry!sweep, Registry!bounds
<1>2. /\ op \in Registry!Ops /\ op.by \in Callers /\ req[op.by] \in Requests
      /\ op \notin Registry!Cleanups /\ op \notin Registry!Sweeps
      /\ StageOf(op.by) = op /\ caller[op.by] = "staging" /\ StagingAt(op.by)
      /\ op.by \notin receipt
  BY <1>1, StagingFacts
<1>3. Registry!TypeOK /\ live[req[op.by]] = op.by
  BY <1>1, <1>2 DEF RegistryInv, StagingAt
<1>4. PICK p \in {"copy", "inspect", "undo"} :
        /\ Registry!Await(op, p)
        /\ \/ p = "undo" /\ UNCHANGED <<exists, bytes>>
           \/ p \in {"copy", "undo"} /\ exists' = exists \cup {req[op.by]} /\ UNCHANGED bytes
           \/ /\ p \in {"inspect", "undo"} /\ at[op] = "copy" /\ UNCHANGED exists
              /\ bytes' = [bytes EXCEPT ![req[op.by]] = @ \cup {op.by}]
  BY DEF Registry!Create, Registry!Copy, Registry!Target, Registry!Step
<1>5. p \in Registry!Places
  BY DEF Registry!Places
<1>6. at'[op] = p /\ Queued' = Queued
  BY <1>1, <1>2, <1>4, <1>5, AwaitsTurn
<1>7. /\ exists' \subseteq Requests /\ bytes' \in [Requests -> SUBSET Callers]
      /\ \A r \in Requests : r \in exists => r \in exists'
      /\ \A r \in Requests : bytes[r] \subseteq bytes'[r]
      /\ \A r \in Requests \ {req[op.by]} : bytes'[r] = bytes[r]
      /\ bytes'[req[op.by]] \subseteq bytes[req[op.by]] \cup {op.by}
      /\ bytes' # bytes => req[op.by] \in exists
      /\ p \in {"copy", "inspect"} => req[op.by] \in exists'
      /\ p = "inspect" => op.by \in bytes'[req[op.by]]
  <2>1. CASE exists' = exists \cup {req[op.by]} /\ UNCHANGED bytes /\ p \in {"copy", "undo"}
    BY <1>2, <1>3, <2>1 DEF Registry!TypeOK
  <2>2. CASE /\ at[op] = "copy" /\ UNCHANGED exists
             /\ bytes' = [bytes EXCEPT ![req[op.by]] = @ \cup {op.by}]
    BY <1>2, <1>3, <1>4, <2>2 DEF StagingAt, Registry!TypeOK
  <2>3. CASE UNCHANGED <<exists, bytes>> /\ p = "undo"
    BY <1>3, <2>3 DEF Registry!TypeOK
  <2> QED
    BY <1>4, <2>1, <2>2, <2>3
<1>8. StagingAt(op.by)'
  BY <1>1, <1>2, <1>3, <1>4, <1>6, <1>7 DEF StagingAt
<1>9. Copies'
  BY <1>1, <1>2, <1>7 DEF RegistryInv, Copies
<1>10. Registry!OwnBytesOnly' /\ Registry!SourceKept'
  BY <1>1, <1>2, <1>3, <1>7 DEF RegistryInv, Kept, Registry!OwnBytesOnly, Registry!SourceKept,
     Registry!InUse, Registry!TypeOK
<1>11. Registry!DeletedMeansGone'
  BY <1>1, <1>2, <1>7 DEF RegistryInv, Kept, Registry!DeletedMeansGone
<1>12. Registry!LiveHasHolder'
  BY <1>1, <1>6 DEF RegistryInv, Kept, Registry!LiveHasHolder, Registry!InUse, Registry!Asked, Queued
<1> QED
  BY <1>1, <1>2, <1>3, <1>4, <1>5, <1>7, <1>8, <1>9, <1>10, <1>11, <1>12, TurnKeeps
     DEF Registry!TypeOK, Kept

\* The copy is inspected, and handed out when it is whole.
LEMMA InspectKeeps ==
    ASSUME RegistryInv, NEW op \in Registry!Stagings, Registry!Inspect(op)
    PROVE  RegistryInv'
<1>1. /\ Registry!Turn(op) /\ at[op] = "inspect"
      /\ UNCHANGED <<exists, bytes, live, req, asks, receipt, entries, target, missed, swept, restarts>>
  BY DEF Registry!Inspect, Registry!Step, Registry!disk, Registry!sweep, Registry!bounds
<1>2. /\ op \in Registry!Ops /\ op.by \in Callers /\ req[op.by] \in Requests
      /\ op \notin Registry!Cleanups /\ op \notin Registry!Sweeps
      /\ StageOf(op.by) = op /\ caller[op.by] = "staging" /\ StagingAt(op.by)
      /\ op.by \notin receipt
  BY <1>1, StagingFacts
<1>3. /\ Registry!TypeOK /\ live[req[op.by]] = op.by /\ req[op.by] \in exists
      /\ op.by \in bytes[req[op.by]]
  BY <1>1, <1>2 DEF RegistryInv, StagingAt
<1>4. CASE Registry!Await(op, "undo") /\ UNCHANGED caller
  <2>1. "undo" \in Registry!Places
    BY DEF Registry!Places
  <2>2. at'[op] = "undo" /\ Queued' = Queued
    BY <1>1, <1>2, <1>4, <2>1, AwaitsTurn
  <2>3. StagingAt(op.by)'
    BY <1>1, <1>2, <1>3, <1>4, <2>2 DEF StagingAt
  <2>4. Copies' /\ Kept'
    BY <1>1, <1>4, <2>2 DEF RegistryInv, Copies, Kept, Registry!OwnBytesOnly, Registry!SourceKept,
       Registry!DeletedMeansGone, Registry!LiveHasHolder, Registry!InUse, Registry!Asked, Queued
  <2> QED
    BY <1>1, <1>2, <1>3, <1>4, <2>1, <2>3, <2>4, TurnKeeps DEF Registry!TypeOK
<1>5. CASE Registry!Finish(op) /\ caller' = [caller EXCEPT ![op.by] = "held"]
  <2>1. /\ caller' \in [Callers -> {"idle", "staging", "held", "failed", "gone"}]
        /\ caller'[op.by] = "held" /\ \A c \in Callers \ {op.by} : caller'[c] = caller[c]
    BY <1>2, <1>3, <1>5 DEF Registry!TypeOK
  <2>2. at'[op] = "start" /\ Queued \subseteq Queued' \cup {op}
    BY <1>1, <1>2, <1>5, FinishesTurn
  <2>3. StagingAt(op.by)'
    BY <1>2, <2>1, <2>2 DEF StagingAt
  <2>4. Copies'
    BY <1>1, <1>3, <2>1 DEF RegistryInv, Copies, Registry!TypeOK
  <2>5. Registry!OwnBytesOnly' /\ Registry!SourceKept' /\ Registry!DeletedMeansGone'
    BY <1>1, <1>3, <2>1 DEF RegistryInv, Kept, Registry!OwnBytesOnly, Registry!SourceKept,
       Registry!DeletedMeansGone, Registry!InUse
  <2>6. asks[op.by] = 0 \/ Registry!Asked(op.by)
    BY <1>2 DEF RegistryInv, Waiting
  <2>7. Registry!LiveHasHolder'
    <3>1. \A c : Registry!Asked(c) => Registry!Asked(c)'
      BY <1>2, <2>2, OperationKinds DEF Registry!Asked, Queued
    <3> QED
      BY <1>1, <1>3, <2>1, <2>6, <3>1 DEF RegistryInv, Kept, Registry!LiveHasHolder,
         Registry!InUse, Registry!TypeOK
  <2> QED
    BY <1>1, <1>2, <1>3, <1>5, <2>1, <2>3, <2>4, <2>5, <2>7, TurnKeeps DEF Registry!TypeOK, Kept
<1> QED
  BY <1>4, <1>5 DEF Registry!Inspect, Registry!Target

\* The lease is handed back before anything is deleted.
LEMMA UndoKeeps ==
    ASSUME RegistryInv, NEW op \in Registry!Stagings, Registry!Undo(op)
    PROVE  RegistryInv'
<1>1. /\ Registry!Turn(op) /\ at[op] = "undo" /\ Registry!Await(op, "look")
      /\ Registry!Release(op.by)
      /\ UNCHANGED <<exists, bytes, req, caller, asks, receipt, entries, target, missed, swept, restarts>>
  BY DEF Registry!Undo, Registry!Step, Registry!disk, Registry!caller, Registry!sweep, Registry!bounds
<1>2. /\ op \in Registry!Ops /\ op.by \in Callers /\ req[op.by] \in Requests
      /\ op \notin Registry!Cleanups /\ op \notin Registry!Sweeps
      /\ StageOf(op.by) = op /\ caller[op.by] = "staging" /\ StagingAt(op.by)
  BY <1>1, StagingFacts
<1>3. Registry!TypeOK /\ live[req[op.by]] = op.by
  BY <1>1, <1>2 DEF RegistryInv, StagingAt
<1>4. /\ live' \in [Requests -> Callers \cup {None}] /\ live'[req[op.by]] = None
      /\ \A r \in Requests \ {req[op.by]} : live'[r] = live[r]
  BY <1>1, <1>2, <1>3 DEF Registry!TypeOK, Registry!Release, Registry!Current
<1>5. "look" \in Registry!Places
  BY DEF Registry!Places
<1>6. at'[op] = "look" /\ Queued' = Queued
  BY <1>1, <1>2, <1>5, AwaitsTurn
<1>7. StagingAt(op.by)'
  BY <1>1, <1>2, <1>4, <1>6, RegistryConstants DEF StagingAt
<1>8. Copies'
  BY <1>1 DEF RegistryInv, Copies
<1>9. Registry!OwnBytesOnly' /\ Registry!DeletedMeansGone'
  BY <1>1, <1>4 DEF RegistryInv, Kept, Registry!OwnBytesOnly, Registry!DeletedMeansGone, Registry!InUse
<1>10. Registry!SourceKept'
  BY <1>1, <1>2, <1>3, <1>4 DEF RegistryInv, Kept, Registry!SourceKept, Registry!TypeOK
<1>11. Registry!LiveHasHolder'
  BY <1>1, <1>4, <1>6 DEF RegistryInv, Kept, Registry!LiveHasHolder, Registry!InUse,
     Registry!Asked, Queued
<1>12. \A c \in Callers : live'[req[c]] = c => live[req[c]] = c
  BY <1>3, <1>4, RegistryConstants DEF Registry!TypeOK
<1> QED
  BY <1>1, <1>2, <1>3, <1>4, <1>5, <1>7, <1>8, <1>9, <1>10, <1>11, <1>12, TurnKeeps
     DEF Registry!TypeOK, Kept

\* A staging without a lease deletes what it created.
LEMMA UndoneKeeps ==
    ASSUME RegistryInv, NEW op \in Registry!Stagings,
           Registry!Look(op) \/ Registry!Delete(op) \/ Registry!Verify(op)
    PROVE  RegistryInv'
<1>1. /\ Registry!Turn(op) /\ at[op] \in {"look", "delete", "verify"}
      /\ UNCHANGED <<entries, target, missed, swept, restarts>>
  BY DEF Registry!Look, Registry!Delete, Registry!Verify, Registry!Step, Registry!disk,
         Registry!sweep, Registry!bounds
<1>2. /\ op \in Registry!Ops /\ op.by \in Callers /\ req[op.by] \in Requests
      /\ op \notin Registry!Cleanups /\ op \notin Registry!Sweeps
      /\ StageOf(op.by) = op /\ caller[op.by] = "staging" /\ StagingAt(op.by)
  BY <1>1, StagingFacts
<1>3. Registry!TypeOK /\ live[req[op.by]] = None /\ op.by # None
  BY <1>1, <1>2, RegistryConstants DEF RegistryInv, StagingAt
<1>4. UNCHANGED <<exists, bytes>> \/ Registry!Deleted(req[op.by])
  BY DEF Registry!Look, Registry!Delete, Registry!Verify, Registry!disk, Registry!Target
<1>5. CASE Registry!StageFails(op) /\ UNCHANGED live
  BY <1>1, <1>2, <1>3, <1>4, <1>5, StagingFails
<1>6. ASSUME NEW p \in {"delete", "verify"}, Registry!Await(op, p),
             UNCHANGED <<live, req, caller, asks, receipt>>
      PROVE  RegistryInv'
  <2>1. p \in Registry!Places
    BY DEF Registry!Places
  <2>2. at'[op] = p /\ Queued' = Queued
    BY <1>1, <1>2, <1>6, <2>1, AwaitsTurn
  <2>3. /\ exists' \subseteq exists /\ bytes' \in [Requests -> SUBSET Callers]
        /\ \A r \in Requests : bytes'[r] \subseteq bytes[r] /\ (bytes'[r] # {} => r \in exists')
        /\ \A r \in Requests : live[r] # None => bytes'[r] = bytes[r] /\ (r \in exists' <=> r \in exists)
    BY <1>2, <1>3, <1>4 DEF RegistryInv, Copies, Registry!TypeOK, Registry!Deleted, Registry!disk
  <2>4. StagingAt(op.by)'
    BY <1>2, <1>3, <1>6, <2>2 DEF StagingAt
  <2>5. Copies'
    BY <1>6, <2>3 DEF RegistryInv, Copies, Registry!TypeOK
  <2>6. Registry!OwnBytesOnly' /\ Registry!DeletedMeansGone'
    BY <1>6, <2>3 DEF RegistryInv, Kept, Registry!OwnBytesOnly, Registry!DeletedMeansGone, Registry!InUse
  <2>7. Registry!SourceKept'
    BY <1>3, <1>6, <2>3, RegistryConstants DEF RegistryInv, Kept, Registry!SourceKept, Registry!TypeOK
  <2>8. Registry!LiveHasHolder'
    BY <1>6, <2>2 DEF RegistryInv, Kept, Registry!LiveHasHolder, Registry!InUse, Registry!Asked, Queued
  <2>9. exists' \subseteq Requests
    BY <1>3, <2>3 DEF Registry!TypeOK
  <2> QED
    BY <1>1, <1>2, <1>3, <1>6, <2>1, <2>3, <2>4, <2>5, <2>6, <2>7, <2>8, <2>9, TurnKeeps
       DEF Registry!TypeOK, Kept
<1> QED
  BY <1>2, <1>5, <1>6 DEF Registry!Look, Registry!Delete, Registry!Verify, Registry!Answer, Registry!caller

-----------------------------------------------------------------------------
(* Cleanups *)

\* A cleanup whose turn it is has a caller that holds its copy.
LEMMA CleanupFacts ==
    ASSUME RegistryInv, NEW op \in Registry!Cleanups, Registry!Turn(op)
    PROVE  /\ op \in Registry!Ops /\ op.by \in Callers /\ req[op.by] \in Requests
           /\ op \notin Registry!Stagings /\ op \notin Registry!Sweeps
           /\ caller[op.by] = "held" /\ asks[op.by] # 0 /\ op.by # None
<1>1. /\ op \in Registry!Ops /\ op.by \in Callers
      /\ op \notin Registry!Stagings /\ op \notin Registry!Sweeps
  BY OperationKinds
<1>2. op \in Queued
  BY <1>1, Alone
<1> QED
  BY <1>1, <1>2, RegistryConstants DEF RegistryInv, Waiting, Registry!TypeOK

\* What a deletion of a directory leaves.
LEMMA DeletionLeaves ==
    ASSUME RegistryInv, NEW r \in Requests,
           UNCHANGED <<exists, bytes>> \/ Registry!Deleted(r)
    PROVE  /\ exists' \subseteq exists /\ exists' \subseteq Requests
           /\ bytes' \in [Requests -> SUBSET Callers]
           /\ \A q \in Requests : bytes'[q] \subseteq bytes[q] /\ (bytes'[q] # {} => q \in exists')
           /\ \A q \in Requests \ {r} : bytes'[q] = bytes[q] /\ (q \in exists' <=> q \in exists)
<1>1. /\ exists \subseteq Requests /\ bytes \in [Requests -> SUBSET Callers]
      /\ \A q \in Requests : bytes[q] # {} => q \in exists
  BY DEF RegistryInv, Copies, Registry!TypeOK
<1>2. CASE UNCHANGED <<exists, bytes>>
  BY <1>1, <1>2
<1>3. CASE bytes' = [bytes EXCEPT ![r] = {}] /\ exists' \in {exists, exists \ {r}}
  BY <1>1, <1>3
<1> QED
  BY <1>2, <1>3 DEF Registry!Deleted, Registry!disk

\* A cleanup ends, with a receipt if the directory is gone.
LEMMA CleanupAnswers ==
    ASSUME RegistryInv, NEW op \in Registry!Cleanups, Registry!Turn(op), at[op] # "start",
           NEW gone \in BOOLEAN, Registry!Answer(op, gone),
           UNCHANGED <<exists, bytes>> \/ Registry!Deleted(req[op.by]),
           gone => UNCHANGED <<exists, bytes>> /\ req[op.by] \notin exists,
           UNCHANGED <<entries, target, missed, swept, restarts>>
    PROVE  RegistryInv'
<1> DEFINE c == op.by
           r == req[op.by]
<1>1. /\ op \in Registry!Ops /\ c \in Callers /\ r \in Requests
      /\ op \notin Registry!Stagings /\ op \notin Registry!Sweeps
      /\ caller[c] = "held" /\ asks[c] # 0 /\ c # None
  BY CleanupFacts
<1>2. Registry!TypeOK /\ live[r] = c
  BY <1>1 DEF RegistryInv, CleanupAt
<1>3. /\ Registry!Release(c) /\ receipt' = IF gone THEN receipt \cup {c} ELSE receipt
      /\ Registry!Finish(op) /\ UNCHANGED <<req, caller, asks>>
  BY <1>1 DEF Registry!Answer
<1>4. /\ live' \in [Requests -> Callers \cup {None}] /\ live'[r] = None
      /\ \A q \in Requests \ {r} : live'[q] = live[q]
  BY <1>1, <1>2, <1>3 DEF Registry!TypeOK, Registry!Release, Registry!Current
<1>5. /\ exists' \subseteq Requests /\ bytes' \in [Requests -> SUBSET Callers]
      /\ \A q \in Requests : bytes'[q] \subseteq bytes[q] /\ (bytes'[q] # {} => q \in exists')
      /\ \A q \in Requests \ {r} : bytes'[q] = bytes[q] /\ (q \in exists' <=> q \in exists)
  BY <1>1, DeletionLeaves
<1>6. gone => bytes'[r] = {}
  BY <1>1, <1>5
<1>7. (\A o \in Registry!Ops : at'[o] = "start") /\ Queued \subseteq Queued' \cup {op}
  BY <1>1, <1>3, FinishesTurn
<1>8. CleanupAt(op)'
  BY <1>1, <1>7 DEF CleanupAt
<1>9. Copies'
  BY <1>1, <1>2, <1>3, <1>5 DEF RegistryInv, Copies, Registry!TypeOK
<1>10. Registry!OwnBytesOnly'
  BY <1>4, <1>5 DEF RegistryInv, Kept, Registry!OwnBytesOnly, Registry!InUse
<1>11. Registry!DeletedMeansGone'
  <2>1. ASSUME NEW d \in receipt', NEW q \in Requests, d \in bytes'[q]
        PROVE  FALSE
    <3>1. d \in bytes[q] /\ req[d] = q
      BY <1>5, <2>1 DEF RegistryInv, Copies
    <3>2. d \notin receipt
      BY <3>1 DEF RegistryInv, Kept, Registry!DeletedMeansGone
    <3>3. d = c /\ gone
      BY <1>3, <2>1, <3>2
    <3> QED
      BY <1>6, <2>1, <3>1, <3>3
  <2> QED
    BY <2>1 DEF Registry!DeletedMeansGone
<1>12. Registry!SourceKept'
  BY <1>1, <1>2, <1>3, <1>4, <1>5 DEF RegistryInv, Kept, Registry!SourceKept, Registry!TypeOK
<1>13. Registry!LiveHasHolder'
  <2>1. \A d : d # c /\ Registry!Asked(d) => Registry!Asked(d)'
    BY <1>7 DEF Registry!Asked, Queued
  <2>2. ASSUME NEW q \in Requests, live'[q] # None
        PROVE  live'[q] = live[q] /\ live[q] # None /\ live[q] # c /\ live[q] \in Callers
    BY <1>2, <1>4, <2>2 DEF RegistryInv, Kept, Registry!LiveHasHolder, Registry!InUse, Registry!TypeOK
  <2> QED
    BY <1>3, <2>1, <2>2 DEF RegistryInv, Kept, Registry!LiveHasHolder, Registry!InUse
<1>14. \A d \in Callers : live'[req[d]] = d => live[req[d]] = d
  BY <1>2, <1>4, RegistryConstants DEF Registry!TypeOK
<1>15. /\ receipt' \subseteq Callers /\ entries' \subseteq Requests
       /\ target' \in Requests \cup {None} /\ missed' \in BOOLEAN
       /\ caller' \in [Callers -> {"idle", "staging", "held", "failed", "gone"}]
  BY <1>1, <1>2, <1>3 DEF Registry!TypeOK
<1> QED
  BY <1>1, <1>3, <1>4, <1>5, <1>8, <1>9, <1>10, <1>11, <1>12, <1>13, <1>14, <1>15, TurnKeeps DEF Kept

\* The steps of a cleanup.
LEMMA CleanupKeeps ==
    ASSUME RegistryInv, NEW op \in Registry!Cleanups,
           Registry!BeginCleanup(op) \/ Registry!Look(op) \/ Registry!Delete(op) \/ Registry!Verify(op)
    PROVE  RegistryInv'
<1>1. /\ Registry!Turn(op) /\ UNCHANGED <<entries, target, missed, swept, restarts>>
  BY DEF Registry!BeginCleanup, Registry!Look, Registry!Delete, Registry!Verify, Registry!Step,
         Registry!disk, Registry!sweep, Registry!bounds
<1>2. /\ op \in Registry!Ops /\ op.by \in Callers /\ req[op.by] \in Requests
      /\ op \notin Registry!Stagings /\ op \notin Registry!Sweeps
      /\ caller[op.by] = "held" /\ asks[op.by] # 0 /\ op.by # None
  BY <1>1, CleanupFacts
<1>3. Registry!TypeOK
  BY DEF RegistryInv
<1>4. CASE Registry!Finish(op) /\ at[op] = "start" /\ live[req[op.by]] # op.by
           /\ UNCHANGED <<exists, bytes, live, req, caller, asks, receipt>>
  <2>1. at'[op] = "start" /\ Queued \subseteq Queued' \cup {op}
    BY <1>1, <1>2, <1>4, FinishesTurn
  <2>2. CleanupAt(op)' /\ Copies'
    BY <1>4, <2>1 DEF CleanupAt, RegistryInv, Copies
  <2>3. Registry!OwnBytesOnly' /\ Registry!SourceKept' /\ Registry!DeletedMeansGone'
    BY <1>4 DEF RegistryInv, Kept, Registry!OwnBytesOnly, Registry!SourceKept,
       Registry!DeletedMeansGone, Registry!InUse
  <2>4. Registry!LiveHasHolder'
    <3>1. \A d : d # op.by /\ Registry!Asked(d) => Registry!Asked(d)'
      BY <2>1 DEF Registry!Asked, Queued
    <3>2. ASSUME NEW q \in Requests, live[q] # None
          PROVE  live[q] # op.by /\ live[q] \in Callers
      BY <1>3, <1>4, <3>2 DEF RegistryInv, Kept, Registry!LiveHasHolder, Registry!InUse, Registry!TypeOK
    <3> QED
      BY <1>4, <3>1, <3>2 DEF RegistryInv, Kept, Registry!LiveHasHolder, Registry!InUse
  <2> QED
    BY <1>1, <1>2, <1>3, <1>4, <2>2, <2>3, <2>4, TurnKeeps DEF Registry!TypeOK, Kept
<1>5. ASSUME NEW p \in {"look", "delete", "verify"}, Registry!Await(op, p),
             live[req[op.by]] = op.by, UNCHANGED <<live, req, caller, asks, receipt>>,
             UNCHANGED <<exists, bytes>> \/ Registry!Deleted(req[op.by])
      PROVE  RegistryInv'
  <2>1. p \in Registry!Places
    BY DEF Registry!Places
  <2>2. at'[op] = p /\ Queued' = Queued
    BY <1>1, <1>2, <1>5, <2>1, AwaitsTurn
  <2>3. /\ exists' \subseteq Requests /\ bytes' \in [Requests -> SUBSET Callers]
        /\ \A q \in Requests : bytes'[q] \subseteq bytes[q] /\ (bytes'[q] # {} => q \in exists')
        /\ \A q \in Requests \ {req[op.by]} :
              bytes'[q] = bytes[q] /\ (q \in exists' <=> q \in exists)
    BY <1>2, <1>5, DeletionLeaves
  <2>4. CleanupAt(op)' /\ Copies'
    BY <1>5, <2>3 DEF CleanupAt, RegistryInv, Copies, Registry!TypeOK
  <2>5. Registry!OwnBytesOnly' /\ Registry!DeletedMeansGone'
    BY <1>5, <2>3 DEF RegistryInv, Kept, Registry!OwnBytesOnly, Registry!DeletedMeansGone, Registry!InUse
  <2>6. Registry!SourceKept'
    BY <1>2, <1>3, <1>5, <2>3 DEF RegistryInv, Kept, Registry!SourceKept, Registry!TypeOK
  <2>7. Registry!LiveHasHolder'
    BY <1>5, <2>2 DEF RegistryInv, Kept, Registry!LiveHasHolder, Registry!InUse, Registry!Asked, Queued
  <2> QED
    BY <1>1, <1>2, <1>3, <1>5, <2>1, <2>3, <2>4, <2>5, <2>6, <2>7, TurnKeeps DEF Registry!TypeOK, Kept
<1>6. CASE Registry!BeginCleanup(op)
  BY <1>4, <1>5, <1>6 DEF Registry!BeginCleanup, Registry!Step, Registry!disk, Registry!caller, Registry!Current
<1>7. CASE Registry!Look(op) \/ Registry!Delete(op) \/ Registry!Verify(op)
  <2>1. at[op] # "start" /\ live[req[op.by]] = op.by
    BY <1>7 DEF Registry!Look, Registry!Delete, Registry!Verify, Registry!Step, RegistryInv, CleanupAt
  <2>2. UNCHANGED <<exists, bytes>> \/ Registry!Deleted(req[op.by])
    BY <1>7 DEF Registry!Look, Registry!Delete, Registry!Verify, Registry!disk, Registry!Target
  <2>3. \/ Registry!Answer(op, FALSE)
        \/ Registry!Answer(op, TRUE) /\ UNCHANGED <<exists, bytes>> /\ req[op.by] \notin exists
        \/ \E p \in {"delete", "verify"} :
             Registry!Await(op, p) /\ UNCHANGED <<live, req, caller, asks, receipt>>
    BY <1>7 DEF Registry!Look, Registry!Delete, Registry!Verify, Registry!disk, Registry!Target,
       Registry!caller, Registry!Verified
  <2> QED
    BY <1>1, <1>5, <2>1, <2>2, <2>3, CleanupAnswers
<1> QED
  BY <1>6, <1>7

-----------------------------------------------------------------------------
(* Sweeps *)

\* The steps of a sweep: it deletes only what nobody has live.
LEMMA SweepKeeps ==
    ASSUME RegistryInv, NEW op \in Registry!Sweeps,
           \/ Registry!SweepList(op) \/ Registry!SweepDelete(op) \/ Registry!SweepVerify(op)
           \/ Registry!SweepEnds(op) \/ \E r \in Requests : Registry!SweepLook(op, r)
    PROVE  RegistryInv'
<1>1. /\ Registry!Turn(op) /\ UNCHANGED <<live, req, caller, asks, receipt, swept, restarts>>
  BY DEF Registry!SweepList, Registry!SweepDelete, Registry!SweepVerify, Registry!SweepEnds,
         Registry!SweepLook, Registry!Step, Registry!caller, Registry!bounds
<1>2. op \in Registry!Ops /\ op \notin Registry!Stagings /\ op \notin Registry!Cleanups
  BY OperationKinds
<1>3. Registry!TypeOK /\ SweepAt(op)
  BY DEF RegistryInv
<1>4. \A d : op.by # d \/ op.kind # "cleanup"
  BY OperationKinds
\* The files as they were.
<1>5. ASSUME UNCHANGED <<exists, bytes>>,
             Registry!Finish(op) \/ \E p \in Registry!Places : Registry!Await(op, p),
             entries' \subseteq Requests, target' \in Requests \cup {None}, missed' \in BOOLEAN,
             SweepAt(op)'
      PROVE  RegistryInv'
  <2>1. Queued \subseteq Queued' \cup {op}
    BY <1>1, <1>2, <1>5, FinishesTurn, AwaitsTurn
  <2>2. Copies'
    BY <1>1, <1>5 DEF RegistryInv, Copies
  <2>3. \A d : Registry!Asked(d) => Registry!Asked(d)'
    BY <1>4, <2>1 DEF Registry!Asked, Queued
  <2>4. Kept'
    BY <1>1, <1>5, <2>3 DEF RegistryInv, Kept, Registry!OwnBytesOnly, Registry!SourceKept,
       Registry!DeletedMeansGone, Registry!LiveHasHolder, Registry!InUse
  <2> QED
    BY <1>1, <1>2, <1>3, <1>5, <2>2, <2>4, TurnKeeps DEF Registry!TypeOK
<1>6. CASE Registry!SweepList(op)
  <2>1. "look" \in Registry!Places
    BY DEF Registry!Places
  <2>2. Registry!Await(op, "look") /\ UNCHANGED <<exists, bytes, target>>
        /\ ((entries' = exists /\ missed' = FALSE) \/ (entries' = {} /\ missed' = TRUE))
    BY <1>6 DEF Registry!SweepList, Registry!disk
  <2>3. at'[op] = "look"
    BY <1>1, <1>2, <2>1, <2>2, AwaitsTurn
  <2>4. SweepAt(op)'
    BY <2>2, <2>3 DEF SweepAt
  <2> QED
    BY <1>3, <1>5, <2>1, <2>2, <2>4 DEF Registry!TypeOK
<1>7. ASSUME NEW r \in Requests, Registry!SweepLook(op, r)
      PROVE  RegistryInv'
  <2>1. "delete" \in Registry!Places /\ at[op] = "look" /\ at[op] \in Registry!Places
    BY <1>2, <1>3, <1>7 DEF Registry!Places, Registry!SweepLook, Registry!Step
  <2>2. /\ entries' = entries \ {r} /\ UNCHANGED <<exists, bytes>>
        /\ \/ missed' = TRUE /\ UNCHANGED <<at, operations, target>>
           \/ /\ live[r] = None /\ target' = r
              /\ Registry!Await(op, "delete") /\ UNCHANGED missed
    BY <1>7 DEF Registry!SweepLook, Registry!Skipped, Registry!InUse, Registry!disk
  <2>3. CASE missed' = TRUE /\ UNCHANGED <<at, operations, target>>
    <3>1. Registry!Await(op, "look")
      <4>1. at = [at EXCEPT ![op] = "look"]
        BY <1>2, <1>3, <2>1 DEF Registry!TypeOK
      <4> QED
        BY <2>3, <4>1 DEF Registry!Await
    <3>2. SweepAt(op)'
      BY <2>1, <2>3 DEF SweepAt
    <3> QED
      BY <1>3, <1>5, <2>1, <2>2, <2>3, <3>1, <3>2 DEF Registry!TypeOK
  <2>4. CASE /\ live[r] = None /\ target' = r
             /\ Registry!Await(op, "delete") /\ UNCHANGED missed
    <3>1. at'[op] = "delete"
      BY <1>1, <1>2, <2>1, <2>4, AwaitsTurn
    <3>2. SweepAt(op)'
      BY <1>1, <1>3, <2>1, <2>2, <2>4, <3>1 DEF SweepAt
    <3> QED
      BY <1>3, <1>5, <2>1, <2>2, <2>4, <3>2 DEF Registry!TypeOK
  <2> QED
    BY <2>2, <2>3, <2>4
<1>8. CASE Registry!SweepVerify(op)
  <2>1. "look" \in Registry!Places /\ at[op] = "verify"
    BY <1>8 DEF Registry!Places, Registry!SweepVerify, Registry!Step
  <2>2. /\ missed' \in BOOLEAN /\ (~missed' => ~missed /\ target \notin exists)
        /\ target' = None /\ Registry!Await(op, "look") /\ UNCHANGED <<exists, bytes, entries>>
    BY <1>3, <1>8 DEF Registry!SweepVerify, Registry!Verified, Registry!disk, Registry!TypeOK
  <2>3. at'[op] = "look"
    BY <1>1, <1>2, <2>1, <2>2, AwaitsTurn
  <2>4. SweepAt(op)'
    BY <1>3, <2>1, <2>2, <2>3 DEF SweepAt
  <2> QED
    BY <1>3, <1>5, <2>1, <2>2, <2>4 DEF Registry!TypeOK
<1>9. CASE Registry!SweepEnds(op)
  <2>1. Registry!Finish(op) /\ UNCHANGED <<exists, bytes, entries, target, missed>>
    BY <1>9 DEF Registry!SweepEnds, Registry!disk, Registry!sweep
  <2>2. at'[op] = "start"
    BY <1>1, <1>2, <2>1, FinishesTurn
  <2>3. SweepAt(op)'
    BY <2>2 DEF SweepAt
  <2> QED
    BY <1>3, <1>5, <2>1, <2>3 DEF Registry!TypeOK
<1>10. CASE Registry!SweepDelete(op)
  <2>1. "verify" \in Registry!Places /\ at[op] = "delete"
    BY <1>10 DEF Registry!Places, Registry!SweepDelete, Registry!Step
  <2>2. /\ Registry!Deleted(target) /\ Registry!Await(op, "verify")
        /\ UNCHANGED <<entries, target, missed>>
    BY <1>10 DEF Registry!SweepDelete, Registry!sweep
  <2>3. target \in Requests /\ live[target] = None
    BY <1>3, <2>1 DEF SweepAt
  <2>4. /\ exists' \subseteq exists /\ exists' \subseteq Requests
        /\ bytes' \in [Requests -> SUBSET Callers]
        /\ \A q \in Requests : bytes'[q] \subseteq bytes[q] /\ (bytes'[q] # {} => q \in exists')
        /\ \A q \in Requests \ {target} :
              bytes'[q] = bytes[q] /\ (q \in exists' <=> q \in exists)
    BY <2>2, <2>3, DeletionLeaves
  <2>5. at'[op] = "verify" /\ Queued' = Queued
    BY <1>1, <1>2, <2>1, <2>2, AwaitsTurn
  <2>6. SweepAt(op)'
    BY <1>1, <1>3, <2>1, <2>2, <2>3, <2>4, <2>5 DEF SweepAt
  <2>7. Copies'
    BY <1>1, <2>4 DEF RegistryInv, Copies, Registry!TypeOK
  <2>8. Registry!OwnBytesOnly' /\ Registry!DeletedMeansGone'
    BY <1>1, <2>4 DEF RegistryInv, Kept, Registry!OwnBytesOnly, Registry!DeletedMeansGone, Registry!InUse
  <2>9. Registry!SourceKept'
    BY <1>1, <1>3, <2>3, <2>4, RegistryConstants DEF RegistryInv, Kept, Registry!SourceKept, Registry!TypeOK
  <2>10. Registry!LiveHasHolder'
    BY <1>1, <2>5 DEF RegistryInv, Kept, Registry!LiveHasHolder, Registry!InUse, Registry!Asked, Queued
  <2> QED
    BY <1>1, <1>2, <1>3, <2>1, <2>2, <2>4, <2>6, <2>7, <2>8, <2>9, <2>10, TurnKeeps
       DEF Registry!TypeOK, Kept
<1> QED
  BY <1>6, <1>7, <1>8, <1>9, <1>10

\* Every step of the registry keeps its invariant.
LEMMA RegistryInvStep == RegistryInv /\ [Registry!Next]_registryVars => RegistryInv'
<1> SUFFICES ASSUME RegistryInv, [Registry!Next]_registryVars PROVE RegistryInv'
  OBVIOUS
<1>1. CASE UNCHANGED registryVars
  BY <1>1
  DEF registryVars, RegistryInv, Registry!TypeOK, Turns, Registry!Turn, Waiting, Queued, StagingAt,
      CleanupAt, SweepAt, Copies, Kept, Registry!OwnBytesOnly, Registry!SourceKept,
      Registry!DeletedMeansGone, Registry!LiveHasHolder, Registry!InUse, Registry!Asked
<1>2. ASSUME NEW op \in Registry!Ops, Registry!Run(op) PROVE RegistryInv'
  <2>1. CASE op \in Registry!Stagings
    <3>1. op \notin Registry!Cleanups /\ op \notin Registry!Sweeps
      BY <2>1, OperationKinds
    <3> QED
      BY <1>2, <2>1, <3>1, BeginKeeps, AcquireKeeps, CreateAndCopyKeep, InspectKeeps, UndoKeeps, UndoneKeeps
      DEF Registry!Run, Registry!BeginCleanup, Registry!SweepList, Registry!SweepDelete,
          Registry!SweepVerify, Registry!SweepEnds, Registry!SweepLook
  <2>2. CASE op \in Registry!Cleanups
    <3>1. op \notin Registry!Stagings /\ op \notin Registry!Sweeps
      BY <2>2, OperationKinds
    <3> QED
      BY <1>2, <2>2, <3>1, CleanupKeeps
      DEF Registry!Run, Registry!SweepList, Registry!SweepDelete,
          Registry!SweepVerify, Registry!SweepEnds, Registry!SweepLook
  <2>3. CASE op \in Registry!Sweeps
    <3>1. op \notin Registry!Stagings /\ op \notin Registry!Cleanups
      BY <2>3, OperationKinds
    <3> QED
      BY <1>2, <2>3, <3>1, SweepKeeps
      DEF Registry!Run, Registry!BeginCleanup, Registry!Look, Registry!Delete, Registry!Verify
  <2> QED
    BY <2>1, <2>2, <2>3, OperationKinds
<1> QED
  BY <1>1, <1>2, StagesKeep, AsksKeep, SweepAsked, RestartKeeps DEF Registry!Next

\* What SweepHonest asks of a step holds of every state.
LEMMA CleanSweepIsEmpty ==
    RegistryInv => \A op \in Registry!Sweeps : Registry!SweepEnds(op) /\ ~missed => exists = {}
BY DEF RegistryInv, SweepAt, Registry!SweepEnds, Registry!Step

\* A behaviour of the three components is one of the registry.
LEMMA RegistryHolds == CustodySpec => []RegistryInv /\ [][Registry!Next]_registryVars
<1>1. CustodyInit => RegistryInv
  BY RegistryInvInit DEF CustodyInit
<1>2. [CustodyNext]_custodyVars => [Registry!Next]_registryVars
  BY DEF CustodyNext, custodyVars
<1> QED
  BY <1>1, <1>2, RegistryInvStep, PTL DEF CustodySpec

\* A directory holds nothing but the copy of the caller it is live for, what
\* stagePdf returned stays on disk until its caller asks for the cleanup, a
\* caller that cleanupRequest told so has no copy left anywhere, and a request
\* never stays live without a caller to give it back.
THEOREM CopiesStayKept == CustodySpec => []CopiesKept
<1>1. RegistryInv => CopiesKept
  BY DEF RegistryInv, Kept, CopiesKept
<1> QED
  BY <1>1, RegistryHolds, PTL

\* A cleanupAbandoned that reports no failure leaves no directory behind:
\* none appears behind the listing it goes through.
THEOREM SweepsAreHonest == CustodySpec => SweepHonest
<1>1. RegistryInv => [\A op \in Registry!Sweeps :
                        Registry!SweepEnds(op) /\ ~missed => exists = {}]_Registry!vars
  BY CleanSweepIsEmpty
<1>2. CustodySpec => [][\A op \in Registry!Sweeps :
                          Registry!SweepEnds(op) /\ ~missed => exists = {}]_Registry!vars
  BY <1>1, RegistryHolds, PTL
<1> QED
  BY <1>2 DEF SweepHonest, Registry!SweepHonest

-----------------------------------------------------------------------------
(* ReportExport *)

Authorities == Share!Authorities

LEMMA ShareConstants == None \notin Authorities
BY CustodyAssumption DEF Share!ShareAssumption, Authorities

ShareOps == [kind : {"cleanup", "export", "share", "discard"}, screen : Screens]

Exports(i) == tail[i].kind \in {"export", "share", "discard"}
Owns(i)    == tail[i].kind \in {"share", "discard"}
PdfOf(i)   == pdf[tail[i].screen]

ShareTypes ==
    /\ open \subseteq Screens /\ authority \in [Screens -> Authorities \cup {None}]
    /\ tail \in Seq(ShareOps)
    /\ shareStage \in {"called", "print", "available", "sheet", "delete"}
    /\ pdf \in [Screens -> 1 .. prints \cup {None}]
    /\ inUse \subseteq 1 .. prints /\ pdfs \subseteq 1 .. prints /\ prints \in Nat

\* A screen exports one PDF at a time, with its authority.
OneExport ==
    /\ \A i, j \in DOMAIN tail :
         Exports(i) /\ Exports(j) /\ tail[i].screen = tail[j].screen => i = j
    /\ \A i \in DOMAIN tail : Exports(i) =>
         authority[tail[i].screen] # None /\ authority[tail[i].screen].kind = "pdf"

\* Who left its screen gave up its authority.
LeftMeansAborted ==
    \A s \in Screens : authority[s] # None /\ s \notin open => authority[s].aborted

\* A PDF is protected from clean-ups until its operation begins, and then
\* deleted by it.
Protected ==
    /\ inUse \subseteq pdfs
    /\ \A i \in DOMAIN tail : Owns(i) =>
         /\ PdfOf(i) \in 1 .. prints
         /\ i # 1 \/ shareStage = "called" => PdfOf(i) \in inUse
    /\ \A i, j \in DOMAIN tail : Owns(i) /\ Owns(j) /\ PdfOf(i) = PdfOf(j) => i = j

Begun ==
    /\ shareStage # "called" => tail # <<>>
    /\ shareStage \in {"available", "sheet", "delete"} => Owns(1) /\ PdfOf(1) \notin inUse
    /\ shareStage = "available" => PdfOf(1) \in pdfs

Accounted ==
    /\ \A f \in pdfs \ failed : \E i \in DOMAIN tail : Owns(i) /\ PdfOf(i) = f
    /\ \A f \in inUse : \E i \in DOMAIN tail : Owns(i) /\ PdfOf(i) = f

ShareInv ==
    ShareTypes /\ OneExport /\ LeftMeansAborted /\ Protected /\ Begun /\ Accounted

LEMMA ShareInvInit == Share!Init => ShareInv
<1> SUFFICES ASSUME Share!Init PROVE ShareInv
  OBVIOUS
<1>1. <<>> \in Seq(ShareOps) /\ DOMAIN <<>> = {}
  OBVIOUS
<1> QED
  BY <1>1 DEF Share!Init, ShareInv, ShareTypes, OneExport, LeftMeansAborted, Protected, Begun,
              Accounted

LEMMA ShareInvTypes == ShareInv => Share!TypeOK
BY DEF ShareInv, ShareTypes, Share!TypeOK, ShareOps, Authorities

\* The operations of the exporter are of screens.
LEMMA OpScreens ==
    ASSUME ShareTypes
    PROVE  \A i \in DOMAIN tail : tail[i] \in ShareOps /\ tail[i].screen \in Screens
<1>1. \A i \in DOMAIN tail : tail[i] \in ShareOps
  BY DEF ShareTypes
<1>2. \A op \in ShareOps : op.screen \in Screens
  BY DEF ShareOps
<1> QED
  BY <1>1, <1>2

LEMMA HeadOfTail ==
    ASSUME ShareTypes, tail # <<>>
    PROVE  /\ 1 \in DOMAIN tail /\ Head(tail) = tail[1] /\ Head(tail) \in ShareOps
           /\ Head(tail).screen \in Screens
<1>1. 1 \in DOMAIN tail /\ Head(tail) = tail[1]
  BY DEF ShareTypes
<1> QED
  BY <1>1, OpScreens

\* When the head is over, every other operation moves up by one.
LEMMA TailShifts ==
    ASSUME ShareTypes, tail # <<>>
    PROVE  /\ Tail(tail) \in Seq(ShareOps)
           /\ \A i \in DOMAIN Tail(tail) :
                i + 1 \in DOMAIN tail /\ i + 1 # 1 /\ Tail(tail)[i] = tail[i + 1] /\ i \in Nat
           /\ \A i \in DOMAIN tail \ {1} :
                \E j \in DOMAIN Tail(tail) : Tail(tail)[j] = tail[i] /\ j + 1 = i
<1>1. tail \in Seq(ShareOps)
  BY DEF ShareTypes
<1>2. /\ Tail(tail) \in Seq(ShareOps) /\ Len(Tail(tail)) = Len(tail) - 1
      /\ \A i \in DOMAIN Tail(tail) :
                i + 1 \in DOMAIN tail /\ i + 1 # 1 /\ Tail(tail)[i] = tail[i + 1] /\ i \in Nat
  BY <1>1
<1>3. ASSUME NEW i \in DOMAIN tail \ {1}
      PROVE  i - 1 \in DOMAIN Tail(tail) /\ (i - 1) + 1 = i /\ Tail(tail)[i - 1] = tail[i]
  BY <1>1
<1> QED
  BY <1>2, <1>3

\* The screen.
LEMMA AuthorityChanges ==
    ASSUME NEW a \in Authorities
    PROVE  /\ [a EXCEPT !.aborted = TRUE] \in Authorities
           /\ [a EXCEPT !.aborted = TRUE].kind = a.kind /\ [a EXCEPT !.aborted = TRUE].aborted
           /\ [a EXCEPT !.stale = TRUE] \in Authorities
           /\ [a EXCEPT !.stale = TRUE].kind = a.kind
           /\ [a EXCEPT !.stale = TRUE].aborted = a.aborted
BY DEF Authorities, Share!Authorities

\* An authority is marked.
LEMMA MarksKeep ==
    ASSUME ShareInv, UNCHANGED <<tail, shareStage, pdf, inUse, pdfs, prints, failed>>,
           open' \subseteq open,
           authority' \in [Screens -> Authorities \cup {None}],
           \A s \in Screens : authority'[s] = authority[s]
              \/ (/\ authority[s] # None /\ authority'[s] # None
                  /\ authority'[s].kind = authority[s].kind
                  /\ authority[s].aborted => authority'[s].aborted),
           \A s \in open \ open' : authority'[s] # None => authority'[s].aborted
    PROVE  ShareInv'
<1>1. ShareTypes'
  BY DEF ShareInv, ShareTypes
<1>2. OneExport'
  <2>1. \A i \in DOMAIN tail : tail[i].screen \in Screens
    BY OpScreens DEF ShareInv
  <2> QED
    BY <2>1 DEF ShareInv, OneExport, Exports
<1>3. LeftMeansAborted'
  BY DEF ShareInv, LeftMeansAborted
<1>4. Protected' /\ Begun' /\ Accounted'
  BY DEF ShareInv, Protected, Begun, Accounted, Owns, PdfOf
<1> QED
  BY <1>1, <1>2, <1>3, <1>4 DEF ShareInv

LEMMA InterruptionsKeep ==
    ASSUME ShareInv,
           Share!Background \/ \E s \in Screens : Share!Unmount(s) \/ Share!Reload(s)
    PROVE  ShareInv'
<1>0. ShareTypes
  BY DEF ShareInv
<1>1. ASSUME NEW S, open' \subseteq open, UNCHANGED <<tail, shareStage, pdf, inUse, pdfs, prints, failed>>,
             authority' = [s \in Screens |-> IF authority[s] # None /\ S[s]
                                              THEN [authority[s] EXCEPT !.aborted = TRUE]
                                              ELSE authority[s]],
             \A s \in open \ open' : S[s]
      PROVE  ShareInv'
  <2>1. \A s \in Screens : authority[s] # None => authority[s] \in Authorities
    BY <1>0 DEF ShareTypes
  <2>2. authority' \in [Screens -> Authorities \cup {None}]
    BY <1>1, <2>1, AuthorityChanges DEF ShareInv, ShareTypes
  <2>3. \A s \in Screens : authority'[s] = authority[s]
              \/ (/\ authority[s] # None /\ authority'[s] # None
                  /\ authority'[s].kind = authority[s].kind
                  /\ authority'[s].aborted)
    BY <1>1, <2>1, AuthorityChanges, ShareConstants
  <2>4. \A s \in open \ open' : authority'[s] # None => authority'[s].aborted
    BY <1>0, <1>1, <2>1, AuthorityChanges, ShareConstants DEF ShareTypes
  <2> QED
    BY <1>1, <2>2, <2>3, <2>4, MarksKeep
<1>2. CASE Share!Background
  <2> DEFINE S == [s \in Screens |-> s \in open /\ authority[s] # None /\ authority[s].kind # "delete"]
  <2>1. authority' = [s \in Screens |-> IF authority[s] # None /\ S[s]
                                              THEN [authority[s] EXCEPT !.aborted = TRUE]
                                              ELSE authority[s]]
    BY <1>2 DEF Share!Background, Share!Abort
  <2>2. open' = open /\ UNCHANGED <<tail, shareStage, pdf, inUse, pdfs, prints, failed>>
    BY <1>2 DEF Share!Background, Share!exporter, Share!disk
  <2> HIDE DEF S
  <2> QED
    BY <1>1, <2>1, <2>2
<1>3. ASSUME NEW q \in Screens, Share!Unmount(q)
      PROVE  ShareInv'
  <2> DEFINE S == [s \in Screens |-> s = q]
  <2>1. authority' = [s \in Screens |-> IF authority[s] # None /\ S[s]
                                              THEN [authority[s] EXCEPT !.aborted = TRUE]
                                              ELSE authority[s]]
    BY <1>3 DEF Share!Unmount, Share!Abort
  <2>2. open' = open \ {q} /\ UNCHANGED <<tail, shareStage, pdf, inUse, pdfs, prints, failed>>
    BY <1>3 DEF Share!Unmount, Share!exporter, Share!disk
  <2>3. \A s \in open \ open' : S[s]
    BY <2>2
  <2> HIDE DEF S
  <2> QED
    BY <1>1, <2>1, <2>2, <2>3
<1>4. ASSUME NEW q \in Screens, Share!Reload(q)
      PROVE  ShareInv'
  <2> DEFINE a == [authority[q] EXCEPT !.stale = TRUE]
  <2>1. /\ authority[q] # None /\ authority' = [authority EXCEPT ![q] = a]
        /\ UNCHANGED <<open, tail, shareStage, pdf, inUse, pdfs, prints, failed>>
    BY <1>4 DEF Share!Reload, Share!exporter, Share!disk
  <2>2. authority[q] \in Authorities
    BY <1>0, <2>1 DEF ShareTypes
  <2>3. a \in Authorities /\ a # None /\ a.kind = authority[q].kind /\ a.aborted = authority[q].aborted
    BY <2>2, AuthorityChanges, ShareConstants
  <2> HIDE DEF a
  <2>4. /\ authority' \in [Screens -> Authorities \cup {None}]
        /\ authority'[q] = a /\ \A s \in Screens \ {q} : authority'[s] = authority[s]
    BY <1>0, <2>1, <2>3 DEF ShareTypes
  <2> QED
    BY <2>1, <2>3, <2>4, MarksKeep
<1> QED
  BY <1>2, <1>3, <1>4

\* An authority is taken or ends, and an operation may be asked of the exporter.
LEMMA TextsKeep ==
    ASSUME ShareInv, NEW s \in Screens,
           Share!ShareText(s) \/ Share!DeleteReport(s) \/ Share!Answer(s)
    PROVE  ShareInv'
<1>1. PICK a \in Authorities \cup {None} :
        /\ authority' = [authority EXCEPT ![s] = a]
        /\ a # None => ~a.aborted /\ s \in open
        /\ authority[s] = None \/ authority[s].kind # "pdf"
        /\ UNCHANGED <<open, tail, shareStage, pdf, inUse, pdfs, prints, failed>>
  BY DEF Share!ShareText, Share!DeleteReport, Share!Answer, Share!Begin, Share!Finish, Authorities,
         Share!Authorities, Share!exporter, Share!disk
<1>2. /\ authority' \in [Screens -> Authorities \cup {None}]
      /\ authority'[s] = a /\ \A q \in Screens \ {s} : authority'[q] = authority[q]
  BY <1>1 DEF ShareInv, ShareTypes
<1>3. ShareTypes'
  BY <1>1, <1>2 DEF ShareInv, ShareTypes
<1>4. OneExport'
  <2>1. \A i \in DOMAIN tail : tail[i].screen \in Screens
    BY OpScreens DEF ShareInv
  <2> QED
    BY <1>1, <1>2, <2>1 DEF ShareInv, OneExport, Exports
<1>5. LeftMeansAborted'
  BY <1>1, <1>2 DEF ShareInv, LeftMeansAborted
<1>6. Protected' /\ Begun' /\ Accounted'
  BY <1>1 DEF ShareInv, Protected, Begun, Accounted, Owns, PdfOf
<1> QED
  BY <1>3, <1>4, <1>5, <1>6 DEF ShareInv

LEMMA AppendedOp ==
    ASSUME ShareTypes, NEW op \in ShareOps, tail' = Append(tail, op)
    PROVE  /\ tail' \in Seq(ShareOps) /\ tail' # <<>>
           /\ \E n \in DOMAIN tail' : /\ DOMAIN tail' = DOMAIN tail \cup {n} /\ n \notin DOMAIN tail
                                      /\ tail'[n] = op /\ (n = 1 => tail = <<>>)
           /\ \A i \in DOMAIN tail : tail'[i] = tail[i]
<1>1. tail \in Seq(ShareOps)
  BY DEF ShareTypes
<1> DEFINE n == Len(tail) + 1
<1>2. /\ n \in DOMAIN tail' /\ DOMAIN tail' = DOMAIN tail \cup {n} /\ n \notin DOMAIN tail
      /\ tail'[n] = op /\ (n = 1 => tail = <<>>)
      /\ tail' \in Seq(ShareOps) /\ tail' # <<>>
      /\ \A i \in DOMAIN tail : tail'[i] = tail[i]
  BY <1>1
<1> QED
  BY <1>2

LEMMA CallsKeep ==
    ASSUME ShareInv, NEW s \in Screens, Share!Mount(s) \/ Share!SharePdf(s)
    PROVE  ShareInv'
<1>0. ShareTypes
  BY DEF ShareInv
<1>1. PICK kind \in {"cleanup", "export"} :
        /\ tail' = Append(tail, [kind |-> kind, screen |-> s])
        /\ UNCHANGED <<shareStage, pdf, inUse, pdfs, prints, failed>>
        /\ \/ kind = "cleanup" /\ open' = open \cup {s} /\ authority[s] = None /\ UNCHANGED authority
           \/ /\ kind = "export" /\ s \in open /\ authority[s] = None /\ UNCHANGED open
              /\ authority' = [authority EXCEPT ![s] =
                   [kind |-> "pdf", aborted |-> FALSE, stale |-> FALSE]]
  BY DEF Share!Mount, Share!SharePdf, Share!Begin, Share!Enqueue, Share!Uses, Share!disk
<1> DEFINE op == [kind |-> kind, screen |-> s]
<1>2. op \in ShareOps /\ op.kind = kind /\ op.screen = s
  BY DEF ShareOps
<1> HIDE DEF op
<1>3. PICK n \in DOMAIN tail' :
        /\ DOMAIN tail' = DOMAIN tail \cup {n} /\ n \notin DOMAIN tail
        /\ tail'[n] = op /\ (n = 1 => tail = <<>>)
        /\ tail' \in Seq(ShareOps) /\ tail' # <<>>
        /\ \A i \in DOMAIN tail : tail'[i] = tail[i]
  BY <1>0, <1>1, <1>2, AppendedOp DEF op
<1>4. /\ authority' \in [Screens -> Authorities \cup {None}]
      /\ \A q \in Screens \ {s} : authority'[q] = authority[q]
      /\ kind = "export" => authority'[s] # None /\ authority'[s].kind = "pdf" /\ ~authority'[s].aborted
      /\ kind = "cleanup" => authority'[s] = authority[s]
  <2> DEFINE a == [kind |-> "pdf", aborted |-> FALSE, stale |-> FALSE]
  <2>1. a \in Authorities /\ a.kind = "pdf" /\ ~a.aborted
    BY DEF Authorities, Share!Authorities
  <2>2. authority' = authority \/ authority' = [authority EXCEPT ![s] = a]
    BY <1>1
  <2>3. kind = "export" => authority' = [authority EXCEPT ![s] = a]
    BY <1>1
  <2>4. kind = "cleanup" => authority' = authority
    BY <1>1
  <2> HIDE DEF a
  <2> QED
    BY <1>0, <2>1, <2>2, <2>3, <2>4, ShareConstants DEF ShareTypes
<1>5. \A i \in DOMAIN tail : tail[i].screen \in Screens /\ (Exports(i) => tail[i].screen # s)
  BY <1>0, <1>1, OpScreens DEF ShareInv, OneExport
<1>6. ShareTypes'
  BY <1>0, <1>1, <1>3, <1>4 DEF ShareTypes
<1>7. OneExport'
  BY <1>2, <1>3, <1>4, <1>5 DEF ShareInv, OneExport, Exports
<1>8. LeftMeansAborted'
  BY <1>1, <1>4 DEF ShareInv, LeftMeansAborted
<1>9. ~Owns(n)' /\ \A i \in DOMAIN tail : Owns(i)' = Owns(i) /\ PdfOf(i)' = PdfOf(i)
  BY <1>1, <1>2, <1>3 DEF Owns, PdfOf
<1>10. Protected' /\ Accounted'
  BY <1>1, <1>3, <1>9 DEF ShareInv, Protected, Accounted
<1>11. Begun'
  <2>1. shareStage # "called" => 1 \in DOMAIN tail
    BY <1>0, HeadOfTail DEF ShareInv, Begun
  <2> QED
    BY <1>1, <1>3, <1>9, <2>1 DEF ShareInv, Begun
<1> QED
  BY <1>6, <1>7, <1>8, <1>10, <1>11 DEF ShareInv

-----------------------------------------------------------------------------
(* The exporter *)

\* The operation at the head ends, with its PDF gone or known to be left.
LEMMA EndsKeep ==
    ASSUME ShareInv, tail # <<>>, Share!Ends, open' = open, inUse' = inUse,
           \/ ~Exports(1) /\ authority' = authority /\ pdf' = pdf
           \/ Exports(1) /\ authority' = [authority EXCEPT ![tail[1].screen] = None],
           pdf' = pdf \/ pdf' = [pdf EXCEPT ![tail[1].screen] = None],
           prints' \in Nat, prints <= prints', pdfs' \subseteq 1 .. prints', inUse \subseteq pdfs',
           pdfs' \ failed' \subseteq pdfs \ failed,
           Owns(1) => PdfOf(1) \notin pdfs' \ failed' /\ PdfOf(1) \notin inUse
    PROVE  ShareInv'
<1>0. ShareTypes /\ tail' = Tail(tail) /\ shareStage' = "called"
  BY DEF ShareInv, Share!Ends
<1>1. 1 \in DOMAIN tail /\ tail[1].screen \in Screens
  BY <1>0, HeadOfTail, OpScreens
<1>2. /\ tail' \in Seq(ShareOps)
      /\ \A i \in DOMAIN tail' :
           i + 1 \in DOMAIN tail /\ i + 1 # 1 /\ tail'[i] = tail[i + 1] /\ i \in Nat
      /\ \A i \in DOMAIN tail \ {1} : \E j \in DOMAIN tail' : tail'[j] = tail[i] /\ j + 1 = i
  BY <1>0, TailShifts
<1>3. 1 .. prints \subseteq 1 .. prints'
  BY DEF ShareInv, ShareTypes
<1>4. /\ pdf' \in [Screens -> 1 .. prints' \cup {None}]
      /\ authority' \in [Screens -> Authorities \cup {None}]
      /\ \A s \in Screens : pdf'[s] = pdf[s] \/ (s = tail[1].screen /\ Exports(1))
      /\ \A s \in Screens : authority'[s] = authority[s] \/ (s = tail[1].screen /\ Exports(1) /\ authority'[s] = None)
  BY <1>0, <1>1, <1>3 DEF ShareTypes
<1>5. ShareTypes'
  BY <1>0, <1>2, <1>3, <1>4 DEF ShareTypes
<1>6. \A i \in DOMAIN tail' : (Exports(i)' <=> Exports(i + 1)) /\ (Owns(i)' <=> Owns(i + 1))
  BY <1>2 DEF Exports, Owns
<1>7. \A i \in DOMAIN tail' : Exports(i)' =>
        /\ tail'[i].screen \in Screens /\ tail'[i].screen = tail[i + 1].screen
        /\ authority'[tail'[i].screen] = authority[tail[i + 1].screen]
        /\ PdfOf(i)' = PdfOf(i + 1)
  BY <1>0, <1>1, <1>2, <1>4, <1>6, OpScreens DEF ShareInv, OneExport, PdfOf
<1>8. \A i : Owns(i) => Exports(i)
  BY DEF Owns, Exports
<1>9. \A i \in DOMAIN tail' : Owns(i)' => Exports(i)'
  BY DEF Owns, Exports
<1>10. OneExport'
  <2>1. ASSUME NEW i \in DOMAIN tail', NEW j \in DOMAIN tail',
               Exports(i)', Exports(j)', tail'[i].screen = tail'[j].screen
        PROVE  i = j
    <3>1. i + 1 = j + 1
      BY <1>2, <1>6, <1>7, <2>1 DEF ShareInv, OneExport
    <3> QED
      BY <1>2, <2>1, <3>1
  <2>2. \A i \in DOMAIN tail' : Exports(i)' =>
          authority'[tail'[i].screen] # None /\ authority'[tail'[i].screen].kind = "pdf"
    BY <1>2, <1>6, <1>7 DEF ShareInv, OneExport
  <2> QED
    BY <2>1, <2>2 DEF OneExport
<1>11. LeftMeansAborted'
  BY <1>4 DEF ShareInv, LeftMeansAborted
<1>12. Protected'
  <2>1. \A i \in DOMAIN tail' : Owns(i)' => PdfOf(i)' \in 1 .. prints' /\ PdfOf(i)' \in inUse
    BY <1>2, <1>3, <1>6, <1>7, <1>9 DEF ShareInv, Protected
  <2>2. ASSUME NEW i \in DOMAIN tail', NEW j \in DOMAIN tail', Owns(i)', Owns(j)', PdfOf(i)' = PdfOf(j)'
        PROVE  i = j
    <3>1. i + 1 = j + 1
      BY <1>2, <1>6, <1>7, <1>9, <2>2 DEF ShareInv, Protected
    <3> QED
      BY <1>2, <2>2, <3>1
  <2> QED
    BY <2>1, <2>2 DEF Protected
<1>13. Begun'
  BY <1>0 DEF Begun
<1>14. Accounted'
  <2>1. ASSUME NEW f, f \in pdfs' \ failed' \/ f \in inUse
        PROVE  \E i \in DOMAIN tail' : Owns(i)' /\ PdfOf(i)' = f
    <3>1. PICK i \in DOMAIN tail : Owns(i) /\ PdfOf(i) = f
      BY <2>1 DEF ShareInv, Accounted
    <3>2. i # 1
      BY <2>1, <3>1
    <3>3. PICK j \in DOMAIN tail' : tail'[j] = tail[i] /\ j + 1 = i
      BY <1>2, <3>2
    <3> QED
      BY <1>6, <1>7, <1>9, <3>1, <3>3
  <2> QED
    BY <2>1 DEF Accounted
<1> QED
  BY <1>5, <1>10, <1>11, <1>12, <1>13, <1>14 DEF ShareInv

LEMMA EndingsKeep ==
    ASSUME ShareInv, Share!Cleanup \/ Share!ExportFails \/ Share!PrintInvalid \/ Share!DeleteFile
    PROVE  ShareInv'
<1>0. ShareTypes /\ tail # <<>>
  BY DEF ShareInv, Share!Cleanup, Share!ExportFails, Share!PrintInvalid, Share!DeleteFile, Share!Runs
<1>1. 1 \in DOMAIN tail /\ Share!Op = tail[1] /\ tail[1].screen \in Screens
  BY <1>0, HeadOfTail, OpScreens DEF Share!Op
<1>2. /\ prints \in Nat /\ prints <= prints /\ pdfs \subseteq 1 .. prints /\ inUse \subseteq pdfs
      /\ prints + 1 \in Nat /\ prints <= prints + 1 /\ prints + 1 \in 1 .. prints + 1
      /\ 1 .. prints \subseteq 1 .. prints + 1
  BY <1>0 DEF ShareTypes, ShareInv, Protected
<1>3. ASSUME Share!Sweep \/ Share!SweepFails
      PROVE  /\ prints' = prints /\ pdfs' \subseteq pdfs /\ inUse \subseteq pdfs'
             /\ pdfs' \ failed' \subseteq pdfs \ failed
  BY <1>2, <1>3 DEF Share!Sweep, Share!SweepFails
<1>4. CASE Share!Cleanup
  <2>1. ~Exports(1) /\ ~Owns(1)
    BY <1>1, <1>4 DEF Share!Cleanup, Share!Runs, Exports, Owns
  <2>2. /\ Share!Sweep \/ Share!SweepFails
        /\ Share!Ends /\ UNCHANGED <<pdf, inUse, open, authority>>
    BY <1>4 DEF Share!Cleanup, Share!screen
  <2> QED
    BY <1>0, <1>2, <1>3, <2>1, <2>2, EndsKeep
<1>5. CASE Share!ExportFails
  <2>1. Exports(1) /\ ~Owns(1)
    BY <1>1, <1>5 DEF Share!ExportFails, Share!Runs, Exports, Owns
  <2>2. /\ Share!SweepFails \/ UNCHANGED <<pdfs, prints, failed>>
        /\ Share!Ends /\ UNCHANGED <<pdf, inUse, open>>
        /\ authority' = [authority EXCEPT ![tail[1].screen] = None]
    BY <1>1, <1>5 DEF Share!ExportFails, Share!Finish, Share!disk
  <2> QED
    BY <1>0, <1>2, <1>3, <2>1, <2>2, EndsKeep
<1>6. CASE Share!PrintInvalid
  <2>1. Exports(1) /\ ~Owns(1)
    BY <1>1, <1>6 DEF Share!PrintInvalid, Share!Runs, Exports, Owns
  <2>2. /\ Share!Ends /\ UNCHANGED <<pdf, inUse, open>> /\ prints' = prints + 1
        /\ authority' = [authority EXCEPT ![tail[1].screen] = None]
        /\ \/ UNCHANGED <<pdfs, failed>>
           \/ pdfs' = pdfs \cup {prints'} /\ failed' = failed \cup {prints'}
    BY <1>1, <1>6 DEF Share!PrintInvalid, Share!Finish
  <2>3. /\ pdfs' \subseteq 1 .. prints' /\ inUse \subseteq pdfs' /\ pdfs' \ failed' \subseteq pdfs \ failed
        /\ prints' \in Nat /\ prints <= prints'
    BY <1>2, <2>2
  <2> QED
    BY <1>0, <2>1, <2>2, <2>3, EndsKeep
<1>7. CASE Share!DeleteFile
  <2>1. Exports(1) /\ Owns(1) /\ shareStage = "delete"
    BY <1>1, <1>7 DEF Share!DeleteFile, Share!Runs, Exports, Owns
  <2>2. /\ Share!Ends /\ UNCHANGED <<inUse, open, prints>>
        /\ authority' = [authority EXCEPT ![tail[1].screen] = None]
        /\ pdf' = [pdf EXCEPT ![tail[1].screen] = None]
        /\ \/ pdfs' = pdfs \ {PdfOf(1)} /\ UNCHANGED failed
           \/ failed' = failed \cup {PdfOf(1)} /\ UNCHANGED pdfs
    BY <1>1, <1>7 DEF Share!DeleteFile, Share!Finish, PdfOf
  <2>3. PdfOf(1) \notin inUse
    BY <2>1 DEF ShareInv, Begun
  <2>4. /\ pdfs' \subseteq 1 .. prints' /\ inUse \subseteq pdfs' /\ pdfs' \ failed' \subseteq pdfs \ failed
        /\ PdfOf(1) \notin pdfs' \ failed' /\ prints' \in Nat /\ prints <= prints'
    BY <1>2, <2>2, <2>3
  <2> QED
    BY <1>0, <2>1, <2>2, <2>3, <2>4, EndsKeep
<1> QED
  BY <1>4, <1>5, <1>6, <1>7

\* The operation at the head goes on.
LEMMA StageChangesKeep ==
    ASSUME ShareInv, tail # <<>>, UNCHANGED <<open, authority, tail, pdf, prints, failed>>,
           shareStage' \in {"print", "available", "sheet", "delete"},
           pdfs' \subseteq pdfs, inUse' \subseteq inUse, inUse' \subseteq pdfs',
           \A f \in inUse \ inUse' : Owns(1) /\ f = PdfOf(1),
           \/ shareStage' = "print"
           \/ Owns(1) /\ PdfOf(1) \notin inUse' /\ (shareStage' = "available" => PdfOf(1) \in pdfs')
    PROVE  ShareInv'
<1>0. 1 \in DOMAIN tail
  BY HeadOfTail DEF ShareInv
<1>1. \A i : Owns(i)' = Owns(i) /\ PdfOf(i)' = PdfOf(i) /\ Exports(i)' = Exports(i)
  BY DEF Owns, PdfOf, Exports
<1>2. ShareTypes'
  BY DEF ShareInv, ShareTypes
<1>3. OneExport' /\ LeftMeansAborted'
  BY <1>1 DEF ShareInv, OneExport, LeftMeansAborted
<1>4. Protected'
  BY <1>0, <1>1 DEF ShareInv, Protected
<1>5. Begun' /\ Accounted'
  BY <1>1 DEF ShareInv, Begun, Accounted
<1> QED
  BY <1>2, <1>3, <1>4, <1>5 DEF ShareInv

LEMMA MiddlesKeep ==
    ASSUME ShareInv,
           \/ Share!ExportSweeps \/ Share!Redeem \/ Share!OpenSheet
           \/ Share!NoSheet \/ Share!CloseSheet
    PROVE  ShareInv'
<1>0. ShareTypes /\ tail # <<>>
  BY DEF ShareInv, Share!ExportSweeps, Share!Redeem, Share!OpenSheet, Share!NoSheet,
         Share!CloseSheet, Share!Runs
<1>1. 1 \in DOMAIN tail /\ Share!Op = tail[1] /\ tail[1].screen \in Screens
  BY <1>0, HeadOfTail, OpScreens DEF Share!Op
<1>2. inUse \subseteq pdfs
  BY DEF ShareInv, Protected
<1>3. CASE Share!ExportSweeps
  BY <1>0, <1>2, <1>3, StageChangesKeep
     DEF Share!ExportSweeps, Share!Sweep, Share!Goes, Share!screen
<1>4. CASE Share!Redeem
  <2>1. Owns(1) /\ shareStage = "called" /\ UNCHANGED <<open, authority, tail, pdf, pdfs, prints, failed>>
        /\ inUse' = inUse \ {PdfOf(1)} /\ shareStage' \in {"available", "delete"}
    BY <1>1, <1>4 DEF Share!Redeem, Share!Runs, Owns, PdfOf, Share!screen, Share!disk
  <2>2. PdfOf(1) \in inUse
    BY <1>1, <2>1 DEF ShareInv, Protected
  <2> QED
    BY <1>0, <1>2, <2>1, <2>2, StageChangesKeep
<1>5. CASE Share!OpenSheet \/ Share!NoSheet \/ Share!CloseSheet
  <2>1. /\ UNCHANGED <<open, authority, tail, pdf, pdfs, prints, failed, inUse>>
        /\ shareStage \in {"available", "sheet"} /\ shareStage' \in {"sheet", "delete"}
    BY <1>5 DEF Share!OpenSheet, Share!NoSheet, Share!CloseSheet, Share!Runs, Share!Goes,
                Share!screen, Share!disk
  <2>2. Owns(1) /\ PdfOf(1) \notin inUse
    BY <2>1 DEF ShareInv, Begun
  <2> QED
    BY <1>0, <1>2, <2>1, <2>2, StageChangesKeep
<1> QED
  BY <1>3, <1>4, <1>5

\* A PDF that was printed has the operation that shares or discards it.
LEMMA PrintsKeep ==
    ASSUME ShareInv, Share!Prints
    PROVE  ShareInv'
<1>0. ShareTypes /\ tail # <<>>
  BY DEF ShareInv, Share!Prints, Share!Runs
<1>1. 1 \in DOMAIN tail /\ Share!Op = tail[1] /\ tail[1].screen \in Screens
  BY <1>0, HeadOfTail, OpScreens DEF Share!Op
<1> DEFINE s == tail[1].screen
<1>2. PICK op \in ShareOps :
        /\ op.kind \in {"share", "discard"} /\ op.screen = s
        /\ tail' = Append(Tail(tail), op)
  <2>1. PICK kind \in {"share", "discard"} : tail' = Tail(tail) \o <<[kind |-> kind, screen |-> s]>>
    BY <1>1 DEF Share!Prints, Share!FollowUp
  <2> DEFINE op == [kind |-> kind, screen |-> s]
  <2>2. op \in ShareOps /\ op.kind = kind /\ op.screen = s
    BY <1>1 DEF ShareOps
  <2>3. tail' = Tail(tail) \o <<op>>
    BY <2>1
  <2>4. Tail(tail) \in Seq(ShareOps)
    BY <1>0, TailShifts
  <2> HIDE DEF op
  <2>5. Tail(tail) \o <<op>> = Append(Tail(tail), op)
    BY <2>2, <2>4
  <2> QED
    BY <2>2, <2>3, <2>5
<1>3. /\ Exports(1) /\ ~Owns(1) /\ shareStage = "print" /\ shareStage' = "called"
      /\ prints' = prints + 1 /\ pdfs' = pdfs \cup {prints'} /\ inUse' = inUse \cup {prints'}
      /\ pdf' = [pdf EXCEPT ![s] = prints'] /\ UNCHANGED <<open, authority, failed>>
  BY <1>1 DEF Share!Prints, Share!Runs, Exports, Owns, Share!screen
<1> HIDE DEF s
<1>4. /\ Tail(tail) \in Seq(ShareOps)
      /\ \A i \in DOMAIN Tail(tail) :
           i + 1 \in DOMAIN tail /\ i + 1 # 1 /\ Tail(tail)[i] = tail[i + 1] /\ i \in Nat
      /\ \A i \in DOMAIN tail \ {1} : \E j \in DOMAIN Tail(tail) : Tail(tail)[j] = tail[i] /\ j + 1 = i
  BY <1>0, TailShifts
<1>5. PICK n \in DOMAIN tail' :
        /\ DOMAIN tail' = DOMAIN Tail(tail) \cup {n} /\ n \notin DOMAIN Tail(tail)
        /\ tail'[n] = op /\ tail' \in Seq(ShareOps)
        /\ \A i \in DOMAIN Tail(tail) : tail'[i] = Tail(tail)[i]
  <2> DEFINE q == Tail(tail)
  <2>1. q \in Seq(ShareOps) /\ tail' = Append(q, op)
    BY <1>2, <1>4
  <2> HIDE DEF q
  <2> DEFINE n == Len(q) + 1
  <2>2. /\ n \in DOMAIN tail' /\ DOMAIN tail' = DOMAIN q \cup {n} /\ n \notin DOMAIN q
        /\ tail'[n] = op /\ tail' \in Seq(ShareOps)
        /\ \A i \in DOMAIN q : tail'[i] = q[i]
    BY <2>1
  <2> QED
    BY <2>2 DEF q
<1>6. /\ prints \in Nat /\ prints' \in Nat /\ 1 .. prints \subseteq 1 .. prints'
      /\ prints' \in 1 .. prints' /\ prints' \notin 1 .. prints
  BY <1>0, <1>3 DEF ShareTypes
<1>7. /\ pdf' \in [Screens -> 1 .. prints' \cup {None}] /\ s \in Screens /\ pdf'[s] = prints'
      /\ \A q \in Screens \ {s} : pdf'[q] = pdf[q]
  BY <1>0, <1>1, <1>3, <1>6 DEF ShareTypes, s
<1>8. ShareTypes'
  BY <1>0, <1>3, <1>5, <1>6, <1>7 DEF ShareTypes
<1>9. /\ Owns(n)' /\ Exports(n)' /\ tail'[n].screen = s /\ PdfOf(n)' = prints'
      /\ \A i \in DOMAIN tail' : Owns(i)' => Exports(i)'
  BY <1>2, <1>5, <1>7 DEF Owns, Exports, PdfOf
<1>10. ASSUME NEW i \in DOMAIN tail', i # n
       PROVE  /\ i + 1 \in DOMAIN tail /\ i + 1 # 1 /\ i \in Nat
              /\ tail'[i] = tail[i + 1] /\ tail[i + 1].screen \in Screens
              /\ Exports(i)' = Exports(i + 1) /\ Owns(i)' = Owns(i + 1)
              /\ Exports(i + 1) => tail[i + 1].screen # s /\ PdfOf(i)' = PdfOf(i + 1)
  <2>1. /\ i + 1 \in DOMAIN tail /\ i + 1 # 1 /\ i \in Nat
        /\ tail'[i] = tail[i + 1] /\ tail[i + 1].screen \in Screens
    BY <1>0, <1>4, <1>5, <1>10, OpScreens
  <2>2. Exports(i)' = Exports(i + 1) /\ Owns(i)' = Owns(i + 1)
    BY <2>1 DEF Exports, Owns
  <2>3. Exports(i + 1) => tail[i + 1].screen # s
    BY <1>1, <1>3, <2>1 DEF ShareInv, OneExport, s
  <2> QED
    BY <1>7, <2>1, <2>2, <2>3 DEF PdfOf
<1>11. OneExport'
  <2>1. ASSUME NEW i \in DOMAIN tail', NEW j \in DOMAIN tail',
               Exports(i)', Exports(j)', tail'[i].screen = tail'[j].screen
        PROVE  i = j
    <3>1. CASE i # n /\ j # n
      <4>1. i + 1 = j + 1
        BY <1>10, <2>1, <3>1 DEF ShareInv, OneExport
      <4> QED
        BY <1>10, <3>1, <4>1
    <3>2. CASE i = n \/ j = n
      BY <1>9, <1>10, <2>1, <3>2
    <3> QED
      BY <3>1, <3>2
  <2>2. ASSUME NEW i \in DOMAIN tail', Exports(i)'
        PROVE  authority'[tail'[i].screen] # None /\ authority'[tail'[i].screen].kind = "pdf"
    BY <1>1, <1>3, <1>9, <1>10, <2>2 DEF ShareInv, OneExport, s
  <2> QED
    BY <2>1, <2>2 DEF OneExport
<1>12. LeftMeansAborted'
  BY <1>3 DEF ShareInv, LeftMeansAborted
<1>13. \A i \in DOMAIN tail' : i # n /\ Owns(i)' =>
         PdfOf(i)' = PdfOf(i + 1) /\ PdfOf(i)' \in 1 .. prints /\ PdfOf(i)' \in inUse
  BY <1>9, <1>10 DEF ShareInv, Protected
<1>14. Protected'
  <2>1. inUse' \subseteq pdfs'
    BY <1>3 DEF ShareInv, Protected
  <2>2. \A i \in DOMAIN tail' : Owns(i)' => PdfOf(i)' \in 1 .. prints' /\ PdfOf(i)' \in inUse'
    BY <1>3, <1>6, <1>9, <1>13
  <2>3. ASSUME NEW i \in DOMAIN tail', NEW j \in DOMAIN tail', Owns(i)', Owns(j)', PdfOf(i)' = PdfOf(j)'
        PROVE  i = j
    <3>1. CASE i # n /\ j # n
      <4>1. i + 1 = j + 1
        BY <1>10, <1>13, <2>3, <3>1 DEF ShareInv, Protected
      <4> QED
        BY <1>10, <3>1, <4>1
    <3>2. CASE i = n \/ j = n
      BY <1>6, <1>9, <1>13, <2>3, <3>2
    <3> QED
      BY <3>1, <3>2
  <2> QED
    BY <2>1, <2>2, <2>3 DEF Protected
<1>15. Begun'
  BY <1>3 DEF Begun
<1>16. Accounted'
  <2>1. ASSUME NEW f, f \in pdfs' \ failed' \/ f \in inUse'
        PROVE  \E i \in DOMAIN tail' : Owns(i)' /\ PdfOf(i)' = f
    <3>1. CASE f = prints'
      BY <1>9, <3>1
    <3>2. CASE f # prints'
      <4>1. PICK i \in DOMAIN tail : Owns(i) /\ PdfOf(i) = f
        BY <1>3, <2>1, <3>2 DEF ShareInv, Accounted
      <4>2. i # 1
        BY <1>3, <4>1
      <4>3. PICK j \in DOMAIN Tail(tail) : Tail(tail)[j] = tail[i] /\ j + 1 = i
        BY <1>4, <4>2
      <4>4. j \in DOMAIN tail' /\ j # n
        BY <1>5, <4>3
      <4>5. Exports(i)
        BY <4>1 DEF Owns, Exports
      <4> QED
        BY <1>10, <4>1, <4>3, <4>4, <4>5
    <3> QED
      BY <3>1, <3>2
  <2> QED
    BY <2>1 DEF Accounted
<1> QED
  BY <1>8, <1>11, <1>12, <1>14, <1>15, <1>16 DEF ShareInv

LEMMA KillKeeps ==
    ASSUME ShareInv, Share!Kill
    PROVE  ShareInv'
<1>1. /\ open' = {} /\ authority' = [s \in Screens |-> None] /\ tail' = <<>>
      /\ shareStage' = "called" /\ pdf' = [s \in Screens |-> None] /\ inUse' = {}
      /\ failed' = failed \cup pdfs /\ UNCHANGED <<pdfs, prints>>
  BY DEF Share!Kill
<1>2. <<>> \in Seq(ShareOps) /\ DOMAIN <<>> = {}
  OBVIOUS
<1>3. ShareTypes'
  BY <1>1, <1>2 DEF ShareInv, ShareTypes
<1>4. OneExport' /\ LeftMeansAborted' /\ Protected' /\ Begun' /\ Accounted'
  BY <1>1, <1>2 DEF OneExport, LeftMeansAborted, Protected, Begun, Accounted
<1> QED
  BY <1>3, <1>4 DEF ShareInv

LEMMA ShareInvStep == ShareInv /\ [Share!Next]_shareVars => ShareInv'
<1> SUFFICES ASSUME ShareInv, [Share!Next]_shareVars PROVE ShareInv'
  OBVIOUS
<1>1. CASE UNCHANGED shareVars
  BY <1>1 DEF shareVars, ShareInv, ShareTypes, OneExport, LeftMeansAborted, Protected, Begun,
     Accounted, Exports, Owns, PdfOf
<1> QED
  BY <1>1, InterruptionsKeep, TextsKeep, CallsKeep, EndingsKeep, MiddlesKeep, PrintsKeep, KillKeeps
     DEF Share!Next

LEMMA ShareInvAccounted == ShareInv => PdfAccounted
BY DEF ShareInv, Accounted, Owns, PdfOf, PdfAccounted, Share!PdfAccounted

LEMMA OnlyWantedSheets ==
    ShareInv /\ [Share!Next]_shareVars =>
      (Share!Runs({"share"}, "available") /\ shareStage' = "sheet" =>
         /\ Share!Op.screen \in open /\ ~authority[Share!Op.screen].aborted
         /\ pdf[Share!Op.screen] \in pdfs)
<1> SUFFICES ASSUME ShareInv, [Share!Next]_shareVars, Share!Runs({"share"}, "available"),
                    shareStage' = "sheet"
             PROVE  /\ Share!Op.screen \in open /\ ~authority[Share!Op.screen].aborted
                    /\ pdf[Share!Op.screen] \in pdfs
  OBVIOUS
<1>0. shareStage = "available" /\ tail # <<>> /\ ShareTypes
  BY DEF Share!Runs, ShareInv
<1>1. 1 \in DOMAIN tail /\ Share!Op = tail[1] /\ tail[1].screen \in Screens
  BY <1>0, HeadOfTail, OpScreens DEF Share!Op
<1>2. ~authority[tail[1].screen].aborted
  <2>1. Share!OpenSheet
    BY <1>0
    DEF shareVars, Share!Next, Share!Mount, Share!SharePdf, Share!ShareText, Share!DeleteReport,
        Share!Answer, Share!Unmount, Share!Reload, Share!Background, Share!Cleanup,
        Share!ExportSweeps, Share!ExportFails, Share!PrintInvalid, Share!Prints, Share!Redeem,
        Share!NoSheet, Share!CloseSheet, Share!DeleteFile, Share!Kill, Share!Goes, Share!Ends,
        Share!exporter, Share!Runs
  <2> QED
    BY <1>1, <2>1 DEF Share!OpenSheet, Share!Wanted
<1>3. Owns(1) /\ Exports(1) /\ PdfOf(1) \in pdfs
  BY <1>0 DEF ShareInv, Begun, Owns, Exports
<1>4. authority[tail[1].screen] # None
  BY <1>1, <1>3 DEF ShareInv, OneExport
<1> QED
  BY <1>1, <1>2, <1>3, <1>4 DEF ShareInv, LeftMeansAborted, PdfOf

LEMMA ShareHolds == CustodySpec => []ShareInv /\ [][Share!Next]_shareVars
<1>1. CustodyInit => ShareInv
  BY ShareInvInit DEF CustodyInit
<1>2. [CustodyNext]_custodyVars => [Share!Next]_shareVars
  BY DEF CustodyNext, custodyVars
<1> QED
  BY <1>1, <1>2, ShareInvStep, PTL DEF CustodySpec

\* Every PDF that a share printed is waited for by an operation of the
\* exporter that deletes it, or its deletion failed or was cut short.
THEOREM PdfsAreAccounted == CustodySpec => []PdfAccounted
BY ShareHolds, ShareInvAccounted, PTL

\* The share sheet opens only over the screen that asked for it, while that
\* is mounted and has not given up, and for a file that is still there.
THEOREM SheetsAreWanted == CustodySpec => SheetIsWanted
<1>1. ShareInv /\ [Share!Next]_shareVars =>
        [Share!Runs({"share"}, "available") /\ shareStage' = "sheet" =>
         /\ Share!Op.screen \in open /\ ~authority[Share!Op.screen].aborted
         /\ pdf[Share!Op.screen] \in pdfs]_Share!vars
  BY OnlyWantedSheets
<1>2. CustodySpec =>
        [][Share!Runs({"share"}, "available") /\ shareStage' = "sheet" =>
         /\ Share!Op.screen \in open /\ ~authority[Share!Op.screen].aborted
         /\ pdf[Share!Op.screen] \in pdfs]_Share!vars
  BY <1>1, ShareHolds, PTL
<1> QED
  BY <1>2 DEF SheetIsWanted, Share!SheetIsWanted
=============================================================================
