-------------------------- MODULE TempFileRegistry --------------------------
(***************************************************************************)
(* mobile/src/documents/tempFileRegistry.ts: the directories of the cache  *)
(* in which copies of resumes live between being picked and being          *)
(* analysed.  Every operation runs inside one fence, a chain of promises,  *)
(* and waits for the file system several times while it is in it; a live   *)
(* request belongs to the lease of the caller that staged it.  The file    *)
(* system may fail anywhere, also after it did what it was asked, and the  *)
(* process may end anywhere: what is on disk stays and every lease goes.   *)
(***************************************************************************)
EXTENDS Integers, Sequences, SequencesExt

CONSTANTS
    Callers,      \* callers that stage a resume; a caller is its own lease
    Requests,     \* the request ids, which name the directories
    None,
    MaxAsks,      \* bounds of the model: cleanups a caller asks for,
    MaxSweeps,    \* sweeps of abandoned directories,
    MaxRestarts   \* and restarts of the app

RegistryAssumption ==
    /\ None \notin Callers /\ None \notin Requests
    /\ MaxAsks \in Nat /\ MaxSweeps \in Nat /\ MaxRestarts \in Nat

VARIABLES
    exists,    \* request directories on disk
    bytes,     \* the callers whose copies are in each directory
    live,      \* coordination.liveRequests: request to lease
    fence,     \* coordination.tail: the operations that wait for their turn
    at,        \* where each operation is
    req,       \* the request id of each caller
    pick,      \* where each caller is
    asks,      \* cleanups each caller asked for
    receipt,   \* callers that were told their directory was deleted
    entries,   \* directories the running sweep has not looked at,
    target,    \* the one it found without an owner, or None,
    missed,    \* and whether it left one behind
    sweeps, restarts

disk   == <<exists, bytes>>
caller == <<req, pick, asks, receipt>>
sweep  == <<entries, target, missed>>
bounds == <<sweeps, restarts>>
vars   == <<disk, live, fence, at, caller, sweep, bounds>>

Stagings == [kind : {"stage"}, by : Callers, n : {0}]
Cleanups == [kind : {"cleanup"}, by : Callers, n : 1 .. MaxAsks]
Sweeps   == [kind : {"sweep"}, by : {None}, n : 1 .. MaxSweeps]
Ops      == Stagings \cup Cleanups \cup Sweeps
Places   == {"start", "acquire", "create", "copy", "inspect", "undo", "look",
             "delete", "verify"}

Init ==
    /\ exists = {} /\ bytes = [r \in Requests |-> {}]
    /\ live = [r \in Requests |-> None]
    /\ fence = <<>> /\ at = [op \in Ops |-> "start"]
    /\ req \in [Callers -> Requests]
    /\ pick = [c \in Callers |-> "idle"]
    /\ asks = [c \in Callers |-> 0]
    /\ receipt = {}
    /\ entries = {} /\ target = None /\ missed = FALSE
    /\ sweeps = 0 /\ restarts = 0

-----------------------------------------------------------------------------
(* The callers                                                             *)

Enqueue(op) == fence' = Append(fence, op)

Stage(c) ==
    /\ pick[c] = "idle"
    /\ pick' = [pick EXCEPT ![c] = "staging"]
    /\ Enqueue([kind |-> "stage", by |-> c, n |-> 0])
    /\ UNCHANGED <<disk, live, at, req, asks, receipt, sweep, bounds>>

\* A caller is done with its source, or asks once more: its first cleanup
\* may have failed, or not have answered before its deadline.
Cleanup(c) ==
    /\ pick[c] = "held" /\ asks[c] < MaxAsks
    /\ asks' = [asks EXCEPT ![c] = @ + 1]
    /\ Enqueue([kind |-> "cleanup", by |-> c, n |-> asks[c] + 1])
    /\ UNCHANGED <<disk, live, at, req, pick, receipt, sweep, bounds>>

CleanupAbandoned ==
    /\ sweeps < MaxSweeps
    /\ sweeps' = sweeps + 1
    /\ Enqueue([kind |-> "sweep", by |-> None, n |-> sweeps + 1])
    /\ UNCHANGED <<disk, live, at, caller, sweep, restarts>>

Restart ==
    /\ restarts < MaxRestarts
    /\ restarts' = restarts + 1
    /\ live' = [r \in Requests |-> None]
    /\ fence' = <<>> /\ at' = [op \in Ops |-> "start"]
    /\ pick' = [c \in Callers |-> IF pick[c] = "idle" THEN "idle" ELSE "gone"]
    /\ entries' = {} /\ target' = None /\ missed' = FALSE
    /\ UNCHANGED <<disk, req, asks, receipt, sweeps>>

-----------------------------------------------------------------------------
(* The fence                                                               *)

Turn(op)     == fence # <<>> /\ Head(fence) = op

Step(op, from) == Turn(op) /\ at[op] = from
Leave          == fence' = Tail(fence)

Await(op, place)          == at' = [at EXCEPT ![op] = place] /\ UNCHANGED fence

Finish(op) == at' = [at EXCEPT ![op] = "start"] /\ Leave

Target(op) == req[op.by]
InUse(r)   == live[r] # None

-----------------------------------------------------------------------------
(* stagePdf                                                                *)

StageFails(op) ==
    /\ pick' = [pick EXCEPT ![op.by] = "failed"]
    /\ Finish(op)
    /\ UNCHANGED <<req, asks, receipt>>

\* acquireRequest looks for a live owner before it does anything else.
Begin(op) ==
    /\ Step(op, "start")
    /\ \/ InUse(Target(op)) /\ StageFails(op)
       \/ ~InUse(Target(op)) /\ Await(op, "acquire") /\ UNCHANGED caller
    /\ UNCHANGED <<disk, live, sweep, bounds>>

\* A directory without a live owner is left for abandoned cleanup.
Quarantined_Never(r) == FALSE
Quarantined(r)       == r \in exists

Acquire(op) ==
    /\ Step(op, "acquire")
    /\ \/ StageFails(op) /\ UNCHANGED live
       \/ /\ ~Quarantined(Target(op))
          /\ live' = [live EXCEPT ![Target(op)] = op.by]
          /\ Await(op, "create") /\ UNCHANGED caller
    /\ UNCHANGED <<disk, sweep, bounds>>

\* Each call may throw, and may have done its work all the same.
Create(op) ==
    /\ Step(op, "create")
    /\ \/ exists' = exists \cup {Target(op)}
          /\ (Await(op, "copy") \/ Await(op, "undo"))
       \/ UNCHANGED exists /\ Await(op, "undo")
    /\ UNCHANGED <<bytes, live, caller, sweep, bounds>>

Copy(op) ==
    /\ Step(op, "copy")
    /\ \/ bytes' = [bytes EXCEPT ![Target(op)] = @ \cup {op.by}]
          /\ (Await(op, "inspect") \/ Await(op, "undo"))
       \/ UNCHANGED bytes /\ Await(op, "undo")
    /\ UNCHANGED <<exists, live, caller, sweep, bounds>>

Inspect(op) ==
    /\ Step(op, "inspect")
    /\ \/ Await(op, "undo") /\ UNCHANGED pick
       \/ Finish(op) /\ pick' = [pick EXCEPT ![op.by] = "held"]
    /\ UNCHANGED <<disk, live, req, asks, receipt, sweep, bounds>>

Current_Live(c) == InUse(req[c])
Current(c)      == live[req[c]] = c

Release_Never(c) == UNCHANGED live
Release(c) == live' = IF Current(c) THEN [live EXCEPT ![req[c]] = None] ELSE live

\* cleanupFailedAcquisition gives the request back and then deletes.
Undo(op) ==
    /\ Step(op, "undo")
    /\ Release(op.by)
    /\ Await(op, "look")
    /\ UNCHANGED <<disk, caller, sweep, bounds>>

-----------------------------------------------------------------------------
(* cleanupRequest and cleanupRequestLocation                               *)

BeginCleanup(op) ==
    /\ op \in Cleanups /\ Step(op, "start")
    /\ \/ Current(op.by) /\ Await(op, "look")
       \/ ~Current(op.by) /\ Finish(op)                    \* refused
    /\ UNCHANGED <<disk, live, caller, sweep, bounds>>

\* The lease is handed back whatever became of the files; a staging that
\* was undone has failed whatever became of them.
Answer(op, gone) ==
    \/ /\ op \in Cleanups
       /\ Release(op.by)
       /\ receipt' = IF gone THEN receipt \cup {op.by} ELSE receipt
       /\ Finish(op)
       /\ UNCHANGED <<req, pick, asks>>
    \/ op \in Stagings /\ StageFails(op) /\ UNCHANGED live

Look(op) ==
    /\ op \in Stagings \cup Cleanups /\ Step(op, "look")
    /\ \/ Answer(op, FALSE)                                \* it cannot be read
       \/ Target(op) \notin exists /\ Answer(op, TRUE)
       \/ Target(op) \in exists /\ Await(op, "delete") /\ UNCHANGED <<live, caller>>
    /\ UNCHANGED <<disk, sweep, bounds>>

\* deleteDirectory does nothing, removes the copies only, or does it all.
Deleted(r) ==
    \/ UNCHANGED disk
    \/ bytes' = [bytes EXCEPT ![r] = {}] /\ exists' \in {exists, exists \ {r}}

Delete(op) ==
    /\ op \in Stagings \cup Cleanups /\ Step(op, "delete")
    /\ Deleted(Target(op))
    /\ \/ Answer(op, FALSE)
       \/ Await(op, "verify") /\ UNCHANGED <<live, caller>>
    /\ UNCHANGED <<sweep, bounds>>

Verified_Trusted(r) == TRUE
Verified(r)         == r \notin exists

Verify(op) ==
    /\ op \in Stagings \cup Cleanups /\ Step(op, "verify")
    /\ Answer(op, FALSE) \/ Answer(op, Verified(Target(op)))
    /\ UNCHANGED <<disk, sweep, bounds>>

-----------------------------------------------------------------------------
(* cleanupAbandonedUnfenced                                                *)

SweepList(op) ==
    /\ op \in Sweeps /\ Step(op, "start")
    /\ \/ entries' = exists /\ missed' = FALSE
       \/ entries' = {} /\ missed' = TRUE                  \* it cannot be read
    /\ Await(op, "look")
    /\ UNCHANGED <<disk, live, caller, target, bounds>>

\* A live request is left alone and counted.
Skipped_Uncounted(r) == InUse(r) /\ UNCHANGED missed
Skipped(r)           == InUse(r) /\ missed' = TRUE

SweepLook(op, r) ==
    /\ op \in Sweeps /\ Step(op, "look") /\ r \in entries
    /\ entries' = entries \ {r}
    /\ \/ Skipped(r) /\ UNCHANGED <<at, fence, target>>
       \/ /\ ~InUse(r) /\ missed' = TRUE                   \* it cannot be listed
          /\ UNCHANGED <<at, fence, target>>
       \/ /\ ~InUse(r) /\ target' = r
          /\ Await(op, "delete") /\ UNCHANGED missed
    /\ UNCHANGED <<disk, live, caller, bounds>>

SweepDelete(op) ==
    /\ op \in Sweeps /\ Step(op, "delete")
    /\ Deleted(target)
    /\ Await(op, "verify")
    /\ UNCHANGED <<live, caller, sweep, bounds>>

SweepVerify(op) ==
    /\ op \in Sweeps /\ Step(op, "verify")
    /\ \E threw \in BOOLEAN : missed' = (missed \/ threw \/ ~Verified(target))
    /\ target' = None
    /\ Await(op, "look")
    /\ UNCHANGED <<disk, live, caller, entries, bounds>>

SweepEnds(op) ==
    /\ op \in Sweeps /\ Step(op, "look") /\ entries = {}
    /\ Finish(op)
    /\ UNCHANGED <<disk, live, caller, sweep, bounds>>

-----------------------------------------------------------------------------

Run(op) ==
    \/ /\ op \in Stagings
       /\ Begin(op) \/ Acquire(op) \/ Create(op) \/ Copy(op) \/ Inspect(op) \/ Undo(op)
    \/ BeginCleanup(op) \/ Look(op) \/ Delete(op) \/ Verify(op)
    \/ SweepList(op) \/ SweepDelete(op) \/ SweepVerify(op) \/ SweepEnds(op)
    \/ \E r \in Requests : SweepLook(op, r)

Next ==
    \/ \E c \in Callers : Stage(c) \/ Cleanup(c)
    \/ CleanupAbandoned \/ Restart
    \/ \E op \in Ops : Run(op)

Spec == Init /\ [][Next]_vars

-----------------------------------------------------------------------------
(* Properties                                                              *)

TypeOK ==
    /\ exists \subseteq Requests /\ bytes \in [Requests -> SUBSET Callers]
    /\ live \in [Requests -> Callers \cup {None}]
    /\ fence \in Seq(Ops) /\ at \in [Ops -> Places]
    /\ req \in [Callers -> Requests]
    /\ pick \in [Callers -> {"idle", "staging", "held", "failed", "gone"}]
    /\ asks \in [Callers -> 0 .. MaxAsks] /\ receipt \subseteq Callers
    /\ entries \subseteq Requests /\ target \in Requests \cup {None}
    /\ missed \in BOOLEAN
    /\ sweeps \in 0 .. MaxSweeps /\ restarts \in 0 .. MaxRestarts
    /\ \A op \in Ops : at[op] # "start" => op \in ToSet(fence)

\* A directory that belongs to a lease never holds another caller's copy,
\* whatever failed, was left behind or was asked for before.
OwnBytesOnly == \A r \in Requests : InUse(r) => bytes[r] \subseteq {live[r]}

\* A source that was handed out stays where it is until its caller asks for
\* its cleanup: no sweep, and no other caller's cleanup or failure, takes it.
SourceKept ==
    \A c \in Callers :
        pick[c] = "held" /\ asks[c] = 0 =>
            live[req[c]] = c /\ req[c] \in exists /\ c \in bytes[req[c]]

\* A caller that was told its directory is deleted has no copy left anywhere.
DeletedMeansGone == \A c \in receipt, r \in Requests : c \notin bytes[r]

Asked(c) == \E op \in ToSet(fence) : op.kind = "cleanup" /\ op.by = c

\* A lease always has somebody to give it back: its request cannot stay
\* live, and so out of the reach of every sweep, after its caller is gone.
LiveHasHolder ==
    \A r \in Requests : InUse(r) =>
        /\ req[live[r]] = r
        /\ \/ pick[live[r]] = "staging"
           \/ pick[live[r]] = "held" /\ (asks[live[r]] = 0 \/ Asked(live[r]))

\* A sweep that reports nothing failed and nothing live left no directory.
SweepHonest ==
    [][\A op \in Sweeps : SweepEnds(op) /\ ~missed => exists = {}]_vars
=============================================================================
