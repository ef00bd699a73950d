---------------------------- MODULE MCLifecycles ----------------------------
(* Small instances of what is checked without symmetry, because its         *)
(* liveness is checked too.  On the device: the owner of a database         *)
(* (StoreLifecycle), Delete All (LocalErasure), the repository of the       *)
(* reports (ReportStore), the history that is shown of it                   *)
(* (HistoryController) and the requests to the server (ApiRequest).  On the *)
(* server: the cache of plans (PlanCache).  Each has the promises of its    *)
(* neighbours as steps of its own, so a behaviour steps only one of the six.*)
EXTENDS StoreLifecycle, TLC

CONSTANT MaxItems
VARIABLES store, journal, run, busy, presser, message, pressed, begun
Erasure     == INSTANCE LocalErasure
erasureVars == <<store, journal, run, busy, presser, message, pressed, begun>>

CONSTANTS Users, Verifiers, MaxVersion, MaxGeneration, MaxTime, Nothing
VARIABLES version, record, affected, acked, cache, generation, claimed, now,
          verifier, answer, invalidated
Plans     == INSTANCE PlanCache
planVars  == <<version, record, affected, acked, cache, generation, claimed, now,
               verifier, answer, invalidated>>

CONSTANTS Reports, Repos, Caps, TempFiles, MaxCalls, MaxKills
VARIABLES disk, work, queue, stage, handle, closing, flight, files, sweeping, calls, kills
Repository == INSTANCE ReportStore WITH None <- Nothing
reportVars == <<disk, work, queue, stage, handle, closing, flight, files, sweeping, calls, kills>>

CONSTANTS MaxReport, PageSize, Window, MaxPresses
VARIABLES rows, newest, current, reports, count, cursor, hasNewer, loadingMore, shown, epoch,
          tail, point, blind, deleted, presses
History     == INSTANCE HistoryController
               WITH store <- rows, status <- shown, generation <- epoch, stage <- point,
                    PagesDuringDeletes <- FALSE, Unknown <- Nothing, MaxCalls <- MaxPresses
historyVars == <<rows, newest, current, reports, count, cursor, hasNewer, loadingMore, shown, epoch,
                 tail, point, blind, deleted, presses>>

CONSTANTS Analyses, Verifications, MaxToken
VARIABLES step, aborted, committed, used, posts, result, withdrawn, refused, token, tokens
Api     == INSTANCE ApiRequest
           WITH None <- Nothing, store <- token, issued <- tokens
apiVars == <<step, aborted, committed, used, posts, result, withdrawn, refused, token, tokens>>

ASSUME LifecyclesAssumption ==
    /\ Erasure!MaxItemsAssumption
    /\ Plans!BoundsAssumption /\ Plans!NothingAssumption
    /\ History!HistoryAssumption /\ Api!ApiAssumption

VARIABLE stepping   \* the component this behaviour steps
lifecyclesVars == <<vars, erasureVars, planVars, reportVars, historyVars, apiVars, stepping>>

\* One initial state of each component that does not step is enough.
LifecyclesInit ==
    /\ Init /\ Erasure!Init /\ Plans!Init /\ Repository!Init
    /\ History!Init /\ Api!Init
    /\ stepping \in {"lifecycle", "erasure", "plans", "reports", "history", "api"}
    /\ stepping # "reports"   => disk = Repository!Schema(0, {})
    /\ stepping # "history"   => newest = 0
    /\ stepping # "api"       => token = 0

LifecyclesNext ==
    /\ \/ /\ stepping = "lifecycle" /\ Next
          /\ UNCHANGED <<erasureVars, planVars, reportVars, historyVars, apiVars>>
       \/ /\ stepping = "erasure" /\ Erasure!Next
          /\ UNCHANGED <<vars, planVars, reportVars, historyVars, apiVars>>
       \/ /\ stepping = "plans" /\ Plans!Next
          /\ UNCHANGED <<vars, erasureVars, reportVars, historyVars, apiVars>>
       \/ /\ stepping = "reports" /\ Repository!Next
          /\ UNCHANGED <<vars, erasureVars, planVars, historyVars, apiVars>>
       \/ /\ stepping = "history" /\ History!Next
          /\ UNCHANGED <<vars, erasureVars, planVars, reportVars, apiVars>>
       \/ /\ stepping = "api" /\ Api!Next
          /\ UNCHANGED <<vars, erasureVars, planVars, reportVars, historyVars>>
    /\ UNCHANGED stepping

\* What does not step enables nothing that fairness is asked of; but for the
\* history, which begins with a load.
LifecyclesSpec ==
    /\ LifecyclesInit
    /\ [][LifecyclesNext]_lifecyclesVars
    /\ Fairness
    /\ Plans!Fairness
    /\ Repository!Fairness
    /\ Api!Fairness
    /\ WF_historyVars(stepping = "history" /\ History!Runs)

\* The type invariants.
LifecyclesTypeOK ==
    /\ TypeOK /\ Erasure!TypeOK /\ Plans!TypeOK
    /\ Repository!TypeOK /\ History!TypeOK /\ Api!TypeOK

\* LocalErasure: what the journal calls cleared is cleared.
JournalHonest == Erasure!JournalHonest

\* LocalErasure: success is only told by a flight that erased.
ClaimErased == Erasure!ClaimErased

\* PlanCache: no fill brings back what a webhook took out of the cache, no
\* verification returns it, and the newest observation stays.
CacheFresh     == Plans!CacheFresh
AnswersInOrder == Plans!AnswersInOrder

\* PlanCache: a plan from before a change does not stay in the cache.
OutdatedPlansGo == Plans!OutdatedPlansGo

\* HistoryController: the list and its number are those of the store.
HistoryHonest == History!ListMatchesStore /\ History!CountHonest

\* HistoryController: the list does not load for ever.
LoadingEnds == []<>(stepping = "history" => ~History!Loading)

\* ApiRequest: what the caller is told of a request is what happened to it.
ToldTruth == Api!ToldTruth

\* ApiRequest: nothing is sent for a request that was given up.
NothingSentUnwanted == Api!NothingSentUnwanted

\* ReportStore and ApiRequest: a call ends although the cleanup, a store or the
\* server it waits for never answers.
EverybodyAnswered == Repository!EveryCallAnswered /\ Api!RequestEnds
=============================================================================
