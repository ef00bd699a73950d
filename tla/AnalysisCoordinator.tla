------------------------ MODULE AnalysisCoordinator ------------------------
(***************************************************************************)
(* mobile/src/analysis/analysisCoordinator.ts with analysisReducer.ts: the *)
(* one owner of the resume that is being analysed.  Its commands run on    *)
(* one JavaScript thread and interleave at every await: mutations wait for *)
(* each other in a chain, an analysis and an on-device extraction run      *)
(* beside them, every staged copy of a PDF is deleted by an exact cleanup  *)
(* with a deadline, and a cleanup that is not verified in time blocks      *)
(* privacy until a sweep of the whole cache is.                            *)
(*                                                                         *)
(* A step is what runs between two awaits.  Promise continuations run      *)
(* before the next event does (Quiet).  Each PDF has a request id and a    *)
(* lease of its own: the ids are random UUIDs, and the collisions of ids   *)
(* are TempFileRegistry's subject.  sourceRevision changes with the        *)
(* generation, and whatever the lifecycle epoch decides is given up by the *)
(* handler that raises it: neither is kept apart.                          *)
(***************************************************************************)
EXTENDS Integers, Sequences, FiniteSets, SequencesExt

CONSTANTS
    Pdfs,                  \* PDFs that may be picked, each once
    Activations,           \* names for the analyses in progress
    Reviews,               \* the settings of options.requireLocalPdfReview
    Reliable,              \* the registry and the stager never fail or stall
    None,
    MaxCommands            \* bound of the model: commands of the user

VARIABLES
    \* AnalysisState
    app,
    \* the coordinator
    requireLocalPdfReview,
    gen,          \* generation
    active,       \* active, an element of Activations
    acts,         \* the activations in progress
    vision,       \* visionExtraction
    draft,        \* the generation the Vision draft's authority is for
    continuation, \* consentContinuation's generation
    queue,        \* the mutations of mutationTail that have not ended
    claims,       \* pdfClaims, in the order of their insertion
    committed,    \* committedPdfClaim
    retained,     \* retainedVisionPdfClaim
    pending,      \* pendingPdfPick
    running,      \* cleanupOperations
    owed,         \* currentAbandonedCleanupEpoch, 0 for null
    epochs,       \* nextAbandonedCleanupEpoch
    fence,        \* the calls of port the current epoch's fence waits for
    sweeps,       \* abandonedCleanupTail: the sweeps that have not ended
    recoveries,   \* privacyRecoveries
    starting,     \* performInitialization has not ended
    disposal,     \* performDisposal
    \* the registry and the picker
    port,         \* cleanupPortTail: the calls that are not answered
    disk, leased, \* copies in the cache, and the live leases
    pick,         \* where the picking of each PDF is
    commands      \* commands given

own     == <<claims, committed, retained>>
privacy == <<owed, epochs, fence, sweeps, recoveries>>
files   == <<disk, leased>>
tasks   == <<active, acts, vision, queue, disposal>>
tokens  == <<gen, draft, continuation, pending>>
cleanup == <<running, port>>
given   == <<commands, requireLocalPdfReview>>
vars    == <<app, tokens, tasks, own, cleanup, privacy, starting, files, pick,
             given>>

Leftover == "leftover"      \* a copy of an earlier process
Sources  == Pdfs \cup {"text"}
Mounted  == disposal.at = "mounted"

\* A place of the mutation chain, an activation, an extraction, the disposal.
Kinds  == {"selecting", "editing", "resetting", "consent"}
Places == {"queued", "others", "previous", "verify", "end"}
Ends   == {"dropped", "privacy", "invalid", "committed", "updated", "declined",
           "cancelled", "reset"}
Mutations ==
    [kind : Kinds, next : Sources \cup {None, "declined", "cancelled"}, gen : Nat,
     act : Activations \cup {None}, vision : BOOLEAN, source : Sources \cup {None},
     claim : Pdfs \cup {None}, asked : BOOLEAN, at : Places, todo : Seq(Pdfs),
     on : Pdfs \cup {None}, clean : BOOLEAN, used : BOOLEAN, end : Ends \cup {None}]
Acts ==
    [gen : Nat, source : Sources, claim : Pdfs \cup {None},
     at : {"read", "write", "call", "api", "terminal"}, aborted : BOOLEAN,
     out : {None, "succeeded", "failed", "cancelled", "consentFailed"},
     on : Pdfs \cup {None}, clean : BOOLEAN]
Extractions ==
    [gen : Nat, claim : Pdfs, at : {"before", "native", "after", "clean"},
     aborted : BOOLEAN, ok : BOOLEAN, on : Pdfs \cup {None}, clean : BOOLEAN]
Disposals ==
    [at : {"mounted", "tasks", "owned", "sweep", "disposed"}, todo : Seq(Pdfs),
     on : Pdfs \cup {None}, clean : BOOLEAN, epoch : Nat,
     readiness : {"checking", "ready", "blocked"}]

ASSUME CoordinatorAssumption ==
    /\ Pdfs \cap {None, "text", "declined", "cancelled", Leftover} = {}
    /\ None \notin Activations \cup Acts \cup Extractions \cup Mutations \cup Disposals
    /\ None \notin Kinds \cup Places \cup Ends
    /\ None \notin {"text", "succeeded", "failed", "consentFailed"}
    /\ Reviews \subseteq BOOLEAN

InitialApp == [status |-> "idle", readiness |-> "checking", source |-> None,
               review |-> FALSE, cleanupPending |-> FALSE, mutation |-> "none"]

Init ==
    /\ app = InitialApp
    /\ requireLocalPdfReview \in Reviews
    /\ gen = 0 /\ draft = None /\ continuation = None /\ pending = None
    /\ active = None /\ acts = [a \in Activations |-> None]
    /\ vision = None /\ queue = <<>>
    /\ disposal = [at |-> "mounted", todo |-> <<>>, on |-> None, clean |-> TRUE,
                   epoch |-> 0, readiness |-> "checking"]
    /\ claims = <<>> /\ committed = None /\ retained = None
    /\ running = {} /\ port = <<[kind |-> "initialize", late |-> FALSE]>>
    /\ owed = 0 /\ epochs = 0 /\ fence = 0 /\ sweeps = <<>>
    /\ recoveries = {} /\ starting = TRUE
    /\ disk \in {{}, {Leftover}} /\ leased = {}
    /\ pick = [p \in Pdfs |-> "idle"]
    /\ commands = 0

-----------------------------------------------------------------------------
(* Tasks, and the cleanups they wait for                                   *)

\* A task that waits for the cleanup of p hears how it ended.
Told(x, p, ok) ==
    IF x # None /\ x.on = p THEN [x EXCEPT !.on = None, !.clean = @ /\ ok]
                            ELSE x

\* cleanupClaim and performCleanupClaim: one operation at a time per lease.
CleanupClaim(p) ==
    /\ running' = running \cup {p}
    /\ port' = IF p \in running THEN port
               ELSE Append(port, [kind |-> "exact", pdf |-> p, late |-> FALSE])

\* isPdfClaimCurrent
Owned(p) == p \in ToSet(claims)

\* retirePdfClaim
RetireClaim(p) ==
    /\ claims' = RemoveFirst(claims, p)
    /\ committed' = IF committed = p THEN None ELSE committed
    /\ retained' = IF retained = p THEN None ELSE retained

AbortActive(f)  == IF active = None THEN f ELSE [f EXCEPT ![active].aborted = TRUE]
CancelVision(v) == IF v = None THEN None ELSE [v EXCEPT !.aborted = TRUE]

\* Whatever was in progress is not current any more.
Supersede ==
    /\ gen' = gen + 1
    /\ draft' = None /\ continuation' = None

-----------------------------------------------------------------------------
(* analysisReducer                                                         *)

Unless(consume, source) == IF consume THEN None ELSE source

Failed_StaysBusy(consume, review, cleanupPending) ==
    [app EXCEPT !.status = "failed", !.source = Unless(consume, @),
                !.review = review, !.cleanupPending = cleanupPending]

Failed(consume, review, cleanupPending) ==
    [app EXCEPT !.status = "failed", !.source = Unless(consume, @),
                !.review = review, !.cleanupPending = cleanupPending,
                !.mutation = "none"]

Ended(status, consume) ==
    [app EXCEPT !.status = status, !.source = Unless(consume, @),
                !.review = FALSE, !.cleanupPending = FALSE, !.mutation = "none"]

MutationStarted(kind) ==
    IF app.readiness = "blocked" THEN [app EXCEPT !.mutation = kind]
    ELSE [app EXCEPT !.status = "idle", !.review = FALSE, !.mutation = kind]

SourceReady(source) ==
    [app EXCEPT !.status = "ready", !.source = source, !.review = FALSE,
                !.cleanupPending = FALSE, !.mutation = "none"]

StatusOf(source) == IF source = None THEN "idle" ELSE "ready"

JobUpdated(consume) ==
    [app EXCEPT !.status = StatusOf(Unless(consume, app.source)),
                !.source = Unless(consume, @), !.review = FALSE,
                !.cleanupPending = @ /\ ~consume, !.mutation = "none"]

PrivacyBlocked(consume) ==
    [Failed(consume, FALSE, TRUE) EXCEPT !.readiness = "blocked"]

PrivacyRecovered ==
    [Ended(StatusOf(app.source), FALSE) EXCEPT !.readiness = "ready"]

ResetApp ==
    IF app.readiness = "blocked"
    THEN [InitialApp EXCEPT !.status = "failed", !.readiness = "blocked",
                            !.cleanupPending = TRUE]
    ELSE [InitialApp EXCEPT !.readiness = app.readiness]

\* refreshDisposedState, with an obligation e.
DisposedApp(e) ==
    LET readiness == IF e # 0 THEN "blocked" ELSE disposal.readiness
    IN  [InitialApp EXCEPT !.readiness = readiness,
            !.status = IF readiness = "blocked" THEN "failed" ELSE "idle",
            !.cleanupPending = readiness = "blocked"]

-----------------------------------------------------------------------------
(* A cleanup that ends, and the obligation it may leave                    *)

\* markAbandonedCleanupRequired: a new epoch, whose sweep waits for the
\* exact cleanups among calls that the registry has not answered.
MarkAbandoned(calls) ==
    /\ epochs' = epochs + 1
    /\ owed' = epochs + 1
    /\ fence' = LET exact == {i \in DOMAIN calls : calls[i].kind = "exact"}
                IN  IF exact = {} THEN 0
                    ELSE CHOOSE i \in exact : \A j \in exact : j <= i

\* One call is answered: one fewer before whatever a fence waits for.
Fewer(n) == IF n = 0 THEN 0 ELSE n - 1

\* blockPrivacy while mounted, refreshDisposedState after.
BlockPrivacy(consume) ==
    IF Mounted
    THEN /\ Supersede
         /\ pending' = None
         /\ app' = PrivacyBlocked(consume)
    ELSE /\ app' = DisposedApp(epochs + 1)
         /\ UNCHANGED tokens

\* What blockPrivacy does to the tasks in progress.
Blocked(ok, f) == IF ok \/ ~Mounted THEN f ELSE AbortActive(f)
Stopped(ok, v) == IF ok \/ ~Mounted THEN v ELSE CancelVision(v)

\* The operation on p ends and its callers are told: ok when the receipt is
\* verified, else transferCleanupToAbandoned hands it to a sweep.
Settle(p, ok, calls) ==
    /\ running' = running \ {p}
    /\ port' = calls
    /\ RetireClaim(p)
    /\ queue' = [i \in DOMAIN queue |-> Told(queue[i], p, ok)]
    /\ acts' = [a \in Activations |-> Told(Blocked(ok, acts)[a], p, ok)]
    /\ vision' = Told(Stopped(ok, vision), p, ok)
    /\ disposal' = Told(disposal, p, ok)
    /\ IF ok
       THEN /\ fence' = Fewer(fence)
            /\ app' = IF ~Mounted /\ pick[p] = "discarded" THEN DisposedApp(owed) ELSE app
            /\ UNCHANGED <<tokens, owed, epochs>>
       ELSE MarkAbandoned(calls) /\ BlockPrivacy(app.source = p)
    /\ UNCHANGED active

-----------------------------------------------------------------------------
(* The mutation chain                                                      *)

\* enqueueMutation: next is the source to select, or how a consent ends.
EnqueueMutation(kind, next) ==
    /\ Supersede
    /\ acts' = AbortActive(acts)
    /\ vision' = CancelVision(vision)
    /\ app' = MutationStarted(kind)
    /\ queue' = Append(queue,
          [kind |-> kind, next |-> next, gen |-> gen + 1, act |-> active,
           vision |-> vision # None, source |-> app.source,
           claim |-> committed, asked |-> app.status = "consentRequired",
           at |-> "queued", todo |-> <<>>, on |-> None, clean |-> TRUE,
           used |-> FALSE, end |-> None])
    /\ UNCHANGED <<active, disposal>>

IsCurrentMutation(m) == Mounted /\ m.gen = gen /\ app.mutation # "none"

Put(m) == queue' = <<m>> \o Tail(queue)

\* What a mutation waits for before its work: the one before it, the
\* activation and the extraction it aborted, and the startup sweep.
MayBegin(m) ==
    /\ m.at = "queued"
    /\ m.act # None => acts[m.act] = None
    /\ m.vision => vision = None
    /\ m.kind # "consent" => ~starting

Cleaning(m, at, p) ==
    /\ CleanupClaim(p)
    /\ Put([m EXCEPT !.at = at, !.on = p])

Aim_Keeps(m, end) == Put([m EXCEPT !.at = "end", !.end = end]) /\ UNCHANGED cleanup

\* The work comes to an end; a selection that does not commit first
\* releases the incoming PDF.
Aim(m, end) ==
    IF m.kind = "selecting" /\ m.next \in Pdfs /\ end # "committed"
    THEN Cleaning([m EXCEPT !.end = end], "end", m.next)
    ELSE Put([m EXCEPT !.at = "end", !.end = end]) /\ UNCHANGED cleanup

MutationBegins(m) ==
    /\ MayBegin(m)
    /\ IF /\ m.kind \in {"selecting", "editing"}
          /\ ~(IsCurrentMutation(m) /\ app.readiness = "ready")
       THEN Aim(m, "dropped")
       ELSE Put([m EXCEPT !.at = "others", !.todo = claims]) /\ UNCHANGED cleanup
    /\ UNCHANGED <<app, tokens, own>>

\* cleanupUncommitted, or cleanupAllOwned of a reset: the place in todo of
\* the next copy to delete, 0 when no more is to.
NextOther(m) ==
    SelectInSeq(m.todo, LAMBDA p : m.kind = "resetting"
                                   \/ ~(Owned(p) /\ p \in {committed, m.next}))

CleanOther(m) ==
    /\ m.at = "others" /\ m.on = None /\ NextOther(m) # 0
    /\ LET i == NextOther(m)
       IN  Cleaning([m EXCEPT !.todo = SubSeq(@, i + 1, Len(@))], "others", m.todo[i])
    /\ UNCHANGED <<app, tokens, own>>

\* The source that is replaced is gone; what of the one that comes?
Chosen(m) ==
    IF m.next = None THEN Aim(m, "invalid")
    ELSE IF m.next \in Pdfs THEN Put([m EXCEPT !.at = "verify"]) /\ UNCHANGED cleanup
    ELSE Aim(m, "committed")

\* The prior source is dealt with, by this mutation or by another.
Used(m) ==
    CASE m.kind = "selecting" -> Chosen(m)
      [] m.kind = "editing"   -> Aim(m, "updated") \/ Aim(m, "invalid")
      [] m.kind = "consent"   -> Aim(m, m.next)
      [] m.kind = "resetting" -> Aim(m, "reset")

\* The prior source is a PDF whose copy has to go.  An edit keeps it unless
\* it left an analysis before its network phase, or a cleanup is pending; the
\* activation an edit aborted has deleted its PDF, so the claim is not live.
MustConsume(m) ==
    /\ m.source \in Pdfs
    /\ m.kind # "resetting"
    /\ m.kind = "editing" => m.asked \/ ~Owned(m.claim) \/ app.cleanupPending

OthersDone(m) ==
    /\ m.at = "others" /\ m.on = None /\ NextOther(m) = 0
    /\ IF ~IsCurrentMutation(m) /\ m.kind # "consent" THEN Aim(m, "dropped")
       ELSE IF ~m.clean                               THEN Aim(m, "privacy")
       ELSE IF ~MustConsume(m)                        THEN Used(m)
       ELSE IF Owned(m.claim)                         THEN Cleaning(m, "previous", m.claim)
       ELSE IF m.kind # "selecting"                   THEN Used([m EXCEPT !.used = TRUE])
       ELSE IF m.claim = None                         THEN Aim(m, "privacy")
       ELSE Cleaning(m, "previous", m.claim)
    /\ UNCHANGED <<app, tokens, own>>

PreviousDone(m) ==
    /\ m.at = "previous" /\ m.on = None
    /\ IF ~IsCurrentMutation(m) THEN Aim(m, "dropped")
       ELSE IF ~m.clean         THEN Aim(m, "privacy")
       ELSE Used([m EXCEPT !.used = TRUE])
    /\ UNCHANGED <<app, tokens, own>>

\* verifyLivePdfClaim: the registry answers, or throws.
IsLive(p) == p \in leased /\ p \in disk

SourceVerified(m, live) ==
    /\ m.at = "verify"
    /\ live => IsLive(m.next)
    /\ IF ~(live /\ Owned(m.next))  THEN Aim(m, "invalid")
       ELSE IF ~IsCurrentMutation(m) THEN Aim(m, "dropped")
       ELSE Aim(m, "committed")
    /\ UNCHANGED <<app, tokens, own>>

\* What a mutation that is still current dispatches in the end.
Dispatched(m) ==
    CASE m.end = "privacy"   -> Failed(FALSE, FALSE, ~m.clean \/ owed # 0)
      [] m.end = "invalid"   -> Failed(m.used \/ (m.kind = "selecting" /\ m.source \notin Pdfs),
                                       FALSE, ~m.clean \/ owed # 0)
      [] m.end = "committed" -> SourceReady(m.next)
      [] m.end = "updated"   -> JobUpdated(m.used)
      [] m.end = "declined"  -> Ended(StatusOf(Unless(m.used, app.source)), m.used)
      [] m.end = "cancelled" -> Ended("cancelled", m.used)
      [] m.end = "reset"     -> ResetApp

MutationEnds(m) ==
    /\ m.at = "end" /\ m.on = None
    /\ IF IsCurrentMutation(m) /\ m.end # "dropped"
       THEN /\ app' = Dispatched(m)
            /\ committed' = IF m.end \notin {"committed", "reset"} THEN committed
                            ELSE IF m.end = "committed" /\ m.next \in Pdfs THEN m.next
                            ELSE None
            /\ retained' = IF m.end = "reset" THEN None ELSE retained
       ELSE UNCHANGED <<app, committed, retained>>
    /\ pending' = IF pending # None /\ pending.pdf = m.next THEN None ELSE pending
    /\ queue' = Tail(queue)
    /\ UNCHANGED <<gen, draft, continuation, claims, cleanup>>

Mutation ==
    /\ queue # <<>>
    /\ LET m == Head(queue)
       IN  \/ MutationBegins(m) \/ CleanOther(m) \/ OthersDone(m)
           \/ PreviousDone(m) \/ MutationEnds(m)
    /\ UNCHANGED <<active, acts, vision, disposal, privacy, starting, files,
                   pick, given>>

MutationVerifies ==
    /\ queue # <<>>
    /\ \E live \in BOOLEAN : SourceVerified(Head(queue), live)
    /\ UNCHANGED <<active, acts, vision, disposal, privacy, starting, files,
                   pick, given>>

-----------------------------------------------------------------------------
(* Activations: the consent gate and the network                           *)

ActivationIsCurrent(a) ==
    /\ Mounted /\ active = a /\ acts[a] # None
    /\ acts[a].gen = gen /\ app.mutation = "none"

SomeActive == active # None /\ ActivationIsCurrent(active)

\* newActivation, at the consent store's answer.
NewActivation(at) ==
    \E a \in {b \in Activations : acts[b] = None} :
        /\ acts' = [acts EXCEPT ![a] =
              [gen |-> gen, source |-> app.source,
               claim |-> IF committed = app.source THEN committed ELSE None,
               at |-> at, aborted |-> FALSE, out |-> None, on |-> None,
               clean |-> TRUE]]
        /\ active' = a

SetAct(a, x) == acts' = [acts EXCEPT ![a] = x] /\ UNCHANGED active
EndAct(a) ==
    /\ acts' = [acts EXCEPT ![a] = None]
    /\ active' = IF active = a THEN None ELSE active

\* runNetwork starts: analysisStarted.
StartNetwork(a) ==
    /\ SetAct(a, [acts[a] EXCEPT !.at = "call"])
    /\ app' = [app EXCEPT !.status = "analyzing", !.review = FALSE]
    /\ UNCHANGED <<tokens, own, cleanup>>

\* The end of an activation: a PDF's copy is deleted before anything of its
\* outcome is shown.
Terminate(a, out) ==
    LET x == [acts[a] EXCEPT !.at = "terminal", !.out = out]
    IN  /\ IF x.source \in Pdfs /\ x.claim # None
           THEN CleanupClaim(x.claim) /\ SetAct(a, [x EXCEPT !.on = x.claim])
           ELSE UNCHANGED cleanup /\ SetAct(a, [x EXCEPT !.clean = x.source \notin Pdfs])
        /\ UNCHANGED <<app, tokens, own>>

\* The consent store answers an activation that is not current any more.
Outlived(a) ==
    /\ ~ActivationIsCurrent(a)
    /\ EndAct(a)
    /\ UNCHANGED <<app, tokens, own, cleanup>>

\* hasCurrentConsent answers.
ConsentRead(a) ==
    /\ acts[a] # None /\ acts[a].at = "read" /\ ~acts[a].aborted
    /\ \/ Outlived(a)
       \/ ActivationIsCurrent(a) /\ StartNetwork(a)
       \/ /\ ActivationIsCurrent(a)
          /\ continuation' = gen
          /\ app' = [app EXCEPT !.status = "consentRequired", !.review = FALSE]
          /\ EndAct(a)
          /\ UNCHANGED <<gen, draft, pending, own, cleanup>>
       \/ Terminate(a, "consentFailed")

\* grant() answers.
ConsentWritten(a) ==
    /\ acts[a] # None /\ acts[a].at = "write" /\ ~acts[a].aborted
    /\ \/ Outlived(a)
       \/ /\ ActivationIsCurrent(a)
          /\ SetAct(a, [acts[a] EXCEPT !.at = "call"])
          /\ continuation' = None
          /\ app' = [app EXCEPT !.status = "analyzing", !.review = FALSE]
          /\ UNCHANGED <<gen, draft, pending, own, cleanup>>
       \/ Terminate(a, "consentFailed")

\* raceWithAbort: an aborted wait ends at once.
ActivationAborted(a) ==
    /\ acts[a] # None /\ acts[a].at \in {"read", "write", "call", "api"}
    /\ acts[a].aborted
    /\ Terminate(a, "cancelled")

\* The call of api.analyze.
Upload(a) ==
    /\ acts[a] # None /\ acts[a].at = "call" /\ ~acts[a].aborted
    /\ SetAct(a, [acts[a] EXCEPT !.at = "api"])
    /\ UNCHANGED <<app, tokens, own, cleanup>>

\* A scanned PDF stays for the extraction on the device, if there is one.
\* (Whatever makes an activation stale has aborted it.)
RetainForVision(a) ==
    /\ Owned(acts[a].claim) /\ ActivationIsCurrent(a)
    /\ retained' = acts[a].claim /\ app' = Failed(FALSE, TRUE, FALSE)
    /\ EndAct(a)
    /\ UNCHANGED <<tokens, claims, committed, cleanup>>

ApiAnswers(a) ==
    /\ acts[a] # None /\ acts[a].at = "api" /\ ~acts[a].aborted
    /\ \/ \E out \in {"succeeded", "failed", "cancelled"} : Terminate(a, out)
       \/ RetainForVision(a)

\* Its cleanup has ended; a dirty one has blocked privacy.
ActivationEnds(a) ==
    /\ acts[a] # None /\ acts[a].at = "terminal" /\ acts[a].on = None
    /\ LET x == acts[a]
           consume == x.source \in Pdfs
           out == IF x.aborted /\ x.out # "consentFailed" THEN "cancelled" ELSE x.out
       IN  app' = IF ~ActivationIsCurrent(a) THEN app
                  ELSE IF ~x.clean THEN Failed(FALSE, FALSE, TRUE)
                  ELSE IF out \in {"failed", "consentFailed"} THEN Failed(consume, FALSE, FALSE)
                  ELSE Ended(out, consume)
    /\ EndAct(a)
    /\ UNCHANGED <<tokens, own, cleanup>>

OtherThanActs == <<vision, queue, disposal, privacy, starting, files, pick, given>>

Activation ==
    /\ \E a \in Activations : ActivationAborted(a) \/ Upload(a) \/ ActivationEnds(a)
    /\ UNCHANGED OtherThanActs

ActivationAnswered ==
    /\ \E a \in Activations : ConsentRead(a) \/ ConsentWritten(a) \/ ApiAnswers(a)
    /\ UNCHANGED OtherThanActs

-----------------------------------------------------------------------------
(* On-device extraction                                                    *)

VisionExtractionIsCurrent ==
    /\ Mounted /\ vision # None
    /\ vision.gen = gen /\ app.mutation = "extracting"

\* Exact cleanup follows whatever became of the extraction.
VisionCleans(ok) ==
    /\ CleanupClaim(vision.claim)
    /\ vision' = [vision EXCEPT !.at = "clean", !.on = vision.claim, !.ok = ok]

VisionTo(at) == vision' = [vision EXCEPT !.at = at] /\ UNCHANGED cleanup

\* The native call ends when it is done or cancelled.
VisionAnswered ==
    /\ vision # None
    /\ \/ /\ vision.at = "before"
          /\ \/ IsLive(vision.claim) /\ ~vision.aborted /\ VisionTo("native")
             \/ VisionCleans(FALSE)
       \/ /\ vision.at = "native"
          /\ \/ ~vision.aborted /\ VisionTo("after")
             \/ VisionCleans(FALSE)
       \/ /\ vision.at = "after"
          /\ \/ IsLive(vision.claim) /\ VisionCleans(TRUE)
             \/ VisionCleans(FALSE)
    /\ UNCHANGED <<app, tokens, active, acts, queue, disposal, own, privacy,
                   starting, files, pick, given>>

VisionEnds ==
    /\ vision # None /\ vision.at = "clean" /\ vision.on = None
    /\ IF VisionExtractionIsCurrent /\ ~vision.aborted /\ vision.clean
       THEN IF vision.ok
            THEN app' = Ended("idle", TRUE) /\ draft' = vision.gen
            ELSE app' = Failed(TRUE, FALSE, FALSE) /\ UNCHANGED draft
       ELSE UNCHANGED <<app, draft>>
    /\ vision' = None
    /\ UNCHANGED <<gen, continuation, pending, active, acts, queue, disposal,
                   own, cleanup, privacy, starting, files, pick, given>>

-----------------------------------------------------------------------------
(* The calls of the registry, one after the other                          *)

\* The PDFs whose copy the registry makes after the call it is busy with.
Behind == {p \in Pdfs : pick[p] = "waiting"}

\* The head of port is answered; kind names it.  The copies behind it are made.
Answered(kind) ==
    /\ port # <<>> /\ Head(port).kind = kind
    /\ pick' = [p \in Pdfs |-> IF p \in Behind THEN "staged" ELSE pick[p]]
    /\ UNCHANGED given

SweepsAfterCall ==
    [i \in DOMAIN sweeps |-> [sweeps[i] EXCEPT !.fence = Fewer(@)]]

\* cleanupRequest: a lease is given back whatever became of its copy, and a
\* cleanup without its lease is refused.
ExactAnswered ==
    /\ Answered("exact")
    /\ LET p == Head(port).pdf
       IN  \E ok \in BOOLEAN :
             /\ ok => p \in leased
             /\ Reliable => (ok <=> p \in leased)
             /\ disk' = Behind \cup (IF ok THEN disk \ {p} ELSE disk)
             /\ leased' = Behind \cup (leased \ {p})
             /\ IF Head(port).late
                THEN /\ port' = Tail(port)
                     /\ fence' = Fewer(fence)
                     /\ UNCHANGED <<app, tokens, tasks, own, running, owed, epochs>>
                ELSE Settle(p, ok, Tail(port))
    /\ sweeps' = SweepsAfterCall
    /\ UNCHANGED <<recoveries, starting>>

\* Nobody waits for the i-th call any more.
Late(i) == [port EXCEPT ![i].late = TRUE]

\* boundedCleanup gives up on a call, which may still be answered.
ExactTimesOut ==
    /\ ~Reliable
    /\ \E i \in DOMAIN port :
          /\ port[i].kind = "exact" /\ ~port[i].late
          /\ Settle(port[i].pdf, FALSE, Late(i))
    /\ UNCHANGED <<sweeps, recoveries, starting, files, pick, given>>

\* cleanupAbandoned: verified when every copy is deleted and none is live.
Sweeping(ok) ==
    \E left \in {d \in SUBSET disk : disk \cap leased \subseteq d} :
        /\ ok => left = {}
        /\ Reliable => left = disk \cap leased /\ (ok <=> left = {})
        /\ disk' = left \cup Behind
        /\ leased' = leased \cup Behind

\* initializationReady, initializationFailed
Initialized(ok) ==
    /\ starting' = FALSE
    /\ app' = IF ~Mounted \/ app.readiness # "checking" THEN app
              ELSE IF ok /\ owed = 0 THEN [app EXCEPT !.readiness = "ready"]
              ELSE PrivacyBlocked(FALSE)

InitializationAnswered ==
    /\ Answered("initialize")
    /\ \E ok \in BOOLEAN :
          /\ Sweeping(ok)
          /\ IF Head(port).late THEN UNCHANGED <<app, starting>>
                                ELSE Initialized(ok)
    /\ port' = Tail(port)
    /\ fence' = Fewer(fence) /\ sweeps' = SweepsAfterCall
    /\ UNCHANGED <<tokens, tasks, own, running, owed, epochs, recoveries>>

InitializationTimesOut ==
    /\ ~Reliable /\ starting
    /\ Initialized(FALSE)
    /\ port' = Late(1)
    /\ UNCHANGED <<tokens, tasks, own, running, privacy, files, pick, given>>

-----------------------------------------------------------------------------
(* cleanupAbandonedEpoch, recoverPrivacyCleanup                            *)

\* The sweeps, with one for the epoch e if there was none.
WithSweep(e) ==
    IF \E i \in DOMAIN sweeps : sweeps[i].epoch = e THEN sweeps
    ELSE Append(sweeps, [epoch |-> e, at |-> "prior", fence |-> fence, shown |-> FALSE])

\* The first sweep ends, and with it the recoveries that wait for it.
SweepEnds(rest, ok) ==
    LET e       == Head(sweeps).epoch
        waiting == {r \in recoveries : r.epoch = e /\ r.at = "sweep"}
    IN  /\ sweeps' = Tail(rest)
        /\ recoveries' = (recoveries \ waiting) \cup
              (IF ok THEN {[r EXCEPT !.at = "claims"] : r \in waiting} ELSE {})

Unswept == <<tokens, tasks, own, running, epochs, starting>>

\* Its turn: it waits for the exact cleanups before it, unless a newer
\* obligation has taken its place.
SweepProceeds ==
    /\ sweeps # <<>>
    /\ LET s == Head(sweeps)
       IN  \/ /\ s.at \in {"prior", "fence"} /\ owed # s.epoch
              /\ s.at = "prior" \/ s.fence = 0
              /\ SweepEnds(sweeps, FALSE)
              /\ UNCHANGED port
           \/ /\ s.at = "prior" /\ owed = s.epoch
              /\ sweeps' = <<[s EXCEPT !.at = "fence"]>> \o Tail(sweeps)
              /\ UNCHANGED <<port, recoveries>>
           \/ /\ s.at = "fence" /\ s.fence = 0 /\ owed = s.epoch
              /\ sweeps' = <<[s EXCEPT !.at = "port"]>> \o Tail(sweeps)
              /\ port' = Append(port, [kind |-> "sweep", late |-> FALSE])
              /\ UNCHANGED recoveries
    /\ UNCHANGED <<app, Unswept, owed, fence, files, pick, given>>

\* The obligation is met by a verified receipt, and only the one it was for.
Cleared_Unverified(ok) == owed = Head(sweeps).epoch
Cleared(ok)            == ok /\ owed = Head(sweeps).epoch

SweepAnswered ==
    /\ Answered("sweep")
    /\ \E ok \in BOOLEAN :
          /\ Sweeping(ok)
          /\ IF Head(port).late
             THEN /\ fence' = Fewer(fence) /\ sweeps' = SweepsAfterCall
                  /\ UNCHANGED <<app, owed, recoveries>>
             ELSE LET cleared == Cleared(ok)
                  IN  /\ owed' = IF cleared THEN 0 ELSE owed
                      /\ fence' = IF cleared THEN 0 ELSE Fewer(fence)
                      /\ app' = IF Head(sweeps).shown THEN DisposedApp(owed') ELSE app
                      /\ SweepEnds(SweepsAfterCall, cleared)
    /\ port' = Tail(port)
    /\ UNCHANGED Unswept

SweepTimesOut ==
    /\ ~Reliable /\ sweeps # <<>>
    /\ \/ Head(sweeps).at = "fence" /\ UNCHANGED port
       \/ \E i \in DOMAIN port :
             /\ Head(sweeps).at = "port"
             /\ port[i].kind = "sweep" /\ ~port[i].late
             /\ port' = Late(i)
    /\ SweepEnds(sweeps, FALSE)
    /\ UNCHANGED <<app, Unswept, owed, fence, files, pick, given>>

MutationsBefore(g) == \E i \in DOMAIN queue : queue[i].gen <= g

\* performPrivacyCleanupRecovery behind the mutations before it.
RecoveryProceeds(r) ==
    /\ r.at = "tail" /\ ~MutationsBefore(r.gen)
    /\ IF Mounted /\ app.readiness = "blocked" /\ owed = r.epoch
       THEN /\ recoveries' = (recoveries \ {r}) \cup {[r EXCEPT !.at = "sweep"]}
            /\ sweeps' = WithSweep(r.epoch)
       ELSE recoveries' = recoveries \ {r} /\ UNCHANGED sweeps
    /\ UNCHANGED app

\* Privacy is ready again once no exact cleanup is in flight and no newer
\* obligation has come up.
RecoveryEnds(r) ==
    /\ r.at = "claims" /\ running = {}
    /\ app' = IF /\ Mounted /\ owed = 0
                 /\ app.readiness = "blocked" /\ app.cleanupPending
              THEN PrivacyRecovered ELSE app
    /\ recoveries' = recoveries \ {r}
    /\ UNCHANGED sweeps

Recovery ==
    /\ \E r \in recoveries : RecoveryProceeds(r) \/ RecoveryEnds(r)
    /\ UNCHANGED <<tokens, tasks, own, cleanup, owed, epochs, fence, starting,
                   files, pick, given>>

-----------------------------------------------------------------------------
(* performDisposal                                                         *)

Dispose ==
    /\ Mounted
    /\ disposal' = [disposal EXCEPT !.at = "tasks", !.readiness = app.readiness]
    /\ Supersede /\ pending' = None
    /\ acts' = AbortActive(acts) /\ vision' = CancelVision(vision)
    /\ UNCHANGED <<app, active, queue, own, cleanup, privacy, starting, files,
                   pick, given>>

DisposalCleans ==
    /\ disposal.at = "owned" /\ disposal.on = None /\ disposal.todo # <<>>
    /\ CleanupClaim(Head(disposal.todo))
    /\ disposal' = [disposal EXCEPT !.on = Head(disposal.todo), !.todo = Tail(@)]
    /\ UNCHANGED <<app, own, sweeps>>

DisposalProceeds ==
    \/ /\ disposal.at = "tasks" /\ ~starting
       /\ queue = <<>> /\ active = None /\ vision = None /\ recoveries = {}
       /\ disposal' = [disposal EXCEPT !.at = "owned", !.todo = claims]
       /\ UNCHANGED <<app, own, cleanup, sweeps>>
    \/ DisposalCleans
    \/ /\ disposal.at = "owned" /\ disposal.on = None /\ disposal.todo = <<>>
       /\ disposal' = [disposal EXCEPT !.at = "sweep", !.epoch = owed]
       /\ sweeps' = IF owed = 0 THEN sweeps ELSE WithSweep(owed)
       /\ UNCHANGED <<app, own, cleanup>>
    \/ /\ disposal.at = "sweep"
       /\ \A i \in DOMAIN sweeps : sweeps[i].epoch # disposal.epoch
       /\ disposal' = [disposal EXCEPT !.at = "disposed"]
       /\ committed' = None /\ retained' = None /\ app' = DisposedApp(owed)
       /\ UNCHANGED <<claims, cleanup, sweeps>>

Disposal ==
    /\ DisposalProceeds
    /\ UNCHANGED <<tokens, active, acts, vision, queue, owed, epochs, fence,
                   recoveries, starting, files, pick, given>>

-----------------------------------------------------------------------------
(* Commands                                                                *)

Command ==
    /\ commands < MaxCommands
    /\ commands' = commands + 1
    /\ Mounted

Unasked == <<own, privacy, starting, files, cleanup, requireLocalPdfReview>>
NoTask  == <<active, acts, vision, queue, disposal>>

ReleasePendingPdfPick == pending' = None

ResetCommand == EnqueueMutation("resetting", None)

\* A command that is refused may have ended the pick, or the draft.
RefusedCommand ==
    /\ Command
    /\ pending # None \/ draft # None
    /\ ReleasePendingPdfPick
    /\ draft' \in {draft, None}
    /\ UNCHANGED <<app, gen, continuation, NoTask, Unasked, pick>>

Select(next) ==
    /\ Command /\ app.readiness # "blocked"
    /\ ReleasePendingPdfPick
    /\ EnqueueMutation("selecting", next)
    /\ UNCHANGED <<Unasked, pick>>

SetJobDescription ==
    /\ Command
    /\ ReleasePendingPdfPick
    /\ EnqueueMutation("editing", None)
    /\ UNCHANGED <<Unasked, pick>>

ExtractVisionDraft ==
    /\ Command
    /\ app.readiness = "ready" /\ app.mutation = "none" /\ vision = None
    /\ \/ requireLocalPdfReview /\ app.status = "ready"
       \/ app.status = "failed" /\ app.review
    /\ app.source \in Pdfs /\ committed = app.source /\ Owned(committed)
    /\ ReleasePendingPdfPick
    /\ Supersede
    /\ vision' = [gen |-> gen + 1, claim |-> committed, at |-> "before",
                  aborted |-> FALSE, ok |-> FALSE, on |-> None, clean |-> TRUE]
    /\ app' = MutationStarted("extracting")
    /\ UNCHANGED <<active, acts, queue, disposal, Unasked, pick>>

\* The reviewed text is selected; the draft's authority is used up.
CompleteVisionReview ==
    /\ Command
    /\ app.readiness = "ready" /\ app.mutation = "none"
    /\ app.source = None /\ draft = gen
    /\ EnqueueMutation("selecting", "text")
    /\ UNCHANGED <<pending, Unasked, pick>>

\* A PDF is not uploaded before its text was reviewed on the device.
ReviewFirst_Never(source) == FALSE
ReviewFirst(source)       == requireLocalPdfReview /\ source \in Pdfs

Analyze ==
    /\ Command /\ ~SomeActive
    /\ app.readiness = "ready" /\ app.mutation = "none"
    /\ ReleasePendingPdfPick
    /\ IF \/ app.cleanupPending \/ owed # 0 \/ app.source = None
          \/ ReviewFirst(app.source)
       THEN /\ app' = LET pends == app.cleanupPending \/ owed # 0
                      IN  Failed(FALSE, ~pends /\ app.source # None, pends)
            /\ UNCHANGED NoTask
       ELSE NewActivation("read") /\ UNCHANGED <<app, vision, queue, disposal>>
    /\ UNCHANGED <<gen, draft, continuation, Unasked, pick>>

GrantConsent ==
    /\ Command /\ ~SomeActive
    /\ app.mutation = "none" /\ app.status = "consentRequired"
    /\ continuation = gen /\ app.source # None
    /\ ReleasePendingPdfPick
    /\ NewActivation("write")
    /\ UNCHANGED <<app, gen, draft, continuation, vision, queue, disposal,
                   Unasked, pick>>

DeclineConsent ==
    /\ Command
    /\ \/ app.status = "consentRequired"
       \/ active # None /\ acts[active].at = "write"
    /\ ReleasePendingPdfPick
    /\ EnqueueMutation("consent", "declined")
    /\ UNCHANGED <<Unasked, pick>>

RetainedVisionPdfIsCurrent ==
    retained # None /\ app.source = retained /\ Owned(retained)

CancelWork ==
    IF VisionExtractionIsCurrent THEN ResetCommand
    ELSE IF SomeActive
    THEN /\ acts' = AbortActive(acts) /\ draft' = None
         /\ UNCHANGED <<app, gen, continuation, active, vision, queue, disposal>>
    ELSE IF app.status = "consentRequired" /\ app.mutation = "none"
    THEN EnqueueMutation("consent", "cancelled")
    ELSE draft' = None /\ UNCHANGED <<app, gen, continuation, NoTask>>

Cancel ==
    /\ Command
    /\ VisionExtractionIsCurrent \/ SomeActive \/ app.status = "consentRequired"
    /\ ReleasePendingPdfPick
    /\ CancelWork
    /\ UNCHANGED <<Unasked, pick>>

CancelVisionExtraction ==
    /\ Command
    /\ \/ VisionExtractionIsCurrent
       \/ app.mutation = "selecting" /\ app.source = None
       \/ app.mutation = "none" /\ RetainedVisionPdfIsCurrent
    /\ ResetCommand
    /\ UNCHANGED <<pending, Unasked, pick>>

Reset ==
    /\ Command
    /\ ReleasePendingPdfPick
    /\ ResetCommand
    /\ UNCHANGED <<Unasked, pick>>

\* handleAppState of "background" or "inactive".
HandleAppState ==
    /\ Command
    /\ ReleasePendingPdfPick
    /\ IF \/ app.mutation \in {"selecting", "editing", "extracting"}
          \/ app.mutation = "none" /\ RetainedVisionPdfIsCurrent
       THEN ResetCommand ELSE CancelWork
    /\ UNCHANGED <<Unasked, pick>>

RecoverPrivacyCleanup ==
    /\ Command
    /\ app.readiness = "blocked" /\ app.cleanupPending /\ owed # 0
    /\ \A r \in recoveries : r.epoch # owed
    /\ ReleasePendingPdfPick
    /\ recoveries' = recoveries \cup {[epoch |-> owed, at |-> "tail", gen |-> gen]}
    /\ UNCHANGED <<app, gen, draft, continuation, NoTask, own, owed, epochs, fence,
                   sweeps, starting, files, cleanup, pick, requireLocalPdfReview>>

-----------------------------------------------------------------------------
(* Picking a PDF                                                           *)

BeginPdfPick(p) ==
    /\ Command /\ pick[p] = "idle"
    /\ pick' = [pick EXCEPT ![p] = "open"]
    /\ IF app.mutation = "selecting" THEN ResetCommand
       ELSE draft' = None /\ UNCHANGED <<app, gen, continuation, NoTask>>
    /\ pending' = [pdf |-> p, gen |-> gen']
    /\ UNCHANGED Unasked

\* The screen aborts the pick's signal.
AbortPdfPick ==
    /\ Command /\ pending # None
    /\ ReleasePendingPdfPick
    /\ IF app.mutation = "selecting" THEN ResetCommand
       ELSE UNCHANGED <<app, gen, draft, continuation, NoTask>>
    /\ UNCHANGED <<Unasked, pick>>

PdfPickIsCurrent(p) ==
    /\ Mounted /\ pending # None
    /\ pending.pdf = p /\ pending.gen = gen
    /\ app.readiness = "ready"

Picked(p, at) == pick' = [pick EXCEPT ![p] = at]

\* pickPdfForDisplay: the picked PDF is copied under a lease of its own.
PdfStaged(p) ==
    /\ pick[p] = "open"
    /\ IF port = <<>>
       THEN /\ Picked(p, "staged")
            /\ disk' = disk \cup {p} /\ leased' = leased \cup {p}
       ELSE Picked(p, "waiting") /\ UNCHANGED files
    /\ UNCHANGED <<app, tokens, NoTask, own, cleanup, privacy, starting, given>>

EndPick(p) == pending' = IF pending # None /\ pending.pdf = p THEN None ELSE pending

\* completePdfPick with a staged PDF: selected, or discarded at once.
PdfPicked(p) ==
    /\ pick[p] = "staged"
    /\ claims' = Append(claims, p)
    /\ IF PdfPickIsCurrent(p)
       THEN /\ Picked(p, "selected")
            /\ EnqueueMutation("selecting", p)
            /\ UNCHANGED cleanup
       ELSE /\ Picked(p, "discarded")
            /\ CleanupClaim(p)
            /\ UNCHANGED <<app, gen, draft, continuation, NoTask>>
    /\ UNCHANGED <<pending, committed, retained, privacy, starting, files, given>>

\* completePdfPick without one: the stager has deleted what it copied.
PdfPickEmpty(p) ==
    /\ pick[p] \in {"open", "staged"} /\ Picked(p, "ended") /\ EndPick(p)
    /\ disk' = disk \ {p} /\ leased' = leased \ {p}
    /\ UNCHANGED <<app, gen, draft, continuation, NoTask, own, privacy, starting,
                   cleanup, given>>

\* failPdfPick: the stager could not delete its own copy.
PdfPickFailed(p) ==
    /\ ~Reliable
    /\ pick[p] = "staged" /\ Picked(p, "ended")
    /\ leased' = leased \ {p}
    /\ MarkAbandoned(port)
    /\ BlockPrivacy(FALSE)
    /\ acts' = Blocked(FALSE, acts) /\ vision' = Stopped(FALSE, vision)
    /\ sweeps' = IF Mounted THEN sweeps
                 ELSE Append(sweeps, [epoch |-> owed', at |-> "prior", fence |-> fence',
                                      shown |-> TRUE])
    /\ UNCHANGED <<active, queue, disposal, own, cleanup, recoveries, starting,
                   disk, given>>

-----------------------------------------------------------------------------
(* Some continuation is ready to run.                                      *)

MutationRuns ==
    /\ queue # <<>>
    /\ LET m == Head(queue)
       IN  MayBegin(m) \/ (m.at \in {"others", "previous", "end"} /\ m.on = None)

ActivationRuns ==
    \E a \in Activations :
        /\ acts[a] # None
        /\ \/ acts[a].aborted /\ acts[a].at # "terminal"
           \/ acts[a].at = "call"
           \/ acts[a].at = "terminal" /\ acts[a].on = None

RecoveryRuns ==
    \E r \in recoveries : \/ r.at = "tail" /\ ~MutationsBefore(r.gen)
                          \/ r.at = "claims" /\ running = {}

SweepRuns ==
    /\ sweeps # <<>>
    /\ \/ Head(sweeps).at = "prior"
       \/ Head(sweeps).at = "fence" /\ Head(sweeps).fence = 0

DisposalRuns ==
    \/ /\ disposal.at = "tasks" /\ ~starting
       /\ queue = <<>> /\ active = None /\ vision = None /\ recoveries = {}
    \/ disposal.at = "owned" /\ disposal.on = None
    \/ /\ disposal.at = "sweep"
       /\ \A i \in DOMAIN sweeps : sweeps[i].epoch # disposal.epoch

Quiet ==
    /\ ~MutationRuns /\ ~ActivationRuns /\ ~RecoveryRuns /\ ~SweepRuns
    /\ ~DisposalRuns
    /\ vision # None => ~(vision.at = "clean" /\ vision.on = None)

Continuation ==
    Mutation \/ Activation \/ VisionEnds \/ SweepProceeds \/ Recovery \/ Disposal

UserCommand ==
    \/ \E next \in {"text", None} : Select(next)
    \/ RefusedCommand
    \/ SetJobDescription \/ ExtractVisionDraft \/ CompleteVisionReview
    \/ Analyze \/ GrantConsent \/ DeclineConsent
    \/ Cancel \/ CancelVisionExtraction \/ Reset \/ HandleAppState
    \/ RecoverPrivacyCleanup
    \/ \E p \in Pdfs : BeginPdfPick(p)
    \/ AbortPdfPick

Event ==
    \/ UserCommand \/ Dispose
    \/ \E p \in Pdfs : PdfStaged(p) \/ PdfPicked(p) \/ PdfPickEmpty(p) \/ PdfPickFailed(p)
    \/ MutationVerifies \/ ActivationAnswered \/ VisionAnswered
    \/ ExactAnswered \/ InitializationAnswered \/ SweepAnswered
    \/ ExactTimesOut \/ InitializationTimesOut \/ SweepTimesOut

Next ==
    \/ Continuation
    \/ Quiet /\ Event

Spec == Init /\ [][Next]_vars

-----------------------------------------------------------------------------
(* Properties                                                              *)

TypeOK ==
    /\ app.status \in {"idle", "ready", "consentRequired", "analyzing",
                       "succeeded", "failed", "cancelled"}
    /\ app.readiness \in {"checking", "ready", "blocked"}
    /\ app.source \in Sources \cup {None}
    /\ app.mutation \in {"none", "selecting", "editing", "extracting",
                         "resetting", "consent"}
    /\ ToSet(claims) \subseteq Pdfs /\ IsInjective(claims)
    /\ running \subseteq Pdfs
    /\ committed \in Pdfs \cup {None} /\ retained \in Pdfs \cup {None}
    /\ active \in Activations \cup {None}
    /\ \A a \in Activations :
          acts[a] # None => acts[a].source \in Sources /\ acts[a].on \in Pdfs \cup {None}
    /\ \A i \in DOMAIN queue : queue[i].at \in Places /\ queue[i].on \in Pdfs \cup {None}
    /\ owed \in {0, epochs}
    /\ fence \in 0 .. Len(port)
    /\ leased \subseteq Pdfs /\ disk \subseteq Pdfs \cup {Leftover}

Staged == {p \in Pdfs : pick[p] = "staged"}

\* Privacy is reported as ready only when every copy in the cache is accounted
\* for: it belongs to a live claim, or to the picker that is staging it; and
\* no unverified cleanup is owed.  It holds while the screen is mounted and
\* for what a disposed coordinator leaves behind.
ReadyMeansClean ==
    app.readiness = "ready" =>
        /\ owed = 0
        /\ disk \subseteq ToSet(claims) \cup Staged

\* Once the tasks are over, a PDF handed to the coordinator is the committed
\* source, leased, in place and shown, or still to be deleted by the disposal
\* that is under way; or its copy is gone, or its cleanup is in flight, or
\* privacy is blocked: no copy is left that nobody will delete.
EveryPdfHasAnEnd ==
    Quiet /\ queue = <<>> /\ vision = None /\ active = None =>
        \A p \in (disk \cap Pdfs) \cup ({committed} \ {None}) :
            \/ p \in Staged \/ p \in running
            \/ /\ p = committed /\ Owned(p) /\ IsLive(p)
               /\ IF Mounted THEN p = app.source
                  ELSE disposal.at = "tasks" \/ p \in ToSet(disposal.todo)
            \/ app.readiness = "blocked"

\* While privacy is ready, what the screen shows as in progress has a task
\* behind it that is going to end it.
BusyHasATask ==
    Quiet /\ Mounted /\ app.readiness = "ready" =>
        /\ app.mutation = "extracting" => VisionExtractionIsCurrent
        /\ app.mutation \notin {"none", "extracting"} =>
               \E i \in DOMAIN queue : IsCurrentMutation(queue[i])
        /\ app.status = "analyzing" => SomeActive

\* Whatever is uploaded is the source on the screen, for the activation that
\* is current, while no cleanup is owed; a PDF only where no local review is
\* required.  The PDF an analysis holds the claim of is live and not being
\* deleted; one whose claim is gone is DeletedNeverSent's, which does not hold.
UploadsCurrent ==
    [][\A a \in Activations :
         acts[a] # None /\ acts'[a] # None
         /\ acts[a].at = "call" /\ acts'[a].at = "api" =>
            /\ ActivationIsCurrent(a)
            /\ acts[a].source = app.source
            /\ app.readiness = "ready" /\ owed = 0
            /\ acts[a].source \in Pdfs => ~requireLocalPdfReview
            /\ acts[a].claim # None => IsLive(acts[a].claim) /\ acts[a].claim \notin running]_vars

\* A PDF that was deleted, or is being deleted, is not given to the API, whatever
\* blocked and recovered privacy in between (analyze, newActivation).
DeletedNeverSent ==
    [][\A a \in Activations :
         acts[a] # None /\ acts'[a] # None
         /\ acts[a].at = "call" /\ acts'[a].at = "api" /\ acts[a].source \in Pdfs =>
            IsLive(acts[a].source) /\ acts[a].source \notin running]_vars

\* The selection of a text that nothing supersedes is committed when the
\* registry neither fails nor stalls, whatever a selection that it superseded
\* had already cleaned up.
LatestSelectionCommits ==
    [][queue # <<>> /\ queue' = <<>> /\ Mounted /\ Head(queue).next = "text"
         => app'.source = "text"]_vars
=============================================================================
