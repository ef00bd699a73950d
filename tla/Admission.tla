----------------------------- MODULE Admission -----------------------------
(***************************************************************************)
(* server/admission.py: what a POST /v2/analyses request goes through      *)
(* before its body is read and after its response.  It takes a rate-limit  *)
(* token, process-local PDF capacity, a global PDF slot, a provider slot   *)
(* and an AI allowance; the AdmissionLease gives them back at teardown.    *)
(* Each Redis command or transaction is one step, and each of them may     *)
(* fail.  When Redis is out, a reviewed-text request falls back on the     *)
(* emergency limiter of its process.                                       *)
(*                                                                         *)
(* The answers of the token bucket (module GlobalBucket), of the rate      *)
(* limiter and of the allowance store (module AiAllowance) are             *)
(* nondeterministic here; what they leave held is not.                     *)
(***************************************************************************)
EXTENDS Integers, SequencesExt

CONSTANTS
    Processes,       \* gunicorn workers
    Requests,        \* v2 analysis requests
    Loads,           \* bound of the model: what the requests may be
    ProviderLimit,   \* PROVIDER_CONCURRENCY (48)
    PdfLimit,        \* PDF_GLOBAL_CONCURRENCY (8)
    ProcessPdfs,     \* PDF_PROCESS_CONCURRENCY (2)
    ProcessBytes,    \* PDF_PROCESS_BYTES (20 MiB)
    EmergencyRate,   \* EMERGENCY_SCORE_RATE (2)
    MaxSecond,       \* bound of the model: seconds that pass
    StaleSecond,     \* may a second pass between a thread's clock reading and
                     \* its turn at the emergency limiter's lock?
    Nothing          \* not arrived, no answer yet, no second seen

Seconds   == 0 .. MaxSecond
Resources == {"pdf", "provider", "allowance"}
Limit     == [pdf |-> PdfLimit, provider |-> ProviderLimit]

\* The process a request came to, its source, the X-Resume-AI header and the
\* declared Content-Length.
Req == [process : Processes, source : {"reviewed_text", "pdf"}, ai : BOOLEAN,
        size : Nat \ {0}]

ASSUME ParametersAssumption ==
    /\ IsFiniteSet(Requests) /\ IsFiniteSet(Processes)
    /\ \A load \in Loads : load \in [Requests -> Req \cup {Nothing}]
    /\ {ProviderLimit, PdfLimit, ProcessPdfs, ProcessBytes, EmergencyRate,
        MaxSecond} \subseteq Nat
    /\ StaleSecond \in BOOLEAN

VARIABLES
    req,        \* what each request is, or Nothing when it never comes
    stage,      \* where its thread is in admit, the route or the teardown
    status,     \* AdmissionDecision.ai_status, or how admission failed
    lease,      \* AdmissionLease._reservations
    held,       \* Redis: the owners of slots and allowance leases
    local,      \* each process's _local_pdf_count and _local_pdf_bytes
    emergency,  \* each process's _emergency_second and _emergency_count
    second,     \* the clock, in whole seconds
    readAt,     \* the second a thread read for the emergency limiter
    scores,     \* history: when each emergency score was taken
    troubled,   \* history: requests that met a Redis failure or a crash
    outlived    \* history: requests whose provider slot expired under them

vars == <<req, stage, status, lease, held, local, emergency, second, readAt,
          scores, troubled, outlived>>

AiStatus == {"admitted", "not_requested", "quota_exhausted",
             "plan_verification_unavailable", "temporarily_unavailable"}
Errors   == {"capacity_unavailable", "capacity_limited", "rate_limited",
             "service_unavailable"}
Stages   == {"idle", "global", "rate", "local_pdf", "pdf", "ai", "provider",
             "allowance", "snapshot", "exhausted", "drop_provider", "unwind",
             "emergency", "take", "serving", "calling", "teardown", "done"}

ASSUME NothingAssumption ==
    Nothing \notin Req /\ Nothing \notin AiStatus \cup Errors
        /\ Nothing \notin Seconds

Init ==
    /\ req \in Loads
    /\ stage = [r \in Requests |-> "idle"]
    /\ status = [r \in Requests |-> Nothing]
    /\ lease = [r \in Requests |-> <<>>]
    /\ held = [x \in Resources |-> {}]
    /\ local = [p \in Processes |-> [count |-> 0, bytes |-> 0]]
    /\ emergency = [p \in Processes |-> [second |-> Nothing, count |-> 0]]
    /\ second = 0
    /\ readAt = [r \in Requests |-> Nothing]
    /\ scores = [p \in Processes |-> [t \in Seconds |-> 0]]
    /\ troubled = {}
    /\ outlived = {}

-----------------------------------------------------------------------------
(* Moves of one request's thread                                           *)

clockVars == <<emergency, second, readAt, scores, outlived>>

Goto(r, s)        == stage' = [stage EXCEPT ![r] = s]
Decide(r, s, why) == Goto(r, s) /\ status' = [status EXCEPT ![r] = why]

\* An exception leaves _admit_with_store: lease.release() runs, and what is
\* raised is why, or the CapacityUnavailable of a release that failed.
Raise(r, why) == Decide(r, "unwind", why)

Hold(x, r) == held' = [held EXCEPT ![x] = @ \cup {r}]
Drop(x, r) == held' = [held EXCEPT ![x] = @ \ {r}]
Add(r, xs) == lease' = [lease EXCEPT ![r] = @ \o xs]
Trouble(r) == troubled' = troubled \cup {r}

\* A command that fails may have taken effect before its reply was lost.
FailedDrop(x, r) ==
    /\ Trouble(r)
    /\ UNCHANGED held \/ Drop(x, r)

-----------------------------------------------------------------------------
(* admit                                                                   *)

Begin(r) ==
    /\ stage[r] = "idle"
    /\ req[r] # Nothing
    /\ Goto(r, "global")
    /\ UNCHANGED <<req, status, lease, held, local, troubled, clockVars>>

\* admit_global takes a token, or says when the next one comes; the rate
\* limiter lets the request pass, perhaps without AI, or not.
Tokens(r) ==
    /\ \/ /\ stage[r] = "global"
          /\ \/ Decide(r, "rate", Nothing)
             \/ Decide(r, "done", "capacity_limited")
       \/ /\ stage[r] = "rate"
          /\ \/ \E why \in {Nothing, "temporarily_unavailable"} :
                   Decide(r, IF req[r].source = "pdf" THEN "local_pdf"
                                                      ELSE "ai", why)
             \/ Decide(r, "done", "rate_limited")
    /\ UNCHANGED <<req, lease, held, local, troubled, clockVars>>

\* Redis is out, or the transaction was attempted 32 times: an exception
\* that admit turns into _admit_emergency.
TokensFail(r) ==
    /\ stage[r] \in {"global", "rate"}
    /\ Decide(r, "emergency", "capacity_unavailable")
    /\ Trouble(r)
    /\ UNCHANGED <<req, lease, held, local, clockVars>>

FitsLocally(r) ==
    LET p == req[r].process
    IN  /\ local[p].count < ProcessPdfs
        /\ local[p].bytes + req[r].size <= ProcessBytes

ReserveLocalPdf(r) ==
    LET p == req[r].process
    IN  /\ stage[r] = "local_pdf"
        /\ FitsLocally(r)
        /\ local' = [local EXCEPT ![p].count = @ + 1,
                                  ![p].bytes = @ + req[r].size]
        /\ Add(r, <<"local_pdf">>)
        /\ Goto(r, "pdf")
        /\ UNCHANGED <<req, status, held, troubled, clockVars>>

NoLocalPdf(r) ==
    /\ stage[r] = "local_pdf"
    /\ ~FitsLocally(r)
    /\ Raise(r, "capacity_limited")
    /\ UNCHANGED <<req, lease, held, local, troubled, clockVars>>

-----------------------------------------------------------------------------
(* RedisCapacityStore._reserve.  A commit whose reply was lost is retried,  *)
(* and the retry counts the slot it already has.                            *)

HasRoom_OneMore(x) == Cardinality(held[x]) <= Limit[x]
HasRoom(x)         == Cardinality(held[x]) < Limit[x]

ReservePdf(r, reply) ==
    /\ stage[r] = "pdf"
    /\ HasRoom("pdf")
    /\ Hold("pdf", r)
    /\ IF reply THEN Add(r, <<"pdf">>) /\ Goto(r, "ai") /\ UNCHANGED troubled
                ELSE Trouble(r) /\ UNCHANGED <<lease, stage>>
    /\ UNCHANGED <<req, status, local, clockVars>>

\* No room is AdmissionRejected, a failure CapacityUnavailable.
NoPdf_KeepsLocal(r) ==
    /\ stage[r] = "pdf"
    /\ \/ ~HasRoom("pdf") /\ Decide(r, "done", "capacity_limited")
                          /\ UNCHANGED troubled
       \/ Raise(r, "capacity_unavailable") /\ Trouble(r)
    /\ UNCHANGED <<req, lease, held, local, clockVars>>

NoPdf(r) ==
    /\ stage[r] = "pdf"
    /\ \/ ~HasRoom("pdf") /\ Raise(r, "capacity_limited") /\ UNCHANGED troubled
       \/ Raise(r, "capacity_unavailable") /\ Trouble(r)
    /\ UNCHANGED <<req, lease, held, local, clockVars>>

\* Which requests go on to the provider's capacity.
ChooseAi(r) ==
    /\ stage[r] = "ai"
    /\ CASE ~req[r].ai           -> Decide(r, "serving", "not_requested")
         [] status[r] # Nothing  -> Goto(r, "serving") /\ UNCHANGED status
         [] OTHER                -> Goto(r, "provider") /\ UNCHANGED status
    /\ UNCHANGED <<req, lease, held, local, troubled, clockVars>>

ReserveProvider(r, reply) ==
    /\ stage[r] = "provider"
    /\ HasRoom("provider")
    /\ Hold("provider", r)
    /\ IF reply THEN Goto(r, "allowance") /\ UNCHANGED troubled
                ELSE Trouble(r) /\ UNCHANGED stage
    /\ UNCHANGED <<req, status, lease, local, clockVars>>

\* No room leaves the request deterministic.
NoProvider(r) ==
    /\ stage[r] = "provider"
    /\ \/ /\ ~HasRoom("provider")
          /\ Decide(r, "serving", "temporarily_unavailable")
          /\ UNCHANGED troubled
       \/ Raise(r, "capacity_unavailable") /\ Trouble(r)
    /\ UNCHANGED <<req, lease, held, local, clockVars>>

-----------------------------------------------------------------------------
(* allowance_reserver (production.reserve_allowance) and its snapshot, with *)
(* a provider slot that is not in the lease yet.                            *)

\* The allowance is reserved, with or without a lease of its own, or the
\* plan could not be verified.
ReserveAllowance(r) ==
    /\ stage[r] = "allowance"
    /\ \/ Goto(r, "snapshot") /\ UNCHANGED <<held, status>>
       \/ Goto(r, "snapshot") /\ Hold("allowance", r) /\ UNCHANGED status
       \/ /\ Decide(r, "drop_provider", "plan_verification_unavailable")
          /\ UNCHANGED held
    /\ UNCHANGED <<req, lease, local, troubled, clockVars>>

Snapshot_ForgetsProvider(r) ==
    /\ stage[r] = "snapshot"
    /\ Decide(r, "serving", "admitted")
    /\ Add(r, <<"allowance">>)
    /\ UNCHANGED <<req, held, local, troubled, clockVars>>

Snapshot(r) ==
    /\ stage[r] = "snapshot"
    /\ \/ Decide(r, "serving", "admitted") /\ Add(r, <<"provider", "allowance">>)
       \/ Goto(r, "exhausted") /\ UNCHANGED <<status, lease>>
    /\ UNCHANGED <<req, held, local, troubled, clockVars>>

\* used >= limit: the allowance is released, then the provider slot.
DropAllowance(r) ==
    /\ stage[r] = "exhausted"
    /\ Decide(r, "drop_provider", "quota_exhausted")
    /\ Drop("allowance", r)
    /\ UNCHANGED <<req, lease, local, troubled, clockVars>>

\* AllowanceUnavailable from reserve, snapshot or release is neither a
\* PublicServiceError nor a CapacityUnavailable.
AllowanceFails(r) ==
    /\ \/ /\ stage[r] = "allowance"
          /\ UNCHANGED held \/ Hold("allowance", r)
          /\ Trouble(r)
       \/ stage[r] = "snapshot" /\ Trouble(r) /\ UNCHANGED held
       \/ stage[r] = "exhausted" /\ FailedDrop("allowance", r)
    /\ Raise(r, "service_unavailable")
    /\ UNCHANGED <<req, lease, local, clockVars>>

DropProvider(r) ==
    /\ stage[r] = "drop_provider"
    /\ Goto(r, "serving")
    /\ Drop("provider", r)
    /\ UNCHANGED <<req, status, lease, local, troubled, clockVars>>

DropProviderFails(r) ==
    /\ stage[r] = "drop_provider"
    /\ FailedDrop("provider", r)
    /\ Raise(r, "capacity_unavailable")
    /\ UNCHANGED <<req, lease, local, clockVars>>

-----------------------------------------------------------------------------
(* AdmissionLease.release, in reverse order, from the except clause of      *)
(* _admit_with_store ("unwind") or from the teardown of the request.        *)

ReleaseLocalPdf(r) ==
    LET p == req[r].process
    IN  /\ stage[r] \in {"unwind", "teardown"}
        /\ lease[r] # <<>> /\ Last(lease[r]) = "local_pdf"
        /\ local' = [local EXCEPT ![p].count = @ - 1,
                                  ![p].bytes = @ - req[r].size]
        /\ lease' = [lease EXCEPT ![r] = Front(@)]
        /\ UNCHANGED <<req, stage, status, held, troubled, clockVars>>

\* A release that fails does not stop the others; while unwinding it becomes
\* the exception.
ReleaseSlot(r, ok) ==
    /\ stage[r] \in {"unwind", "teardown"}
    /\ lease[r] # <<>> /\ Last(lease[r]) \in Resources
    /\ lease' = [lease EXCEPT ![r] = Front(@)]
    /\ IF ok THEN Drop(Last(lease[r]), r) /\ UNCHANGED <<status, troubled>>
       ELSE /\ FailedDrop(Last(lease[r]), r)
            /\ status' = IF stage[r] = "unwind"
                         THEN [status EXCEPT ![r] = "capacity_unavailable"]
                         ELSE status
    /\ UNCHANGED <<req, stage, local, clockVars>>

Released(r) ==
    /\ stage[r] \in {"unwind", "teardown"}
    /\ lease[r] = <<>>
    /\ Goto(r, IF stage[r] = "unwind" /\ status[r] = "capacity_unavailable"
               THEN "emergency" ELSE "done")
    /\ UNCHANGED <<req, status, lease, held, local, troubled, clockVars>>

-----------------------------------------------------------------------------
(* _admit_emergency                                                        *)

otherVars == <<req, lease, held, local, troubled, outlived>>

EmergencyRefused(r) ==
    /\ stage[r] = "emergency"
    /\ req[r].source = "pdf"
    /\ Decide(r, "done", "capacity_limited")
    /\ UNCHANGED <<otherVars, emergency, second, readAt, scores>>

\* _take_emergency_score reads the clock before it takes the lock.
EmergencyClock_AnySource(r) ==
    /\ stage[r] = "emergency"
    /\ Goto(r, "take")
    /\ readAt' = [readAt EXCEPT ![r] = second]
    /\ UNCHANGED <<otherVars, status, emergency, second, scores>>

EmergencyClock(r) ==
    /\ stage[r] = "emergency"
    /\ req[r].source = "reviewed_text"
    /\ Goto(r, "take")
    /\ readAt' = [readAt EXCEPT ![r] = second]
    /\ UNCHANGED <<otherVars, status, emergency, second, scores>>

TakenIn(p, t) == IF emergency[p].second = t THEN emergency[p].count ELSE 0

EmergencyFull_OneMore(p, t) == TakenIn(p, t) > EmergencyRate
EmergencyFull(p, t)         == TakenIn(p, t) >= EmergencyRate

EmergencyTake(r) ==
    LET p == req[r].process
        t == readAt[r]
        n == TakenIn(p, t)
    IN  /\ stage[r] = "take"
        /\ IF EmergencyFull(p, t)
           THEN /\ Decide(r, "done", "capacity_limited")
                /\ emergency' = [emergency EXCEPT ![p] =
                                    [second |-> t, count |-> n]]
                /\ UNCHANGED scores
           ELSE /\ Decide(r, "serving", IF req[r].ai
                                        THEN "temporarily_unavailable"
                                        ELSE "not_requested")
                /\ emergency' = [emergency EXCEPT ![p] =
                                    [second |-> t, count |-> n + 1]]
                /\ scores' = [scores EXCEPT ![p][second] = @ + 1]
        /\ readAt' = [readAt EXCEPT ![r] = Nothing]
        /\ UNCHANGED <<otherVars, second>>

-----------------------------------------------------------------------------
(* The route and the environment                                           *)

\* begin_dispatch charges and gives up the allowance lease, or keeps it and
\* calls nobody (the request then goes straight to Finish).
Dispatch(r) ==
    /\ stage[r] = "serving"
    /\ status[r] = "admitted"
    /\ Goto(r, "calling")
    /\ Drop("allowance", r)
    /\ UNCHANGED <<req, status, lease, local, troubled, clockVars>>

\* The response is made, or the body was refused; the teardown follows.
Finish(r) ==
    /\ stage[r] \in {"serving", "calling"}
    /\ Goto(r, "teardown")
    /\ UNCHANGED <<req, status, lease, held, local, troubled, clockVars>>

\* A slot or lease expires RESERVATION_TTL_SECONDS after it was taken.
Expire(x, r) ==
    /\ r \in held[x]
    /\ Drop(x, r)
    /\ outlived' = IF x = "provider" THEN outlived \cup {r} ELSE outlived
    /\ UNCHANGED <<req, stage, status, lease, local, emergency, second, readAt,
                   scores, troubled>>

Tick ==
    /\ second < MaxSecond
    /\ StaleSecond \/ \A r \in Requests : stage[r] # "take"
    /\ second' = second + 1
    /\ UNCHANGED <<otherVars, stage, status, emergency, readAt, scores>>

Alive(p) == {r \in Requests : /\ stage[r] \notin {"idle", "done"}
                              /\ req[r].process = p}

\* A worker is killed (gunicorn's timeout, a deploy) and started again.
Crash(p) ==
    /\ Alive(p) # {}
    /\ stage' = [r \in Requests |-> IF r \in Alive(p) THEN "done" ELSE stage[r]]
    /\ lease' = [r \in Requests |-> IF r \in Alive(p) THEN <<>> ELSE lease[r]]
    /\ readAt' = [r \in Requests |-> IF r \in Alive(p) THEN Nothing
                                                       ELSE readAt[r]]
    /\ status' = [r \in Requests |-> IF r \in Alive(p) THEN Nothing
                                                       ELSE status[r]]
    /\ local' = [local EXCEPT ![p] = [count |-> 0, bytes |-> 0]]
    /\ emergency' = [emergency EXCEPT ![p] = [second |-> Nothing, count |-> 0]]
    /\ scores' = [scores EXCEPT ![p] = [t \in Seconds |-> 0]]
    /\ troubled' = troubled \cup Alive(p)
    /\ UNCHANGED <<req, held, second, outlived>>

-----------------------------------------------------------------------------
Next ==
    \/ \E r \in Requests :
          \/ Begin(r) \/ Tokens(r) \/ TokensFail(r)
          \/ ReserveLocalPdf(r) \/ NoLocalPdf(r)
          \/ NoPdf(r) \/ ChooseAi(r) \/ NoProvider(r)
          \/ \E reply \in BOOLEAN :
                ReservePdf(r, reply) \/ ReserveProvider(r, reply)
          \/ ReserveAllowance(r) \/ Snapshot(r) \/ DropAllowance(r)
          \/ AllowanceFails(r) \/ DropProvider(r) \/ DropProviderFails(r)
          \/ ReleaseLocalPdf(r)
          \/ \E ok \in BOOLEAN : ReleaseSlot(r, ok)
          \/ Released(r)
          \/ EmergencyRefused(r) \/ EmergencyClock(r) \/ EmergencyTake(r)
          \/ Dispatch(r) \/ Finish(r)
          \/ \E x \in Resources : Expire(x, r)
    \/ Tick
    \/ \E p \in Processes : Crash(p)

Spec == Init /\ [][Next]_vars

-----------------------------------------------------------------------------
(* Properties                                                              *)

TypeOK ==
    /\ req \in [Requests -> Req \cup {Nothing}]
    /\ stage \in [Requests -> Stages]
    /\ status \in [Requests -> AiStatus \cup Errors \cup {Nothing}]
    /\ lease \in [Requests -> Seq(Resources \cup {"local_pdf"})]
    /\ held \in [Resources -> SUBSET Requests]
    /\ local \in [Processes -> [count : Nat, bytes : Nat]]
    /\ emergency \in [Processes -> [second : Seconds \cup {Nothing},
                                    count : 0 .. EmergencyRate]]
    /\ second \in Seconds
    /\ readAt \in [Requests -> Seconds \cup {Nothing}]
    /\ scores \in [Processes -> [Seconds -> Nat]]
    /\ troubled \subseteq Requests
    /\ outlived \subseteq Requests

\* The requests of p whose lease holds process-local PDF capacity.
Holding(p) == {r \in Alive(p) : Contains(lease[r], "local_pdf")}

\* The two process-local PDF counters, which nothing ever expires, are what
\* the live leases of the process hold: on no path - rejection, Redis failure
\* at any step, a failed release of another reservation - does a request keep
\* or give back capacity twice (_release_local_pdf would raise).
LocalPdfExact ==
    \A p \in Processes :
        /\ local[p].count = Cardinality(Holding(p))
        /\ local[p].bytes = MapThenSumSet(LAMBDA r : req[r].size, Holding(p))

Served(r) == stage[r] \in {"serving", "calling"}

\* PDF capacity fails closed: whatever Redis does, a process never has more
\* PDF bodies in hand than its own limits allow.
PdfFailsClosed ==
    \A p \in Processes :
        LET pdfs == {r \in Alive(p) : Served(r) /\ req[r].source = "pdf"}
        IN  /\ Cardinality(pdfs) <= ProcessPdfs
            /\ MapThenSumSet(LAMBDA r : req[r].size, pdfs) <= ProcessBytes

\* AI capacity fails closed: the provider calls under way whose slot has not
\* run out under them never exceed the global limit, through lost replies,
\* failed releases and restarts.
ProviderBound ==
    Cardinality({r \in Requests : stage[r] = "calling"} \ outlived)
        <= ProviderLimit

\* A request that met no Redis failure leaves nothing behind when it is over:
\* every early return of admission gives back what it had taken.
NothingLeaks ==
    \A r \in Requests \ troubled :
        stage[r] = "done" => \A x \in Resources : r \notin held[x]

\* "A per-process emergency limiter of 2 requests per second": no process
\* takes more emergency scores than that in any second.
EmergencyBound ==
    \A p \in Processes, t \in Seconds : scores[p][t] <= EmergencyRate

\* "Redis outage fails closed for AI/PDF capacity while allowing a bounded
\* reviewed-text deterministic score path": a reviewed-text request that
\* loses Redis on the way is scored or told to come back, never failed.
OutageDegrades ==
    \A r \in Requests :
        stage[r] = "done" /\ req[r].source = "reviewed_text"
            => status[r] # "service_unavailable"
=============================================================================
