----------------------------- MODULE PlanCache -----------------------------
(***************************************************************************)
(* server/entitlements.py VerifiedEntitlementCache, server/revenuecat.py   *)
(* RevenueCatPlanVerifier and the POST /v2/revenuecat/webhook route: how a *)
(* worker learns the plan of an app user.  Verified plans are cached in    *)
(* Redis; a webhook invalidates the cache of every identity it affects by  *)
(* deleting the entry and bumping a generation, in one transaction; a      *)
(* verification that raced a webhook is thrown away.                       *)
(*                                                                         *)
(* The plan itself is abstracted to the version of the subscriber record   *)
(* it was read from: version n of the billing history is the n-th change,  *)
(* and the webhook event n announces it.                                   *)
(***************************************************************************)
EXTENDS Integers

CONSTANTS
    Users,          \* RevenueCat app user ids
    Verifiers,      \* worker threads that verify a plan
    MaxVersion,     \* bound of the model: changes of the billing history
    MaxGeneration,  \* largest generation the code accepts (1_000_000_000)
    MaxTime,        \* bound of the model: ticks of the workers' clock
    Nothing         \* no cache entry, no verification under way

Versions    == 0 .. MaxVersion
Generations == 0 .. MaxGeneration
Times       == 0 .. MaxTime

\* What the bounds are; MCLifecycles assumes it.
BoundsAssumption ==
    MaxVersion \in Nat /\ MaxGeneration \in Nat /\ MaxTime \in Nat

VARIABLES
    \* RevenueCat
    version,       \* changes so far
    record,        \* [Users -> version of the subscriber record]
    affected,      \* [event -> the users it names]
    acked,         \* events answered with 204: no longer redelivered
    \* Redis
    cache,         \* plan:<user>, the version it was read at and when, or Nothing
    generation,    \* generation:<user>; 0 when absent
    claimed,       \* event:<id>
    \* the workers
    now,           \* their clock
    verifier,      \* local state of RevenueCatPlanVerifier.verify
    answer,        \* the plan version verify returned, or Nothing
    \* history
    invalidated    \* the latest version a claimed event announced for a user

billing == <<version, record, affected, acked>>
vars    == <<version, record, affected, acked, cache, generation, claimed, now,
             verifier, answer, invalidated>>

\* An entry, and a verification, also remembers whether the generation its plan
\* was read under expired before the plan was cached (history: the code has no
\* such field).
Entry == [version : Versions, observed : Times, outlived : BOOLEAN]
Task  == [user : Users, generation : Generations, plan : Versions \cup {Nothing},
          observed : Times, outlived : BOOLEAN,
          step : {"read", "fetch", "fetched", "observed", "put"}]

\* What is nothing is no value; MCLifecycles assumes it.
NothingAssumption ==
    Nothing \notin Versions /\ Nothing \notin Entry /\ Nothing \notin Task

Init ==
    /\ version = 0
    /\ record = [u \in Users |-> 0]
    /\ affected = [n \in Versions |-> {}]
    /\ acked = {}
    /\ cache = [u \in Users |-> Nothing]
    /\ generation = [u \in Users |-> 0]
    /\ claimed = {}
    /\ now = 0
    /\ verifier = [v \in Verifiers |-> Nothing]
    /\ answer = [v \in Verifiers |-> Nothing]
    /\ invalidated = [u \in Users |-> 0]

-----------------------------------------------------------------------------
(* RevenueCat: a purchase, renewal or expiry changes one subscriber record, *)
(* a transfer several.                                                      *)

Change(A) ==
    /\ A # {}
    /\ version < MaxVersion
    /\ version' = version + 1
    /\ record' = [u \in Users |-> IF u \in A THEN version + 1 ELSE record[u]]
    /\ affected' = [affected EXCEPT ![version + 1] = A]
    /\ UNCHANGED <<acked, cache, generation, claimed, now, verifier, answer,
                   invalidated>>

-----------------------------------------------------------------------------
(* claim_webhook_event.  Deliveries come in any order, late, and more than  *)
(* once; when the reply is lost RevenueCat delivers again.                  *)

Latest(m, n) == IF m > n THEN m ELSE n

\* The cache without the entries of the users the event names.
Invalidated_None(n) == cache
Invalidated(n) ==
    [u \in Users |-> IF u \in affected[n] THEN Nothing ELSE cache[u]]

Claim(n, reply) ==
    /\ n \in 1 .. version
    /\ n \notin claimed
    /\ \A u \in affected[n] : generation[u] < MaxGeneration
    /\ claimed' = claimed \cup {n}
    /\ cache' = Invalidated(n)
    /\ generation' = [u \in Users |->
                         IF u \in affected[n] THEN generation[u] + 1
                                              ELSE generation[u]]
    /\ invalidated' = [u \in Users |->
                          IF u \in affected[n] THEN Latest(invalidated[u], n)
                                               ELSE invalidated[u]]
    /\ acked' = IF reply THEN acked \cup {n} ELSE acked
    /\ UNCHANGED <<version, record, affected, now, verifier, answer>>

\* The event key exists: claim_webhook_event returns False, the route 204.
DuplicateEvent(n) ==
    /\ n \in claimed \ acked
    /\ acked' = acked \cup {n}
    /\ UNCHANGED <<version, record, affected, cache, generation, claimed, now,
                   verifier, answer, invalidated>>

-----------------------------------------------------------------------------
(* RevenueCatPlanVerifier.verify                                            *)

Idle(v)  == verifier[v] = Nothing
AtStep(v, step) == ~Idle(v) /\ verifier[v].step = step

GenerationMatches_Any(v) == TRUE
GenerationMatches(v)     == generation[verifier[v].user] = verifier[v].generation

\* get_with_generation reads both keys in one transaction.
Read(v, u) ==
    /\ Idle(v)
    /\ verifier' = [verifier EXCEPT ![v] =
                       [user |-> u, generation |-> generation[u],
                        plan |-> IF cache[u] = Nothing THEN Nothing
                                                       ELSE cache[u].version,
                        observed |-> 0,
                        outlived |-> cache[u] # Nothing /\ cache[u].outlived,
                        step |-> "read"]]
    /\ answer' = [answer EXCEPT ![v] = Nothing]
    /\ UNCHANGED <<billing, cache, generation, claimed, now, invalidated>>

Return(v) ==
    /\ answer' = [answer EXCEPT ![v] = verifier[v].plan]
    /\ verifier' = [verifier EXCEPT ![v] = Nothing]

\* A cached plan is returned if the generation still is the one read with it.
ReturnCached(v) ==
    /\ AtStep(v, "read")
    /\ GenerationMatches(v)
    /\ verifier[v].plan # Nothing
    /\ Return(v)
    /\ UNCHANGED <<billing, cache, generation, claimed, now, invalidated>>

StartFetch(v) ==
    /\ AtStep(v, "read")
    /\ GenerationMatches(v)
    /\ verifier[v].plan = Nothing
    /\ verifier' = [verifier EXCEPT ![v].step = "fetch"]
    /\ UNCHANGED <<billing, cache, generation, claimed, now, answer,
                   invalidated>>

\* RevenueCat answers from its record of the subscriber.
Fetch(v) ==
    /\ AtStep(v, "fetch")
    /\ verifier' = [verifier EXCEPT ![v].step = "fetched",
                                    ![v].plan = record[verifier[v].user]]
    /\ UNCHANGED <<billing, cache, generation, claimed, now, answer,
                   invalidated>>

\* observed_at is read from the clock before the put transaction.
Observe(v) ==
    /\ AtStep(v, "fetched")
    /\ verifier' = [verifier EXCEPT ![v].step = "observed",
                                    ![v].observed = now]
    /\ UNCHANGED <<billing, cache, generation, claimed, now, answer,
                   invalidated>>

\* The cached entry was observed later than t.
ObservedLater_Never(u, t) == FALSE
ObservedLater(u, t)       == cache[u] # Nothing /\ t < cache[u].observed

\* put_verified_if_generation: an entry observed later stays.
Put(v, reply) ==
    LET u == verifier[v].user
        t == verifier[v].observed
    IN  /\ AtStep(v, "observed")
        /\ GenerationMatches(v)
        /\ cache' = IF ObservedLater(u, t)
                    THEN cache
                    ELSE [cache EXCEPT ![u] =
                             [version |-> verifier[v].plan, observed |-> t,
                              outlived |-> verifier[v].outlived]]
        /\ verifier' = IF reply THEN [verifier EXCEPT ![v].step = "put"]
                                ELSE verifier
        /\ UNCHANGED <<billing, generation, claimed, now, answer, invalidated>>

ReturnFetched_Unchecked(v) ==
    /\ AtStep(v, "put")
    /\ Return(v)
    /\ UNCHANGED <<billing, cache, generation, claimed, now, invalidated>>

ReturnFetched(v) ==
    /\ AtStep(v, "put")
    /\ GenerationMatches(v)
    /\ Return(v)
    /\ UNCHANGED <<billing, cache, generation, claimed, now, invalidated>>

\* The generation moved, the deadline passed, or Redis or RevenueCat failed:
\* EntitlementUnavailable.
Fail(v) ==
    /\ ~Idle(v)
    /\ verifier' = [verifier EXCEPT ![v] = Nothing]
    /\ UNCHANGED <<billing, cache, generation, claimed, now, answer,
                   invalidated>>

-----------------------------------------------------------------------------
(* Time.  A cache entry lives as long as the plan is verified (at most 25 h);*)
(* a generation lives 73 h from the claim that wrote it, and no read renews  *)
(* it: it may go while a verification holds it, and count from 0 again.      *)

Tick ==
    /\ now < MaxTime
    /\ now' = now + 1
    /\ UNCHANGED <<billing, cache, generation, claimed, verifier, answer,
                   invalidated>>

CacheExpire(u) ==
    /\ cache[u] # Nothing
    /\ cache' = [cache EXCEPT ![u] = Nothing]
    /\ UNCHANGED <<billing, generation, claimed, now, verifier, answer,
                   invalidated>>

GenerationExpire(u) ==
    /\ generation[u] # 0
    /\ generation' = [generation EXCEPT ![u] = 0]
    /\ verifier' = [v \in Verifiers |->
                       IF ~Idle(v) /\ verifier[v].user = u
                       THEN [verifier[v] EXCEPT !.outlived = TRUE]
                       ELSE verifier[v]]
    /\ UNCHANGED <<billing, cache, claimed, now, answer, invalidated>>

-----------------------------------------------------------------------------
Next ==
    \/ \E A \in SUBSET Users : Change(A)
    \/ \E n \in Versions :
          \/ \E reply \in BOOLEAN : Claim(n, reply)
          \/ DuplicateEvent(n)
    \/ \E v \in Verifiers :
          \/ \E u \in Users : Read(v, u)
          \/ ReturnCached(v) \/ StartFetch(v) \/ Fetch(v) \/ Observe(v)
          \/ \E reply \in BOOLEAN : Put(v, reply)
          \/ ReturnFetched(v) \/ Fail(v)
    \/ Tick
    \/ \E u \in Users : CacheExpire(u) \/ GenerationExpire(u)

Spec == Init /\ [][Next]_vars

\* RevenueCat redelivers an event until it is answered, and a redelivery
\* eventually finds Redis up (the route answers 503, retryable, until then).
Fairness ==
    \A n \in Versions : WF_vars(Claim(n, TRUE)) /\ WF_vars(DuplicateEvent(n))

FairSpec == Spec /\ Fairness

-----------------------------------------------------------------------------
(* Properties                                                               *)

TypeOK ==
    /\ version \in Versions
    /\ record \in [Users -> Versions]
    /\ affected \in [Versions -> SUBSET Users]
    /\ acked \subseteq Versions /\ claimed \subseteq Versions
    /\ cache \in [Users -> Entry \cup {Nothing}]
    /\ generation \in [Users -> Generations]
    /\ now \in Times
    /\ verifier \in [Verifiers -> Task \cup {Nothing}]
    /\ answer \in [Verifiers -> Versions \cup {Nothing}]
    /\ invalidated \in [Users -> Versions]

\* Once a webhook was claimed, no worker's fill brings a plan from before the
\* announced change back into the cache, for any of the identities it named,
\* however verifications, claims and expiries interleave.  One fill may: that of
\* a verification which its generation key did not outlive, since the next claim
\* gives a key that has expired a number it had before.
CacheFresh ==
    \A u \in Users :
        cache[u] # Nothing /\ ~cache[u].outlived => cache[u].version >= invalidated[u]

\* ... and no worker returns such a plan: neither from the cache nor from an
\* answer of RevenueCat that was on its way when the webhook came.
AnswerFresh ==
    [][\A v \in Verifiers :
          (answer'[v] # answer[v] /\ answer'[v] # Nothing /\ ~verifier[v].outlived)
              => answer'[v] >= invalidated[verifier[v].user]]_vars

\* Two verifications of one user finish in any order, but the cache keeps the
\* one that was observed later.
NewestObservationWins ==
    [][\A u \in Users :
          (cache[u] # Nothing /\ cache'[u] # Nothing)
              => cache'[u].observed >= cache[u].observed]_vars

\* No verification is answered from a cache that is older than a change it was
\* told of, and the newest observation stays in the cache.
AnswersInOrder == AnswerFresh /\ NewestObservationWins

\* A plan cached before a change of the subscription does not stay: the
\* webhook's redelivery, or expiry, ends it.  (One that was cached by a
\* verification that outlived its generation has only its own expiry.)
Outdated(u, n) ==
    n <= version /\ u \in affected[n] /\ cache[u] # Nothing
        /\ ~cache[u].outlived /\ cache[u].version < n

OutdatedPlansGo ==
    \A u \in Users, n \in Versions : []<>~Outdated(u, n)
=============================================================================
