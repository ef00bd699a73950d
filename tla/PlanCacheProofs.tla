--------------------------- MODULE PlanCacheProofs ---------------------------
(***************************************************************************)
(* That a webhook is not undone by a verification it raced: for any number *)
(* of users, workers, changes and deliveries.  The argument is about the   *)
(* generation.  While the key has not expired under a worker, its          *)
(* generation is never ahead of the stored one and a claim moves the       *)
(* stored one past it; so a worker whose generation still matches has seen *)
(* no claim for its user since it read, and what it holds is as new as the *)
(* claims.  A worker that the key did expire under, and what it cached, is *)
(* told apart by outlived: nothing can be said of its plan, since the next *)
(* claims may bring back the number it read.                               *)
(***************************************************************************)
EXTENDS PlanCache, TLAPS

\* What RevenueCat answers is as new as the changes that name the user, and
\* only changes that were made are claimed.
RecordAhead ==
    /\ claimed \subseteq 1 .. version
    /\ \A n \in 1 .. version : \A u \in affected[n] : record[u] >= n
    /\ \A u \in Users : invalidated[u] <= record[u] /\ record[u] <= version

\* A worker's generation is one its user has had since the key last expired,
\* unless that was under the worker; a plan is known from the fetch on.
VerifiersBehind ==
    \A v \in Verifiers : ~Idle(v) =>
        /\ ~verifier[v].outlived
               => verifier[v].generation <= generation[verifier[v].user]
        /\ verifier[v].step \in {"fetched", "observed", "put"}
               => verifier[v].plan # Nothing

\* A worker that may still return its plan, or store it, holds a fresh one.
VerifiersFresh ==
    \A v \in Verifiers :
        (~Idle(v) /\ GenerationMatches(v) /\ verifier[v].plan # Nothing
           /\ ~verifier[v].outlived)
            => verifier[v].plan >= invalidated[verifier[v].user]

CacheInv == TypeOK /\ RecordAhead /\ VerifiersBehind /\ VerifiersFresh /\ CacheFresh

LEMMA CacheInvInit ==
    ASSUME BoundsAssumption, NothingAssumption
    PROVE  Init => CacheInv
BY DEF BoundsAssumption, Init, CacheInv, TypeOK, RecordAhead, VerifiersBehind, VerifiersFresh,
    CacheFresh, Idle, Versions, Generations, Times

-----------------------------------------------------------------------------
(* RevenueCat and the webhook                                              *)

LEMMA ChangeKeeps ==
    ASSUME BoundsAssumption, NothingAssumption,
           CacheInv, NEW A \in SUBSET Users, Change(A)
    PROVE  CacheInv'
<1> USE DEF BoundsAssumption, CacheInv, Change
<1>1. TypeOK'
  BY DEF TypeOK, Versions
<1>2. RecordAhead'
  BY DEF TypeOK, Versions, RecordAhead
<1>3. VerifiersBehind' /\ VerifiersFresh' /\ CacheFresh'
  BY DEF VerifiersBehind, VerifiersFresh, CacheFresh, Idle, GenerationMatches
<1> QED
  BY <1>1, <1>2, <1>3

\* A claim leaves no worker of the users it names with a matching generation.
LEMMA ClaimKeeps ==
    ASSUME BoundsAssumption, NothingAssumption,
           CacheInv, NEW n \in Versions, NEW reply \in BOOLEAN, Claim(n, reply)
    PROVE  CacheInv'
<1> USE DEF BoundsAssumption, NothingAssumption, CacheInv
<1>1. n \in 1 .. version /\ n \in Versions /\ affected[n] \subseteq Users
  BY DEF Claim, TypeOK
<1>2. TypeOK'
  <2>1. cache' \in [Users -> Entry \cup {Nothing}]
    BY DEF Claim, Invalidated, TypeOK
  <2>2. generation' \in [Users -> Generations]
    BY DEF Claim, TypeOK, Generations
  <2>3. invalidated' \in [Users -> Versions]
    BY <1>1 DEF Claim, TypeOK, Latest
  <2> QED
    BY <1>1, <2>1, <2>2, <2>3 DEF Claim, TypeOK
<1>3. RecordAhead'
  BY <1>1 DEF Claim, RecordAhead, TypeOK, Latest, Versions
<1>4. ASSUME NEW v \in Verifiers, ~Idle(v)
      PROVE  /\ verifier[v].user \in Users
             /\ verifier[v].generation \in Nat
             /\ generation[verifier[v].user] \in Nat
  BY <1>4 DEF Idle, TypeOK, Task, Generations
<1>5. VerifiersBehind'
  BY <1>4 DEF Claim, VerifiersBehind, Idle
<1>6. VerifiersFresh'
  BY <1>4 DEF Claim, VerifiersBehind, VerifiersFresh, Idle, GenerationMatches
<1>7. CacheFresh'
  BY DEF Claim, Invalidated, CacheFresh
<1> QED
  BY <1>2, <1>3, <1>5, <1>6, <1>7

-----------------------------------------------------------------------------
(* The workers                                                             *)

\* What a step of one worker leaves alone.
WorkerStep(v) ==
    /\ \A w \in Verifiers \ {v} : verifier'[w] = verifier[w]
    /\ UNCHANGED <<billing, generation, claimed, now, invalidated>>

\* The worker ends, or has a generation of its user and a plan as new as the
\* claims if the generation matches.
GoodTask(v) ==
    ~Idle(v)' =>
        /\ ~verifier'[v].outlived
               => verifier'[v].generation <= generation[verifier'[v].user]
        /\ verifier'[v].step \in {"fetched", "observed", "put"}
               => verifier'[v].plan # Nothing
        /\ (GenerationMatches(v)' /\ verifier'[v].plan # Nothing /\ ~verifier'[v].outlived)
               => verifier'[v].plan >= invalidated[verifier'[v].user]

LEMMA WorkerKeeps ==
    ASSUME CacheInv, NEW v \in Verifiers, WorkerStep(v), TypeOK', GoodTask(v), CacheFresh'
    PROVE  CacheInv'
<1> USE DEF CacheInv, WorkerStep, billing
<1>1. RecordAhead'
  BY DEF RecordAhead
<1>2. VerifiersBehind'
  BY DEF VerifiersBehind, GoodTask, Idle
<1>3. VerifiersFresh'
  BY DEF VerifiersFresh, GoodTask, Idle, GenerationMatches
<1> QED
  BY <1>1, <1>2, <1>3

LEMMA VerifierKeeps ==
    ASSUME BoundsAssumption, NothingAssumption,
           CacheInv, NEW v \in Verifiers,
           \/ \E u \in Users : Read(v, u)
           \/ ReturnCached(v) \/ StartFetch(v) \/ Fetch(v) \/ Observe(v)
           \/ \E reply \in BOOLEAN : Put(v, reply)
           \/ ReturnFetched(v) \/ Fail(v)
    PROVE  CacheInv'
<1> USE DEF BoundsAssumption, NothingAssumption, CacheInv, WorkerStep, GoodTask, billing
<1>1. \A w \in Verifiers : ~Idle(w) => verifier[w] \in Task
  BY DEF TypeOK, Idle
<1>2. ASSUME NEW u \in Users, Read(v, u)
      PROVE  CacheInv'
  <2> DEFINE task == [user |-> u, generation |-> generation[u],
                      plan |-> IF cache[u] = Nothing THEN Nothing ELSE cache[u].version,
                      observed |-> 0,
                      outlived |-> cache[u] # Nothing /\ cache[u].outlived,
                      step |-> "read"]
  <2>1. task \in Task
    BY DEF TypeOK, Task, Entry, Times
  <2>2. verifier' = [verifier EXCEPT ![v] = task] /\ verifier'[v] = task
    BY <1>2 DEF Read, TypeOK
  <2>3. TypeOK'
    BY <1>2, <2>1, <2>2 DEF Read, TypeOK
  <2>4. GoodTask(v)
    <3>1. task.generation <= generation[u] /\ task.step = "read" /\ task.user = u
      BY DEF TypeOK, Generations
    <3>2. task.plan # Nothing /\ ~task.outlived => task.plan >= invalidated[u]
      BY DEF CacheFresh
    <3>3. UNCHANGED <<generation, invalidated>>
      BY <1>2 DEF Read
    <3> QED
      BY <2>2, <3>1, <3>2, <3>3
  <2>5. WorkerStep(v) /\ CacheFresh'
    BY <1>2, <2>2 DEF Read, TypeOK, CacheFresh
  <2> QED
    BY <2>3, <2>4, <2>5, WorkerKeeps
<1>3. CASE ReturnCached(v) \/ ReturnFetched(v) \/ Fail(v)
  <2>1. TypeOK'
    BY <1>1, <1>3 DEF ReturnCached, ReturnFetched, Fail, Return, AtStep, TypeOK, Task
  <2>2. GoodTask(v)
    BY <1>3 DEF ReturnCached, ReturnFetched, Fail, Return, TypeOK, Idle
  <2>3. WorkerStep(v) /\ CacheFresh'
    BY <1>3 DEF ReturnCached, ReturnFetched, Fail, Return, TypeOK, CacheFresh
  <2> QED
    BY <2>1, <2>2, <2>3, WorkerKeeps
<1>4. CASE StartFetch(v) \/ Observe(v)
  <2>1. verifier[v] \in Task
    BY <1>1, <1>4 DEF StartFetch, Observe, AtStep
  <2>2. verifier' \in [Verifiers -> Task \cup {Nothing}]
    <3>1. [verifier[v] EXCEPT !.step = "fetch"] \in Task
      BY <2>1 DEF Task
    <3>2. [verifier[v] EXCEPT !.step = "observed", !.observed = now] \in Task
      BY <2>1 DEF Task, TypeOK
    <3> QED
      BY <1>4, <3>1, <3>2 DEF StartFetch, Observe, TypeOK
  <2>3. TypeOK'
    BY <1>4, <2>2 DEF StartFetch, Observe, TypeOK
  <2>4. GoodTask(v)
    BY <1>1, <1>4 DEF StartFetch, Observe, AtStep, TypeOK, Task, Idle, GenerationMatches,
                      VerifiersBehind, VerifiersFresh
  <2>5. WorkerStep(v) /\ CacheFresh'
    BY <1>4 DEF StartFetch, Observe, TypeOK, CacheFresh
  <2> QED
    BY <2>3, <2>4, <2>5, WorkerKeeps
<1>5. CASE Fetch(v)
  <2>1. TypeOK'
    <3>1. verifier[v] \in Task /\ record[verifier[v].user] \in Versions
      BY <1>1, <1>5 DEF Fetch, AtStep, TypeOK, Task
    <3>2. [verifier[v] EXCEPT !.step = "fetched", !.plan = record[verifier[v].user]] \in Task
      BY <3>1 DEF Task
    <3> QED
      BY <1>5, <3>2 DEF Fetch, TypeOK
  <2>2. GoodTask(v)
    BY <1>1, <1>5 DEF Fetch, AtStep, TypeOK, Task, Idle, Versions, VerifiersBehind, RecordAhead
  <2>3. WorkerStep(v) /\ CacheFresh'
    BY <1>5 DEF Fetch, TypeOK, CacheFresh
  <2> QED
    BY <2>1, <2>2, <2>3, WorkerKeeps
<1>6. ASSUME NEW reply \in BOOLEAN, Put(v, reply)
      PROVE  CacheInv'
  <2>1. verifier[v] \in Task /\ verifier[v].plan \in Versions
    BY <1>1, <1>6 DEF Put, AtStep, Task, VerifiersBehind
  <2>2. TypeOK'
    BY <1>6, <2>1 DEF Put, TypeOK, Task, Entry
  <2>3. GoodTask(v)
    BY <1>6, <2>1 DEF Put, AtStep, TypeOK, Task, Idle, GenerationMatches,
                      VerifiersBehind, VerifiersFresh
  <2>4. CacheFresh'
    BY <1>6, <2>1 DEF Put, AtStep, TypeOK, Task, CacheFresh, VerifiersFresh
  <2>5. WorkerStep(v)
    BY <1>6 DEF Put, TypeOK
  <2> QED
    BY <2>2, <2>3, <2>4, <2>5, WorkerKeeps
<1> QED
  BY <1>2, <1>3, <1>4, <1>5, <1>6

-----------------------------------------------------------------------------
(* Time                                                                    *)

LEMMA ClockKeeps ==
    ASSUME BoundsAssumption, NothingAssumption,
           CacheInv,
           Tick \/ \E u \in Users : CacheExpire(u) \/ GenerationExpire(u)
    PROVE  CacheInv'
<1> USE DEF BoundsAssumption, NothingAssumption, CacheInv, billing
<1>1. CASE Tick
  <2>1. TypeOK'
    BY <1>1 DEF Tick, TypeOK, Times
  <2> QED
    BY <1>1, <2>1 DEF Tick, RecordAhead, VerifiersBehind, VerifiersFresh, CacheFresh, Idle,
                      GenerationMatches
<1>2. ASSUME NEW u \in Users, CacheExpire(u)
      PROVE  CacheInv'
  <2>1. TypeOK' /\ CacheFresh'
    BY <1>2 DEF CacheExpire, TypeOK, CacheFresh
  <2> QED
    BY <1>2, <2>1 DEF CacheExpire, RecordAhead, VerifiersBehind, VerifiersFresh, Idle,
                      GenerationMatches
<1>3. ASSUME NEW u \in Users, GenerationExpire(u)
      PROVE  CacheInv'
  <2>1. TypeOK'
    <3>1. ASSUME NEW v \in Verifiers, ~Idle(v)
          PROVE  [verifier[v] EXCEPT !.outlived = TRUE] \in Task
      <4>1. verifier[v] \in Task
        BY <3>1 DEF TypeOK, Idle
      <4> QED
        BY <4>1 DEF Task
    <3>2. verifier' \in [Verifiers -> Task \cup {Nothing}]
      BY <1>3, <3>1 DEF GenerationExpire, TypeOK
    <3> QED
      BY <1>3, <3>2 DEF GenerationExpire, TypeOK, Generations
  <2>2. RecordAhead' /\ CacheFresh'
    BY <1>3 DEF GenerationExpire, RecordAhead, CacheFresh
  <2>3. ASSUME NEW v \in Verifiers, ~Idle(v)'
        PROVE  /\ ~Idle(v) /\ verifier'[v].user = verifier[v].user
               /\ verifier'[v].plan = verifier[v].plan
               /\ verifier'[v].step = verifier[v].step
               /\ verifier'[v].generation = verifier[v].generation
               /\ ~verifier'[v].outlived =>
                      ~verifier[v].outlived /\ verifier[v].user # u
    BY <1>3, <2>3 DEF GenerationExpire, TypeOK, Task, Idle
  <2>4. ASSUME NEW v \in Verifiers, ~Idle(v), verifier[v].user # u
        PROVE  generation'[verifier[v].user] = generation[verifier[v].user]
    BY <1>3, <2>4 DEF GenerationExpire, TypeOK, Task, Idle
  <2>5. VerifiersBehind' /\ VerifiersFresh'
    BY <1>3, <2>3, <2>4 DEF GenerationExpire, VerifiersBehind, VerifiersFresh, GenerationMatches
  <2> QED
    BY <2>1, <2>2, <2>5
<1> QED
  BY <1>1, <1>2, <1>3

-----------------------------------------------------------------------------
(* The theorems                                                            *)

LEMMA CacheInvStep ==
    ASSUME BoundsAssumption, NothingAssumption
    PROVE  CacheInv /\ [Next]_vars => CacheInv'
<1> SUFFICES ASSUME CacheInv, [Next]_vars
             PROVE  CacheInv'
  OBVIOUS
<1>1. CASE UNCHANGED vars
  BY <1>1 DEF vars, billing, CacheInv, TypeOK, RecordAhead, VerifiersBehind, VerifiersFresh,
              CacheFresh, Idle, GenerationMatches
<1>2. ASSUME NEW n \in Versions, DuplicateEvent(n)
      PROVE  CacheInv'
  BY <1>2 DEF DuplicateEvent, CacheInv, TypeOK, RecordAhead, VerifiersBehind, VerifiersFresh,
              CacheFresh, Idle, GenerationMatches
<1> QED
  BY <1>1, <1>2, ChangeKeeps, ClaimKeeps, VerifierKeeps, ClockKeeps DEF Next

LEMMA CacheInvAlways ==
    ASSUME BoundsAssumption, NothingAssumption
    PROVE  Spec => []CacheInv
BY CacheInvInit, CacheInvStep, PTL DEF Spec

\* PlanCache's variables keep their types (VerifiedEntitlementCache,
\* RevenueCatPlanVerifier.verify).
THEOREM CacheTypes ==
    ASSUME BoundsAssumption, NothingAssumption
    PROVE  Spec => []TypeOK
<1>1. CacheInv => TypeOK
  BY DEF CacheInv
<1> QED
  BY <1>1, CacheInvAlways, PTL

\* No fill of the cache brings back a plan that a claimed webhook announced the
\* end of, except by a verification whose generation key expired under it
\* (put_verified_if_generation, claim_webhook_event).
THEOREM CacheStaysFresh ==
    ASSUME BoundsAssumption, NothingAssumption
    PROVE  Spec => []CacheFresh
<1>1. CacheInv => CacheFresh
  BY DEF CacheInv
<1> QED
  BY <1>1, CacheInvAlways, PTL

\* verify returns no plan from before a change whose webhook was claimed, with
\* the same exception, and the cache keeps the observation that was made last.
THEOREM VerifyAnswersInOrder ==
    ASSUME BoundsAssumption, NothingAssumption
    PROVE  Spec => AnswersInOrder
<1>1. CacheInv /\ [Next]_vars =>
          [\A v \in Verifiers :
              (answer'[v] # answer[v] /\ answer'[v] # Nothing /\ ~verifier[v].outlived)
                  => answer'[v] >= invalidated[verifier[v].user]]_vars
  <2> SUFFICES ASSUME CacheInv, Next, NEW v \in Verifiers,
                      answer'[v] # answer[v], answer'[v] # Nothing, ~verifier[v].outlived
               PROVE  answer'[v] >= invalidated[verifier[v].user]
    OBVIOUS
  <2>1. ReturnCached(v) \/ ReturnFetched(v)
    <3>1. ~UNCHANGED answer
      OBVIOUS
    <3>2. \A w \in Verifiers : (\E u \in Users : Read(w, u)) => answer'[v] \in {answer[v], Nothing}
      BY DEF Read, CacheInv, TypeOK
    <3>3. \A w \in Verifiers : Return(w) => w = v
      BY DEF Return, CacheInv, TypeOK
    <3> QED
      BY <3>1, <3>2, <3>3 DEF Next, Change, Claim, DuplicateEvent, ReturnCached, StartFetch,
          Fetch, Observe, Put, ReturnFetched, Fail, Tick, CacheExpire, GenerationExpire
  <2>2. answer'[v] = verifier[v].plan /\ GenerationMatches(v) /\ ~Idle(v)
    BY <2>1 DEF ReturnCached, ReturnFetched, Return, AtStep, CacheInv, TypeOK
  <2> QED
    BY <2>2 DEF CacheInv, VerifiersFresh
<1>2. CacheInv /\ [Next]_vars =>
          [\A u \in Users :
              (cache[u] # Nothing /\ cache'[u] # Nothing)
                  => cache'[u].observed >= cache[u].observed]_vars
  <2> SUFFICES ASSUME CacheInv, Next, NEW u \in Users,
                      cache[u] # Nothing, cache'[u] # Nothing
               PROVE  cache'[u].observed >= cache[u].observed
    OBVIOUS
  <2> USE DEF BoundsAssumption, NothingAssumption
  <2>1. cache[u] \in Entry
    BY DEF CacheInv, TypeOK
  <2>2. CASE cache'[u] = cache[u]
    BY <2>1, <2>2 DEF Entry, Times
  <2>3. ASSUME NEW v \in Verifiers, NEW reply \in BOOLEAN, Put(v, reply)
        PROVE  cache'[u].observed >= cache[u].observed
    BY <2>1, <2>3 DEF Put, AtStep, Idle, ObservedLater, CacheInv, TypeOK, Task, Entry, Times
  <2>4. CASE \E n \in Versions, reply \in BOOLEAN : Claim(n, reply)
    BY <2>2, <2>4 DEF Claim, Invalidated
  <2>5. CASE \E w \in Users : CacheExpire(w)
    BY <2>2, <2>5 DEF CacheExpire, CacheInv, TypeOK
  <2>6. CASE UNCHANGED cache
    BY <2>2, <2>6
  <2> QED
    BY <2>3, <2>4, <2>5, <2>6 DEF Next, Change, DuplicateEvent, Read, ReturnCached, StartFetch,
        Fetch, Observe, ReturnFetched, Fail, Tick, GenerationExpire
<1> QED
  BY <1>1, <1>2, CacheInvAlways, PTL DEF Spec, AnswersInOrder, AnswerFresh, NewestObservationWins
=============================================================================
