---------------------------- MODULE GlobalBucket ----------------------------
(***************************************************************************)
(* server/admission.py, RedisCapacityStore.admit_global: the token bucket  *)
(* in Redis that every v2 analysis of every worker passes first.  A tick   *)
(* of the clock is the time of one or more whole tokens, so the tokens are *)
(* counted in integers.  The worker reads the clock before its transaction *)
(* and stores that reading, which may be older than the stored one.        *)
(***************************************************************************)
EXTENDS Integers

CONSTANTS
    Workers,     \* threads in admit_global
    Rate,        \* GLOBAL_RATE_PER_SECOND, here tokens per tick
    Burst,       \* GLOBAL_BURST
    Ttl,         \* ticks the key lives after a write (60 s)
    MaxTime,     \* bound of the model: ticks
    StaleClock,  \* may the clock tick between a worker's reading of it and
                 \* the commit of its transaction?
    Nothing      \* no reading

Times == 0 .. MaxTime

BucketAssumption ==
    /\ Rate \in Nat \ {0} /\ Burst \in Nat \ {0} /\ MaxTime \in Nat
    /\ Ttl \in Nat /\ Ttl * Rate >= Burst
    /\ StaleClock \in BOOLEAN
    /\ Nothing \notin Times

VARIABLES
    now,       \* the clock
    bucket,    \* the key: tokens, updated_at, and when it was written
    reading,   \* [Workers -> the worker's reading of the clock]
    admitted   \* history: [Times -> admitted requests that read that time or an
               \* earlier one]

vars == <<now, bucket, reading, admitted>>

Bucket == [tokens : 0 .. Burst, updated : Times, written : Times]

KeyAssumption == Nothing \notin Bucket

Init ==
    /\ now = 0
    /\ bucket = Nothing
    /\ reading = [w \in Workers |-> Nothing]
    /\ admitted = [t \in Times |-> 0]

Read(w) ==
    /\ reading[w] = Nothing
    /\ reading' = [reading EXCEPT ![w] = now]
    /\ UNCHANGED <<now, bucket, admitted>>

Least(a, b)   == IF a < b THEN a ELSE b
Elapsed(t, u) == IF t > u THEN t - u ELSE 0

\* The tokens a worker that read the time t finds; an absent key is full.
Available_NoCap(t) ==
    IF bucket = Nothing THEN Burst
    ELSE bucket.tokens + Elapsed(t, bucket.updated) * Rate

Available(t) ==
    IF bucket = Nothing THEN Burst
    ELSE Least(Burst, bucket.tokens + Elapsed(t, bucket.updated) * Rate)

HasToken(t)        == Available(t) >= 1

\* A commit whose reply is lost took its token, and is tried again.
Take(w, reply) ==
    LET t == reading[w]
    IN  /\ t # Nothing
        /\ HasToken(t)
        /\ bucket' = [tokens |-> Available(t) - 1, updated |-> t,
                      written |-> now]
        /\ IF reply THEN /\ reading' = [reading EXCEPT ![w] = Nothing]
                         /\ admitted' = [u \in Times |-> IF u < t THEN admitted[u] ELSE admitted[u] + 1]
                    ELSE UNCHANGED <<reading, admitted>>
        /\ UNCHANGED now

\* No token, or CapacityUnavailable after a Redis failure or 32 attempts.
Leave(w) ==
    /\ reading[w] # Nothing
    /\ reading' = [reading EXCEPT ![w] = Nothing]
    /\ UNCHANGED <<now, bucket, admitted>>

Tick ==
    /\ now < MaxTime
    /\ StaleClock \/ \A w \in Workers : reading[w] = Nothing
    /\ now' = now + 1
    /\ UNCHANGED <<bucket, reading, admitted>>

Expire ==
    /\ bucket # Nothing
    /\ now - bucket.written >= Ttl
    /\ bucket' = Nothing
    /\ UNCHANGED <<now, reading, admitted>>

Next ==
    \/ \E w \in Workers :
          Read(w) \/ (\E reply \in BOOLEAN : Take(w, reply)) \/ Leave(w)
    \/ Tick
    \/ Expire

Spec == Init /\ [][Next]_vars

-----------------------------------------------------------------------------
TypeOK ==
    /\ now \in Times
    /\ bucket \in Bucket \cup {Nothing}
    /\ reading \in [Workers -> Times \cup {Nothing}]
    /\ admitted \in [Times -> Nat]

Before(t)        == IF t = 0 THEN 0 ELSE admitted[t - 1]
AdmittedIn(t, u) == admitted[u] - Before(t)

\* "Global analysis token bucket: 5 requests/second refill, capacity 20":
\* of the requests that arrived in any stretch of time, all workers together
\* admit no more than a full bucket and its refill.
RateBound ==
    \A t, u \in Times :
        t <= u => AdmittedIn(t, u) <= Burst + (u - t) * Rate
=============================================================================
