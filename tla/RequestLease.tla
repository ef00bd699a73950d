---------------------------- MODULE RequestLease ----------------------------
(***************************************************************************)
(* server/rate_limit.py, RedisRequestLeaseStore, as POST /v1/analyses uses *)
(* it: the marker in Redis that keeps two workers from analysing the same  *)
(* (installation, request id) at once.  A handler that gets the marker     *)
(* works under it and removes it when it ends; the marker expires after    *)
(* the request deadline, whether the handler has ended or not.             *)
(***************************************************************************)
EXTENDS Integers

CONSTANTS
    Keys,      \* lease keys: an installation and a request id
    Handlers,  \* HTTP requests, each with an owner nonce of its own
    Nothing    \* no marker, no key yet

NothingAssumption == Nothing \notin Handlers \cup Keys

VARIABLES
    stored,    \* [Keys -> the owner nonce, or Nothing]
    stage,     \* where a handler is in the "with leases.lease" statement
    key,       \* the key a handler asked for
    outlived   \* history: handlers whose marker expired while they worked

vars == <<stored, stage, key, outlived>>

Stages == {"idle", "working", "leaving", "in_progress", "unavailable", "done"}

Init ==
    /\ stored = [k \in Keys |-> Nothing]
    /\ stage = [h \in Handlers |-> "idle"]
    /\ key = [h \in Handlers |-> Nothing]
    /\ outlived = {}

\* SET NX EX: the marker is the handler's, or REQUEST_IN_PROGRESS.
Acquire(h, k) ==
    /\ stage[h] = "idle"
    /\ key' = [key EXCEPT ![h] = k]
    /\ \/ /\ stored[k] = Nothing
          /\ stored' = [stored EXCEPT ![k] = h]
          /\ stage' = [stage EXCEPT ![h] = "working"]
       \/ /\ stored[k] # Nothing
          /\ stage' = [stage EXCEPT ![h] = "in_progress"]
          /\ UNCHANGED stored
    /\ UNCHANGED outlived

\* Redis fails, perhaps after it has set the marker.
AcquireFails(h, k) ==
    /\ stage[h] = "idle"
    /\ key' = [key EXCEPT ![h] = k]
    /\ stage' = [stage EXCEPT ![h] = "unavailable"]
    /\ \/ UNCHANGED stored
       \/ stored[k] = Nothing /\ stored' = [stored EXCEPT ![k] = h]
    /\ UNCHANGED outlived

\* The response is made, or an error leaves the with statement.
Leave(h) ==
    /\ stage[h] = "working"
    /\ stage' = [stage EXCEPT ![h] = "leaving"]
    /\ UNCHANGED <<stored, key, outlived>>

Owns_Any(h) == stored[key[h]] # Nothing
Owns(h)     == stored[key[h]] = h

\* Compare and delete, in one WATCH transaction that is repeated until its
\* outcome is known.
Release(h) ==
    /\ stage[h] = "leaving"
    /\ stage' = [stage EXCEPT ![h] = "done"]
    /\ stored' = IF Owns(h) THEN [stored EXCEPT ![key[h]] = Nothing] ELSE stored
    /\ UNCHANGED <<key, outlived>>

\* The worker is killed, 100 attempts are used up, or Redis fails, perhaps
\* after the delete: what is left of the marker expires.
Abandon(h) ==
    /\ stage[h] \in {"working", "leaving"}
    /\ stage' = [stage EXCEPT ![h] = "done"]
    /\ \/ UNCHANGED stored
       \/ /\ stage[h] = "leaving" /\ Owns(h)
          /\ stored' = [stored EXCEPT ![key[h]] = Nothing]
    /\ UNCHANGED <<key, outlived>>

Expire(k) ==
    /\ stored[k] # Nothing
    /\ stored' = [stored EXCEPT ![k] = Nothing]
    /\ outlived' = outlived \cup {stored[k]}
    /\ UNCHANGED <<stage, key>>

Next ==
    \/ \E h \in Handlers :
          \/ \E k \in Keys : Acquire(h, k) \/ AcquireFails(h, k)
          \/ Leave(h) \/ Release(h) \/ Abandon(h)
    \/ \E k \in Keys : Expire(k)

Spec == Init /\ [][Next]_vars

-----------------------------------------------------------------------------
(* Properties                                                              *)

TypeOK ==
    /\ stored \in [Keys -> Handlers \cup {Nothing}]
    /\ stage \in [Handlers -> Stages]
    /\ key \in [Handlers -> Keys \cup {Nothing}]
    /\ outlived \subseteq Handlers
    /\ \A h \in Handlers : stage[h] # "idle" => key[h] \in Keys

\* Two handlers work on one request only if the marker of all but one of
\* them expired under them.
OneAtATime ==
    \A g, h \in Handlers :
        (/\ g # h
         /\ stage[g] = "working" /\ stage[h] = "working"
         /\ key[g] = key[h])
            => g \in outlived \/ h \in outlived
=============================================================================
