---------------------------- MODULE RateLimiter ----------------------------
(***************************************************************************)
(* server/rate_limit.py, RateLimiter.check_v2_analysis: the fixed-window   *)
(* counters in Redis that a v2 analysis passes.  An analysis counts in the *)
(* minute and the day of its installation and, with an account, of the     *)
(* account; one that asks for AI also in the provider minute of both.  The *)
(* names of the counters come from a clock read before the transaction;    *)
(* the transaction checks and counts all of them at once, and is run again *)
(* when its reply is lost.                                                 *)
(***************************************************************************)
EXTENDS Integers, FiniteSets

CONSTANTS
    Installations,
    Accounts,
    Calls,           \* requests, one check each
    Maximum,         \* [<<scope, kind of subject>> -> limit]
    MinutesPerDay,   \* 1440
    MaxMinute,       \* bound of the model: minutes that pass
    MaxLost,         \* bound of the model: replies lost of a counter's commits
    Nothing          \* no account, not yet arrived, no outcome

Minutes  == 0 .. MaxMinute
Subjects == Installations \cup Accounts
Scopes   == {"minute", "day", "provider"}

LimitsAssumption ==
    /\ Maximum \in [Scopes \X {"installation", "account"} -> Nat \ {0}]
    /\ MinutesPerDay \in Nat \ {0} /\ MaxMinute \in Nat /\ MaxLost \in Nat
    /\ Installations \cap Accounts = {}
    /\ Nothing \notin Subjects
    /\ IsFiniteSet(Calls)

VARIABLES
    minute,   \* the clock, in whole minutes
    counter,  \* the counters; 0 when the key is absent
    call,     \* what each request asked for, and the minute it read
    outcome,  \* V2RateLimitDecision, or that the limiter was unavailable
    lost,     \* history: [key -> commits whose reply was lost]
    decided   \* history: the minute in which a request was granted

vars == <<minute, counter, call, outcome, lost, decided>>

Call     == [installation : Installations, account : Accounts \cup {Nothing},
             provider : BOOLEAN, minute : Minutes]
Outcomes == {"refused", "without_provider", "with_provider", "unavailable"}

NothingAssumption == Nothing \notin Call \cup Outcomes

\* _window_limits: the counter of a subject for the window that holds t.
Window(scope, t)    == IF scope = "day" THEN t \div MinutesPerDay ELSE t
Keys                == Scopes \X Subjects \X Minutes
CounterKey(x, s, t) == <<x, s, Window(x, t)>>

Limit(k) == Maximum[<<k[1], IF k[2] \in Installations THEN "installation"
                                                      ELSE "account">>]
Full(k)         == counter[k] >= Limit(k)

SubjectsOf(c) == {call[c].installation, call[c].account} \ {Nothing}

AnalysisKeys_InstallationOnly(c) ==
    {CounterKey(x, call[c].installation, call[c].minute) : x \in {"minute", "day"}}
AnalysisKeys(c) ==
    {CounterKey(x, s, call[c].minute) : x \in {"minute", "day"}, s \in SubjectsOf(c)}
ProviderKeys(c) ==
    IF call[c].provider
    THEN {CounterKey("provider", s, call[c].minute) : s \in SubjectsOf(c)}
    ELSE {}

Init ==
    /\ minute = 0
    /\ counter = [k \in Keys |-> 0]
    /\ call = [c \in Calls |-> Nothing]
    /\ outcome = [c \in Calls |-> Nothing]
    /\ lost = [k \in Keys |-> 0]
    /\ decided = [c \in Calls |-> Nothing]

Arrive(c) ==
    /\ call[c] = Nothing
    /\ \E i \in Installations, a \in Accounts \cup {Nothing}, p \in BOOLEAN :
          call' = [call EXCEPT ![c] = [installation |-> i, account |-> a,
                                       provider |-> p, minute |-> minute]]
    /\ UNCHANGED <<minute, counter, outcome, lost, decided>>

Waiting(c) == call[c] # Nothing /\ outcome[c] = Nothing

\* A full window of any subject refuses the analysis, and nothing is counted.
Refuse(c) ==
    /\ Waiting(c)
    /\ \E k \in AnalysisKeys(c) : Full(k)
    /\ outcome' = [outcome EXCEPT ![c] = "refused"]
    /\ UNCHANGED <<minute, counter, call, lost, decided>>

ProviderAllowed(c) ==
    /\ ProviderKeys(c) # {}
    /\ \A k \in ProviderKeys(c) : ~Full(k)

\* What an analysis that is let through counts in: a full provider window
\* only takes away the provider, and then no provider window is counted.
Spent_Always(c) == AnalysisKeys(c) \cup ProviderKeys(c)
Spent(c) ==
    AnalysisKeys(c) \cup (IF ProviderAllowed(c) THEN ProviderKeys(c) ELSE {})

Count(f, ks) == [k \in Keys |-> IF k \in ks THEN f[k] + 1 ELSE f[k]]

Allow(c, reply) ==
    /\ Waiting(c)
    /\ \A k \in AnalysisKeys(c) : ~Full(k)
    /\ counter' = Count(counter, Spent(c))
    /\ IF reply
       THEN /\ outcome' = [outcome EXCEPT ![c] =
                  IF ProviderAllowed(c) THEN "with_provider"
                                        ELSE "without_provider"]
            /\ decided' = [decided EXCEPT ![c] = minute]
            /\ UNCHANGED lost
       ELSE /\ \A k \in Spent(c) : lost[k] < MaxLost
            /\ lost' = Count(lost, Spent(c))
            /\ UNCHANGED <<outcome, decided>>
    /\ UNCHANGED <<minute, call>>

\* Redis is down, or 100 attempts were used up.
Unavailable(c) ==
    /\ Waiting(c)
    /\ outcome' = [outcome EXCEPT ![c] = "unavailable"]
    /\ UNCHANGED <<minute, counter, call, lost, decided>>

Tick ==
    /\ minute < MaxMinute
    /\ minute' = minute + 1
    /\ UNCHANGED <<counter, call, outcome, lost, decided>>

\* Every commit gives a counter what its window still had when the request read
\* the clock, so that it expires no earlier than its window ends.  It may do so
\* under a request that read the clock before that and has not committed yet:
\* that one then finds no counter, and makes one.
Expire(k) ==
    /\ counter[k] > 0
    /\ k[3] < Window(k[1], minute)
    /\ counter' = [counter EXCEPT ![k] = 0]
    /\ lost' = [lost EXCEPT ![k] = 0]
    /\ UNCHANGED <<minute, call, outcome, decided>>

Next ==
    \/ \E c \in Calls :
          \/ Arrive(c) \/ Refuse(c) \/ Unavailable(c)
          \/ \E reply \in BOOLEAN : Allow(c, reply)
    \/ Tick
    \/ \E k \in Keys : Expire(k)

Spec == Init /\ [][Next]_vars

-----------------------------------------------------------------------------
(* Properties                                                              *)

TypeOK ==
    /\ minute \in Minutes
    /\ counter \in [Keys -> Nat]
    /\ call \in [Calls -> Call \cup {Nothing}]
    /\ outcome \in [Calls -> Outcomes \cup {Nothing}]
    /\ lost \in [Keys -> Nat]
    /\ decided \in [Calls -> Minutes \cup {Nothing}]
    /\ \A k \in Keys : counter[k] <= Limit(k)

\* The requests that were let through and belong in the counter k: analyses
\* of its subject and window, with the provider for a provider window.
GrantedIn(k) ==
    {c \in Calls :
        /\ outcome[c] \in {"with_provider"} \cup
                          (IF k[1] = "provider" THEN {} ELSE {"without_provider"})
        /\ k[2] \in SubjectsOf(c)
        /\ k[3] = Window(k[1], call[c].minute)}

\* ... those of them whose transaction committed while the window was current.
InTime(k) == {c \in GrantedIn(k) : Window(k[1], decided[c]) = k[3]}

\* No minute or day of an installation or an account sees more analyses or
\* provider calls granted from its window than the limit (V2_*_LIMIT), whichever
\* installations and accounts requests combine, whatever replies are lost, and
\* whatever requests of earlier windows commit late.  A request that commits
\* after its window is over is not bounded by it: the counter may be gone.
WindowBound == \A k \in Keys : Cardinality(InTime(k)) <= Limit(k)

\* A refused analysis costs nothing, and one whose provider window is full
\* costs no provider token: the counter of a window that is not over is exactly
\* the requests that were granted in it and the commits whose reply was lost.
CountersExact ==
    \A k \in Keys :
        k[3] >= Window(k[1], minute)
            => counter[k] = Cardinality(GrantedIn(k)) + lost[k]
=============================================================================
