---------------------------- MODULE MCServerGates ----------------------------
(* What the server keeps in Redis of every request, on small instances: the *)
(* charges of a month (AiAllowance), the windows of RateLimiter, the token  *)
(* bucket of GlobalBucket and the markers of RequestLease.  They share no   *)
(* key and no step, so no step of one can matter to another, and a          *)
(* behaviour steps only one of them.                                        *)
EXTENDS MCAiAllowance

\* As in the code the provider's windows are narrower than the analyses', so
\* that an analysis can be let through without its provider; an account's are
\* narrow enough to be filled by two installations.
WindowLimits ==
    [x \in {"minute", "day", "provider"} \X {"installation", "account"} |->
        IF x[1] = "provider" \/ x[2] = "account" THEN 1 ELSE 2]

CONSTANTS Phones, Checks, Maximum, MinutesPerDay, MaxMinute, MaxLost
VARIABLES minute, window, check, outcome, lost, decided
Windows     == INSTANCE RateLimiter
               WITH Installations <- Phones, Calls <- Checks, counter <- window,
                    call <- check
windowsVars == <<minute, window, check, outcome, lost, decided>>

CONSTANTS Workers, Rate, Burst, Ttl, MaxTime, StaleClock
VARIABLES now, bucket, reading, admitted
Bucket     == INSTANCE GlobalBucket
bucketVars == <<now, bucket, reading, admitted>>

CONSTANTS LeaseKeys, Handlers
VARIABLES stored, stage, key, outlived
Lease     == INSTANCE RequestLease WITH Keys <- LeaseKeys
leaseVars == <<stored, stage, key, outlived>>

ASSUME GatesAssumption ==
    /\ Windows!LimitsAssumption /\ Windows!NothingAssumption
    /\ Bucket!BucketAssumption /\ Bucket!KeyAssumption
    /\ Lease!NothingAssumption

VARIABLE stepping   \* the store this behaviour steps
gatesVars == <<vars, windowsVars, bucketVars, leaseVars, stepping>>

GatesInit ==
    /\ Init /\ Windows!Init /\ Bucket!Init /\ Lease!Init
    /\ stepping \in {"charges", "windows", "bucket", "lease"}

GatesNext ==
    /\ \/ /\ stepping = "charges" /\ Next
          /\ UNCHANGED <<windowsVars, bucketVars, leaseVars>>
       \/ /\ stepping = "windows" /\ Windows!Next
          /\ UNCHANGED <<vars, bucketVars, leaseVars>>
       \/ /\ stepping = "bucket" /\ Bucket!Next
          /\ UNCHANGED <<vars, windowsVars, leaseVars>>
       \/ /\ stepping = "lease" /\ Lease!Next
          /\ UNCHANGED <<vars, windowsVars, bucketVars>>
    /\ UNCHANGED stepping

GatesSpec == GatesInit /\ [][GatesNext]_gatesVars

\* RateLimiter: no window grants more than its limit while it is current, and
\* until it is over its counters are what was granted or whose reply was lost.
\* GlobalBucket: any stretch of time admits a full bucket and its refill.
RatesBound ==
    /\ stepping = "windows" => Windows!WindowBound /\ Windows!CountersExact
    /\ stepping = "bucket"  => Bucket!RateBound

\* RequestLease: one handler works on a request, unless its marker expired.
OneAtATime == Lease!OneAtATime

\* The phones are the request ids, so that one permutation serves both stores.
GatesSymmetry == Permutations(Checks) \cup Permutations(Requests)
=============================================================================
