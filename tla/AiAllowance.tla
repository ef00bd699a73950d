---------------------------- MODULE AiAllowance ----------------------------
(***************************************************************************)
(* server/entitlements.py, AiAllowanceStore and AiAllowanceReservation:    *)
(* the monthly paid-AI allowance kept in Redis and shared by every         *)
(* gunicorn worker.  A request reserves (a 15 s lease under its request    *)
(* id), later begins the provider dispatch (charging the monthly counter), *)
(* and releases.  POST /v2/entitlements/sync links an installation's quota *)
(* subject to an Apple account's, merging their counters.                  *)
(*                                                                         *)
(* Each WATCH/MULTI/EXEC transaction is one atomic step: EXEC fails and    *)
(* the loop starts over when a watched key changed.  What the code reads   *)
(* BEFORE that loop - the clock, hence the month of the counter - is a     *)
(* step of its own.  EXEC may commit and its reply be lost: redis-py then  *)
(* raises WatchError on a connection that was watching, and the loop runs  *)
(* again (the actions whose "reply" is FALSE).                             *)
(***************************************************************************)
EXTENDS Integers, FiniteSets

CONSTANTS
    Installations,   \* quota subjects (HMAC digests) of app installations
    Accounts,        \* quota subjects of Apple accounts
    Requests,        \* AI request ids
    Calls,           \* HTTP requests that reserve AI allowance, one shot each
    Linkers,         \* workers that link an installation to an account
    Plans,           \* plan kinds
    AllowanceLimit,  \* [Plans -> Nat], plans.py FREE_AI_LIMIT, PRO_AI_LIMIT
    MaxCounter,      \* largest counter the decoder accepts (1_000_000)
    MaxGeneration,   \* largest link generation it accepts (1_000_000_000)
    MaxMembers,      \* _MAX_CANONICAL_MEMBERS (64)
    MaxMonth,        \* bound of the model: the last month of a behaviour
    MonthEndStraddle,\* may a transaction commit in a later month than the
                     \* one its handler read from the clock?
    Nothing          \* no lease owner; an argument not yet given

Subjects == Installations \cup Accounts
Months   == 0 .. MaxMonth
NoMonth  == -1

ASSUME SubjectsAssumption == Installations \cap Accounts = {}
ASSUME FiniteAssumption   == IsFiniteSet(Calls) /\ IsFiniteSet(Subjects)
ASSUME BoundsAssumption   ==
    /\ MaxCounter \in Nat
    /\ MaxGeneration \in Nat
    /\ MaxMembers \in Nat \ {0}
    /\ MaxMonth \in Nat
    /\ MonthEndStraddle \in BOOLEAN
ASSUME LimitAssumption    == AllowanceLimit \in [Plans -> 1 .. MaxCounter]

VARIABLES
    \* Redis
    parent,      \* root:<digest>; parent[s] = s when the key is absent
    generation,  \* generation:<digest>; 0 when absent
    members,     \* members:<digest>; {s} when absent
    counter,     \* counter:<root, month>; 0 when absent
    lease,       \* lease:<root, request>; its owner, or Nothing when absent
    charged,     \* charged:<root, request>; the month charged, or NoMonth
    \* clocks
    month,       \* the current UTC month
    swept,       \* counters and markers of the months below have expired
    \* the workers' local state
    state,       \* AiAllowanceReservation._initial_state and its decision
    arg,         \* what each call asked for, and the month it read
    seen,        \* the identity its reservation resolved
    linker,      \* the link calls
    ledger       \* history: the calls whose charge was committed

identity == <<parent, generation, members>>
clocks   == <<month, swept>>
vars     == <<parent, generation, members, counter, lease, charged,
              month, swept, state, arg, seen, linker, ledger>>

-----------------------------------------------------------------------------
(* Identity resolution: _watch_resolve, _watch_members.                    *)

\* The walk along root keys.  The code gives up after 16 digests; a walk of
\* three stands for it: Resolvable is its success, and the invariant
\* GroupsConsistent shows that a chain never has more than two.
Root(s)       == parent[parent[s]]
Chain(s)      == {s, parent[s], Root(s)}
Resolvable(s) == parent[Root(s)] = Root(s)
Versions(s)   == {<<d, generation[d]>> : d \in Chain(s)}

\* What a reservation remembers of the identity it was made under.
Captured_Nothing(s) == Nothing
Captured(s)         == [root |-> Root(s), versions |-> Versions(s)]

\* The identity a reservation captured is still its subject's identity.
SameIdentity_RootOnly(p) == Root(arg[p].subject) = seen[p].root

SameIdentity(p) ==
    /\ Root(arg[p].subject) = seen[p].root
    /\ Versions(arg[p].subject) = seen[p].versions

-----------------------------------------------------------------------------
Args  == [subject : Subjects, request : Requests, plan : Plans, month : Months]
Seen  == [root : Subjects, versions : SUBSET (Subjects \X (0 .. MaxGeneration))]
Links == [installation : Installations, account : Accounts, month : Months]

ASSUME NothingAssumption ==
    Nothing \notin Calls /\ Nothing \notin Args /\ Nothing \notin Links

Finished == {"started", "already_charged", "duplicate_in_flight",
             "quota_exhausted", "identity_changed", "released",
             "unavailable"}

Init ==
    /\ parent = [s \in Subjects |-> s]
    /\ generation = [s \in Subjects |-> 0]
    /\ members = [s \in Subjects |-> {s}]
    /\ counter = [s \in Subjects |-> [m \in Months |-> 0]]
    /\ lease = [s \in Subjects |-> [r \in Requests |-> Nothing]]
    /\ charged = [s \in Subjects |-> [r \in Requests |-> NoMonth]]
    /\ month = 0
    /\ swept = 0
    /\ state = [p \in Calls |-> "idle"]
    /\ arg = [p \in Calls |-> Nothing]
    /\ seen = [p \in Calls |-> Nothing]
    /\ linker = [l \in Linkers |-> Nothing]
    /\ ledger = {}

-----------------------------------------------------------------------------
(* reserve                                                                 *)

\* The handler reads the clock, checks that the plan is current, and fixes
\* the month of the counter.
Arrive(p) ==
    /\ state[p] = "idle"
    /\ \E s \in Subjects, r \in Requests, plan \in Plans :
          arg' = [arg EXCEPT ![p] = [subject |-> s, request |-> r,
                                     plan |-> plan, month |-> month]]
    /\ state' = [state EXCEPT ![p] = "arrived"]
    /\ UNCHANGED <<identity, counter, lease, charged, clocks, seen, linker,
                   ledger>>

\* Some member of the subject's group was charged for this request, or
\* holds a lease on it.
AlreadyCharged_RootOnly(s, r) == charged[Root(s)][r] # NoMonth

AlreadyCharged(s, r) == \E d \in members[Root(s)] : charged[d][r] # NoMonth
InFlight(s, r)       == \E d \in members[Root(s)] : lease[d][r] # Nothing

\* The call ends without a charge: d is its disposition, and unless a lost
\* reply hides a charge its reservation is dropped.
Refuse(p, d) ==
    /\ state' = [state EXCEPT ![p] = d]
    /\ IF p \in ledger THEN UNCHANGED <<arg, seen>>
       ELSE /\ arg' = [arg EXCEPT ![p] = Nothing]
            /\ seen' = [seen EXCEPT ![p] = Nothing]
    /\ UNCHANGED <<identity, counter, charged, clocks, linker, ledger>>

\* A reservation that begin_dispatch will answer with its initial state.
ReserveRefused(p) ==
    LET s == arg[p].subject
        r == arg[p].request
    IN  /\ state[p] = "arrived"
        /\ Resolvable(s)
        /\ \/ AlreadyCharged(s, r) /\ Refuse(p, "already_charged")
           \/ /\ ~AlreadyCharged(s, r)
              /\ InFlight(s, r)
              /\ Refuse(p, "duplicate_in_flight")
        /\ UNCHANGED lease

\* A reservation that owns its lease.  The counter key that the code creates
\* with the value "0" reads the same as an absent one.
Reserve(p, reply) ==
    LET s == arg[p].subject
        r == arg[p].request
    IN  /\ state[p] = "arrived"
        /\ Resolvable(s)
        /\ ~AlreadyCharged(s, r)
        /\ ~InFlight(s, r)
        /\ lease' = [lease EXCEPT ![Root(s)][r] = p]
        /\ IF reply
           THEN /\ state' = [state EXCEPT ![p] = "owner"]
                /\ seen' = [seen EXCEPT ![p] = Captured(s)]
           ELSE UNCHANGED <<state, seen>>
        /\ UNCHANGED <<identity, counter, charged, clocks, arg, linker,
                       ledger>>

-----------------------------------------------------------------------------
(* AiAllowanceReservation: begin_dispatch and release                      *)

DeleteOwnLease(p) ==
    LET root == seen[p].root
        r    == arg[p].request
    IN  lease' = IF lease[root][r] = p
                 THEN [lease EXCEPT ![root][r] = Nothing]
                 ELSE lease

DispatchIdentityChanged(p) ==
    /\ state[p] = "owner"
    /\ Resolvable(arg[p].subject)
    /\ ~SameIdentity(p)
    /\ DeleteOwnLease(p)
    /\ Refuse(p, "identity_changed")

DispatchAlreadyCharged(p) ==
    /\ state[p] = "owner"
    /\ SameIdentity(p)
    /\ charged[seen[p].root][arg[p].request] # NoMonth
    /\ Refuse(p, "already_charged")
    /\ UNCHANGED lease

DispatchDuplicate(p) ==
    /\ state[p] = "owner"
    /\ SameIdentity(p)
    /\ charged[seen[p].root][arg[p].request] = NoMonth
    /\ lease[seen[p].root][arg[p].request] # p
    /\ Refuse(p, "duplicate_in_flight")
    /\ UNCHANGED lease

\* begin_dispatch gets as far as comparing the counter with the limit.
MayCharge(p) ==
    /\ state[p] = "owner"
    /\ SameIdentity(p)
    /\ charged[seen[p].root][arg[p].request] = NoMonth
    /\ lease[seen[p].root][arg[p].request] = p

Used_OfSubject(p) == counter[arg[p].subject][arg[p].month]
Used(p)           == counter[seen[p].root][arg[p].month]

DispatchExhausted(p) ==
    /\ MayCharge(p)
    /\ Used(p) >= AllowanceLimit[arg[p].plan]
    /\ DeleteOwnLease(p)
    /\ Refuse(p, "quota_exhausted")

\* The counter, the charged marker and the lease change in one EXEC.  When
\* its reply is lost the worker still believes to own an uncharged lease.
DispatchCharge(p, reply) ==
    LET root == seen[p].root
        r    == arg[p].request
        m    == arg[p].month
    IN  /\ MayCharge(p)
        /\ Used(p) < AllowanceLimit[arg[p].plan]
        /\ counter' = [counter EXCEPT ![root][m] = @ + 1]
        /\ charged' = [charged EXCEPT ![root][r] = m]
        /\ DeleteOwnLease(p)
        /\ ledger' = ledger \cup {p}
        /\ state' = [state EXCEPT ![p] = IF reply THEN "started" ELSE "owner"]
        /\ UNCHANGED <<identity, clocks, arg, seen, linker>>

\* The teardown, a sync that only wanted the snapshot, or a plan that is no
\* longer current when the dispatch begins.
Release(p) ==
    /\ state[p] = "owner"
    /\ DeleteOwnLease(p)
    /\ Refuse(p, "released")

\* The plan is stale, Redis fails, 256 attempts are used up, or the worker
\* dies: what it holds in Redis is left to its expiry.
GiveUp(p) ==
    /\ state[p] \in {"arrived", "owner"}
    /\ Refuse(p, "unavailable")
    /\ UNCHANGED lease

-----------------------------------------------------------------------------
(* link_quota_subjects                                                     *)

LinkArrive(l) ==
    /\ linker[l] = Nothing
    /\ \E i \in Installations, a \in Accounts :
          linker' = [linker EXCEPT ![l] =
                        [installation |-> i, account |-> a, month |-> month]]
    /\ UNCHANGED <<identity, counter, lease, charged, clocks, state, arg,
                   seen, ledger>>

\* The digests a link of i to a moves to the root of a: both groups, with
\* the chain of each of their members.
Linked_ChainsOnly(i, a)   == Chain(i) \cup Chain(a)
Linked_InstallationOnly(i, a) == {i} \cup Chain(a) \cup members[Root(a)]

Linked(i, a) ==
    LET groups == members[Root(i)] \cup members[Root(a)] \cup
                  Chain(i) \cup Chain(a)
    IN  groups \cup UNION {Chain(d) : d \in groups}

\* What makes the transaction raise ValueError instead of committing.
LinkCorrupt(i, a, m) ==
    \/ ~Resolvable(i)
    \/ ~Resolvable(a)
    \/ \E d \in Linked(i, a) : \/ ~Resolvable(d)
                               \/ Root(d) \notin {Root(i), Root(a)}
                               \/ generation[d] >= MaxGeneration
    \/ Cardinality(Linked(i, a)) > MaxMembers
    \/ /\ Root(i) # Root(a)
       /\ counter[Root(i)][m] + counter[Root(a)][m] > MaxCounter

\* The links of i and a are as the transaction would leave them.
LinkUnchanged(i, a) ==
    /\ Root(i) = Root(a)
    /\ Linked(i, a) = members[Root(a)]

LinkCommit(l, reply) ==
    LET i  == linker[l].installation
        a  == linker[l].account
        m  == linker[l].month
        ri == Root(i)
        ra == Root(a)
    IN  /\ linker[l] \in Links
        /\ ~LinkCorrupt(i, a, m)
        /\ ~LinkUnchanged(i, a)
        /\ parent' = [d \in Subjects |->
                         IF d \in Linked(i, a) \ {ra} THEN ra ELSE parent[d]]
        /\ generation' = [d \in Subjects |->
                             IF d \in Linked(i, a) THEN generation[d] + 1
                                                   ELSE generation[d]]
        /\ members' = [d \in Subjects |->
                          CASE d = ra -> Linked(i, a)
                            [] d = ri /\ d # ra -> {ri}
                            [] OTHER -> members[d]]
        /\ counter' = IF ri = ra THEN counter
                      ELSE [counter EXCEPT ![ra][m] = @ + counter[ri][m],
                                           ![ri][m] = 0]
        /\ linker' = [linker EXCEPT ![l] = IF reply THEN Nothing ELSE @]
        /\ UNCHANGED <<lease, charged, clocks, state, arg, seen, ledger>>

\* Nothing to change, a corrupt group, Redis down, or a crash.
LinkEnd(l) ==
    /\ linker[l] \in Links
    /\ linker' = [linker EXCEPT ![l] = Nothing]
    /\ UNCHANGED <<identity, counter, lease, charged, clocks, state, arg,
                   seen, ledger>>

-----------------------------------------------------------------------------
(* Time: keys that expire, and the month that ends                         *)

\* RESERVATION_TTL_SECONDS after it was set.
LeaseExpire(s, r) ==
    /\ lease[s][r] # Nothing
    /\ lease' = [lease EXCEPT ![s][r] = Nothing]
    /\ UNCHANGED <<identity, counter, charged, clocks, state, arg, seen,
                   linker, ledger>>

InFlightMonth(m) ==
    \/ \E p \in Calls : state[p] = "arrived" /\ arg[p].month = m
    \/ \E l \in Linkers : linker[l] \in Links /\ linker[l].month = m

\* With MonthEndStraddle FALSE, no reserve or link transaction is between
\* its clock reading and its commit at midnight.
MonthEnd ==
    /\ month < MaxMonth
    /\ MonthEndStraddle \/ ~InFlightMonth(month)
    /\ month' = month + 1
    /\ UNCHANGED <<identity, counter, lease, charged, swept, state, arg, seen,
                   linker, ledger>>

\* CHARGED_MARKER_RESET_BUFFER_SECONDS (48 h) after a month ended, its
\* counters and markers are gone, and so is every 15 s lease and request
\* that was alive in it.
Sweep ==
    /\ swept < month
    /\ ~InFlightMonth(swept)
    /\ \A p \in Calls : ~(state[p] = "owner" /\ arg[p].month = swept)
    /\ swept' = swept + 1
    /\ counter' = [s \in Subjects |-> [counter[s] EXCEPT ![swept] = 0]]
    /\ charged' = [s \in Subjects |-> [r \in Requests |->
                      IF charged[s][r] = swept THEN NoMonth
                                               ELSE charged[s][r]]]
    /\ UNCHANGED <<identity, lease, month, state, arg, seen, linker, ledger>>

-----------------------------------------------------------------------------
Next ==
    \/ \E p \in Calls :
          \/ Arrive(p)
          \/ ReserveRefused(p)
          \/ \E reply \in BOOLEAN : Reserve(p, reply) \/ DispatchCharge(p, reply)
          \/ DispatchIdentityChanged(p)
          \/ DispatchAlreadyCharged(p)
          \/ DispatchDuplicate(p)
          \/ DispatchExhausted(p)
          \/ Release(p)
          \/ GiveUp(p)
    \/ \E l \in Linkers :
          \/ LinkArrive(l)
          \/ \E reply \in BOOLEAN : LinkCommit(l, reply)
          \/ LinkEnd(l)
    \/ \E s \in Subjects, r \in Requests : LeaseExpire(s, r)
    \/ MonthEnd
    \/ Sweep

Spec == Init /\ [][Next]_vars

-----------------------------------------------------------------------------
(* Properties                                                              *)

\* Every variable keeps its type; a call has arguments once it arrived and a
\* captured identity while it owns a lease or has charged.
TypeOK ==
    /\ parent \in [Subjects -> Subjects]
    /\ generation \in [Subjects -> 0 .. MaxGeneration]
    /\ members \in [Subjects -> SUBSET Subjects]
    /\ counter \in [Subjects -> [Months -> 0 .. MaxCounter]]
    /\ lease \in [Subjects -> [Requests -> Calls \cup {Nothing}]]
    /\ charged \in [Subjects -> [Requests -> Months \cup {NoMonth}]]
    /\ month \in Months /\ swept \in Months
    /\ state \in [Calls -> Finished \cup {"idle", "arrived", "owner"}]
    /\ arg \in [Calls -> Args \cup {Nothing}]
    /\ seen \in [Calls -> Seen \cup {Nothing}]
    /\ linker \in [Linkers -> Links \cup {Nothing}]
    /\ ledger \subseteq Calls
    /\ \A p \in Calls : state[p] \in {"arrived", "owner"} => arg[p] \in Args
    /\ \A p \in Calls : state[p] = "owner" \/ p \in ledger =>
                           seen[p] \in Seen /\ arg[p] \in Args

\* However links are chained, repeated or raced, every digest of a group
\* points straight at its root, and the member list a reservation searches
\* for markers and leases is exactly the group (_watch_resolve and
\* link_quota_subjects never leave a subject outside its own group).
GroupsConsistent ==
    \A s \in Subjects :
        /\ parent[Root(s)] = Root(s)
        /\ parent[s] = Root(s)
        /\ parent[s] = s => members[s] = {d \in Subjects : Root(d) = s}

\* The charges made by the members of the group r in the month m.
SpentBy(r, m) ==
    {p \in ledger : Root(arg[p].subject) = r /\ arg[p].month = m}

\* Linking neither loses nor double counts usage: the counter a reservation
\* made now would be compared with is the number of charges its group made
\* this month, and so is the one a pending reservation captured earlier.
UsageConserved ==
    /\ \A s \in Subjects :
          parent[s] = s => counter[s][month] = Cardinality(SpentBy(s, month))
    /\ \A p \in Calls :
          state[p] = "owner" /\ SameIdentity(p) =>
              Used(p) = Cardinality(SpentBy(seen[p].root, arg[p].month))

\* A charge stays findable until its month is swept: after any chain of
\* links some member of the group its subject is in NOW carries the marker,
\* so a later reservation under any alias sees it.
MarkersKept ==
    \A q \in ledger :
        arg[q].month >= swept =>
            \E d \in members[Root(arg[q].subject)] :
                charged[d][arg[q].request] = arg[q].month

\* A worker that still owns its lease and still has its identity may charge:
\* no alias of its subject was charged for the request since it reserved,
\* however many leases expired, were re-granted or were lost in a link.
LeaseSound ==
    \A p \in Calls :
        (/\ state[p] = "owner"
         /\ SameIdentity(p)
         /\ lease[seen[p].root][arg[p].request] = p)
            => ~AlreadyCharged(arg[p].subject, arg[p].request)

\* begin_dispatch never charges a request id its group was already charged
\* for, by whichever alias, worker, retry or lost reply, until the marker's
\* month has been swept.
ChargedOnce ==
    [][\A p \in ledger' \ ledger, q \in ledger :
          (/\ arg[q].request = arg[p].request
           /\ Root(arg[q].subject) = Root(arg[p].subject))
              => arg[q].month < swept]_vars

\* "Linking cannot mint a fresh allowance": a dispatch is charged only when
\* the charges of the whole group in that month are below the plan's limit.
WithinLimit ==
    [][\A p \in ledger' \ ledger :
          Cardinality(SpentBy(Root(arg[p].subject), arg[p].month))
              < AllowanceLimit[arg[p].plan]]_vars

Ledger == INSTANCE QuotaLedger WITH
    group   <- [s \in Subjects |-> Root(s)],
    spent   <- {[call |-> p, subject |-> arg[p].subject,
                 request |-> arg[p].request, plan |-> arg[p].plan,
                 month |-> arg[p].month] : p \in ledger},
    expired <- swept

\* The store implements the ledger of QuotaLedger.
ImplementsLedger == Ledger!Spec
=============================================================================
