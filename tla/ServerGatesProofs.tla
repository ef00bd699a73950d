-------------------------- MODULE ServerGatesProofs --------------------------
(***************************************************************************)
(* What the server keeps in Redis of every request, for any number of      *)
(* requests, workers and subjects and any limits.  First the charges of a  *)
(* month (AiAllowance): types, the groups of linked digests, the markers   *)
(* of the charges, and then the counters and the ledger of QuotaLedger.    *)
(* Then that the gates keep their limits: each is proved from its own      *)
(* invariant; a behaviour of all of them together steps one gate and       *)
(* leaves the variables of the others alone.                               *)
(***************************************************************************)
EXTENDS MCServerGates, FiniteSetTheorems, TLAPS

-----------------------------------------------------------------------------
(* AiAllowance: type correctness                                           *)

LEMMA InitTypeOK == Init => TypeOK
<1> SUFFICES ASSUME Init PROVE TypeOK
    OBVIOUS
<1> QED
    BY BoundsAssumption DEF Init, TypeOK, Months, NoMonth, Subjects, Finished

LEMMA RootVersionsType ==
    ASSUME TypeOK, NEW s \in Subjects
    PROVE  /\ parent[s] \in Subjects
           /\ Root(s) \in Subjects
           /\ Chain(s) \subseteq Subjects
           /\ Versions(s) \subseteq Subjects \X (0 .. MaxGeneration)
<1>1. Root(s) \in Subjects /\ parent[s] \in Subjects
    BY DEF TypeOK, Root
<1>2. Chain(s) \subseteq Subjects
    BY <1>1 DEF Chain
<1>3. \A d \in Subjects : <<d, generation[d]>> \in Subjects \X (0 .. MaxGeneration)
    BY DEF TypeOK
<1> QED
    BY <1>1, <1>2, <1>3 DEF Versions

\* A request's own steps keep the types.
LEMMA TypeOKCall ==
    ASSUME TypeOK, NEW p \in Calls, NEW reply \in BOOLEAN,
           \/ Arrive(p) \/ ReserveRefused(p) \/ Reserve(p, reply)
           \/ DispatchCharge(p, reply) \/ DispatchIdentityChanged(p)
           \/ DispatchAlreadyCharged(p) \/ DispatchDuplicate(p)
           \/ DispatchExhausted(p) \/ Release(p) \/ GiveUp(p)
    PROVE  TypeOK'
<1> USE BoundsAssumption DEF TypeOK, identity, clocks
<1>1. CASE Arrive(p)
    BY <1>1, SMTT(20) DEF Arrive, Args, Finished
<1>2. CASE ReserveRefused(p)
    BY <1>2, ZenonT(40) DEF ReserveRefused, Refuse, Finished
<1>3. CASE Reserve(p, reply)
    <2>0. arg[p] \in Args /\ arg[p].subject \in Subjects
        BY <1>3 DEF Reserve, Captured, Args
    <2>1. /\ arg[p] \in Args
          /\ Root(arg[p].subject) \in Subjects
          /\ Versions(arg[p].subject) \subseteq Subjects \X (0 .. MaxGeneration)
        BY <2>0, RootVersionsType
    <2>2. [root |-> Root(arg[p].subject),
           versions |-> Versions(arg[p].subject)] \in Seen
        BY <2>1 DEF Seen
    <2>3. lease' \in [Subjects -> [Requests -> Calls \cup {Nothing}]]
        BY <1>3, <2>1 DEF Reserve, Captured, Args
    <2>4. seen' \in [Calls -> Seen \cup {Nothing}]
        BY <1>3, <2>2 DEF Reserve, Captured
    <2>5. state' \in [Calls -> Finished \cup {"idle", "arrived", "owner"}]
        BY <1>3 DEF Reserve, Captured
    <2>6. \A q \in Calls : state'[q] = "owner" \/ q \in ledger =>
                               seen'[q] \in Seen /\ arg[q] \in Args
        BY <1>3, <2>1, <2>2 DEF Reserve, Captured
    <2> QED
        BY <1>3, <2>1, <2>3, <2>4, <2>5, <2>6 DEF Reserve, Captured
<1>4. CASE DispatchCharge(p, reply)
    <2>1. /\ seen[p].root \in Subjects /\ seen[p] \in Seen
          /\ arg[p].request \in Requests /\ arg[p].month \in Months
          /\ arg[p].plan \in Plans /\ arg[p] \in Args
        BY <1>4 DEF DispatchCharge, MayCharge, Seen, Args
    <2>2. counter[seen[p].root][arg[p].month] + 1 \in 0 .. MaxCounter
        BY <1>4, <2>1, LimitAssumption DEF DispatchCharge, Used
    <2>3. counter' \in [Subjects -> [Months -> 0 .. MaxCounter]]
        BY <1>4, <2>1, <2>2 DEF DispatchCharge
    <2>4. charged' \in [Subjects -> [Requests -> Months \cup {NoMonth}]]
        BY <1>4, <2>1 DEF DispatchCharge
    <2>5. lease' \in [Subjects -> [Requests -> Calls \cup {Nothing}]]
        BY <1>4, <2>1 DEF DispatchCharge, DeleteOwnLease
    <2> QED
        BY <1>4, <2>1, <2>3, <2>4, <2>5 DEF DispatchCharge, Finished
<1>5. CASE DispatchIdentityChanged(p)
    BY <1>5 DEF DispatchIdentityChanged, DeleteOwnLease, Refuse, Finished
<1>6. CASE DispatchAlreadyCharged(p)
    BY <1>6, ZenonT(40) DEF DispatchAlreadyCharged, Refuse, Finished
<1>7. CASE DispatchDuplicate(p)
    BY <1>7, ZenonT(40) DEF DispatchDuplicate, Refuse, Finished
<1>8. CASE DispatchExhausted(p)
    BY <1>8, ZenonT(40) DEF DispatchExhausted, DeleteOwnLease, Refuse, Finished, MayCharge
<1>9. CASE Release(p)
    BY <1>9, ZenonT(40) DEF Release, DeleteOwnLease, Refuse, Finished
<1>10. CASE GiveUp(p)
    BY <1>10 DEF GiveUp, Refuse, Finished
<1> QED
    BY <1>1, <1>2, <1>3, <1>4, <1>5, <1>6, <1>7, <1>8, <1>9, <1>10
LEMMA TypeOKLink ==
    ASSUME TypeOK, NEW l \in Linkers, NEW reply \in BOOLEAN,
           LinkArrive(l) \/ LinkCommit(l, reply) \/ LinkEnd(l)
    PROVE  TypeOK'
<1> USE BoundsAssumption DEF TypeOK, identity, clocks
<1>1. CASE LinkArrive(l)
    BY <1>1 DEF LinkArrive, Links
<1>2. CASE LinkCommit(l, reply)
    <2> DEFINE i  == linker[l].installation
               a  == linker[l].account
               m  == linker[l].month
               ri == Root(i)
               ra == Root(a)
               moved == Linked(i, a)
    <2>1. /\ i \in Subjects /\ a \in Subjects /\ m \in Months
          /\ ri \in Subjects /\ ra \in Subjects
        BY <1>2, RootVersionsType DEF LinkCommit, Links, Subjects
    <2>2. moved \subseteq Subjects
        BY <2>1, RootVersionsType DEF Linked
    <2> HIDE DEF i, a, m, ri, ra, moved
    <2>3. parent' \in [Subjects -> Subjects]
        BY <1>2, <2>1 DEF LinkCommit, i, a, m, ri, ra, moved
    <2>4. generation' \in [Subjects -> 0 .. MaxGeneration]
        <3>1. \A d \in moved : generation[d] < MaxGeneration
            BY <1>2, <2>2 DEF LinkCommit, LinkCorrupt, i, a, m, moved
        <3> QED
            BY <1>2, <2>2, <3>1 DEF LinkCommit, i, a, moved
    <2>5. members' \in [Subjects -> SUBSET Subjects]
        BY <1>2, <2>1, <2>2 DEF LinkCommit, i, a, m, ri, ra, moved
    <2>6. counter' \in [Subjects -> [Months -> 0 .. MaxCounter]]
        <3>1. CASE ri = ra
            BY <1>2, <3>1 DEF LinkCommit, i, a, m, ri, ra
        <3>2. CASE ri # ra
            <4>1. counter[ra][m] + counter[ri][m] \in 0 .. MaxCounter
                BY <1>2, <2>1, <3>2 DEF LinkCommit, LinkCorrupt, i, a, m, ri, ra
            <4>2. counter' = [counter EXCEPT ![ra][m] = @ + counter[ri][m],
                                             ![ri][m] = 0]
                BY <1>2, <3>2 DEF LinkCommit, i, a, m, ri, ra
            <4> DEFINE sum == counter[ra][m] + counter[ri][m]
                       added == [counter EXCEPT ![ra][m] = sum]
            <4>3. added \in [Subjects -> [Months -> 0 .. MaxCounter]]
                BY <2>1, <4>1
            <4>4. counter' = [added EXCEPT ![ri][m] = 0]
                BY <2>1, <4>1, <4>2, <3>2
            <4> HIDE DEF added
            <4> QED
                BY <2>1, <4>3, <4>4
        <3> QED
            BY <3>1, <3>2
    <2>7. linker' \in [Linkers -> Links \cup {Nothing}]
        BY <1>2 DEF LinkCommit
    <2> QED
        BY <1>2, <2>3, <2>4, <2>5, <2>6, <2>7 DEF LinkCommit
<1>3. CASE LinkEnd(l)
    BY <1>3 DEF LinkEnd
<1> QED
    BY <1>1, <1>2, <1>3

LEMMA TypeOKTime ==
    ASSUME TypeOK,
           \/ \E s \in Subjects, r \in Requests : LeaseExpire(s, r)
           \/ MonthEnd \/ Sweep
    PROVE  TypeOK'
<1> USE BoundsAssumption DEF TypeOK, identity, clocks
<1>1. CASE \E s \in Subjects, r \in Requests : LeaseExpire(s, r)
    BY <1>1 DEF LeaseExpire
<1>2. CASE MonthEnd
    BY <1>2 DEF MonthEnd, Months
<1>3. CASE Sweep
    BY <1>3 DEF Sweep, Months, NoMonth
<1> QED
    BY <1>1, <1>2, <1>3

LEMMA TypeOKStep == TypeOK /\ [Next]_vars => TypeOK'
<1> SUFFICES ASSUME TypeOK, [Next]_vars PROVE TypeOK'
    OBVIOUS
<1>1. CASE Next
    BY <1>1, TypeOKCall, TypeOKLink, TypeOKTime DEF Next
<1>2. CASE UNCHANGED vars
    BY <1>2 DEF vars, TypeOK
<1> QED
    BY <1>1, <1>2

\* The shared Redis state and every worker's state keep their types, whatever
\* the requests, links, expiries and month ends.
THEOREM TypeCorrect == Spec => []TypeOK
<1> QED
    BY InitTypeOK, TypeOKStep, PTL DEF Spec

-----------------------------------------------------------------------------
(* Groups                                                                  *)

\* In a consistent state a subject's root is one hop away, and a root's
\* member list is its class.
LEMMA FlatGroups ==
    ASSUME TypeOK, GroupsConsistent, NEW s \in Subjects
    PROVE  /\ Root(s) = parent[s]
           /\ parent[s] \in Subjects
           /\ parent[parent[s]] = parent[s]
           /\ Resolvable(s)
           /\ Chain(s) = {s, parent[s]}
           /\ members[Root(s)] = {d \in Subjects : parent[d] = parent[s]}
<1>1. \A d \in Subjects : /\ parent[d] \in Subjects
                          /\ Root(d) = parent[d]
                          /\ parent[parent[d]] = parent[d]
    BY DEF TypeOK, GroupsConsistent, Root
<1>2. members[parent[s]] = {d \in Subjects : Root(d) = parent[s]}
    BY <1>1 DEF GroupsConsistent
<1> QED
    BY <1>1, <1>2 DEF Resolvable, Chain, Root

\* What a link moves: the classes of both roots, which end up as one class
\* under the root of the account; no other class is touched.
LEMMA LinkMerges ==
    ASSUME TypeOK, GroupsConsistent, NEW l \in Linkers,
           NEW reply \in BOOLEAN, LinkCommit(l, reply)
    PROVE  LET i  == linker[l].installation
               a  == linker[l].account
               ri == parent[i]
               ra == parent[a]
           IN  /\ i \in Subjects /\ a \in Subjects
               /\ ri \in Subjects /\ ra \in Subjects
               /\ parent[ri] = ri /\ parent[ra] = ra
               /\ Root(i) = ri /\ Root(a) = ra
               /\ Linked(i, a) = {d \in Subjects : parent[d] \in {ri, ra}}
               /\ \A d \in Subjects :
                     parent'[d] = IF parent[d] = ri THEN ra ELSE parent[d]
<1> DEFINE i  == linker[l].installation
           a  == linker[l].account
           ri == parent[i]
           ra == parent[a]
<1>1. i \in Subjects /\ a \in Subjects
    BY DEF LinkCommit, Links, Subjects
<1>2. /\ ri \in Subjects /\ ra \in Subjects
      /\ parent[ri] = ri /\ parent[ra] = ra
      /\ Root(i) = ri /\ Root(a) = ra
      /\ Chain(i) = {i, ri} /\ Chain(a) = {a, ra}
      /\ members[Root(i)] = {d \in Subjects : parent[d] = ri}
      /\ members[Root(a)] = {d \in Subjects : parent[d] = ra}
    BY <1>1, FlatGroups
<1>3. \A d \in Subjects : Chain(d) = {d, parent[d]} /\ parent[d] \in Subjects
    BY FlatGroups
<1> HIDE DEF i, a, ri, ra
<1>4. Linked(i, a) = {d \in Subjects : parent[d] \in {ri, ra}}
    <2> DEFINE groups == members[Root(i)] \cup members[Root(a)]
                            \cup Chain(i) \cup Chain(a)
    <2>1. groups = {d \in Subjects : parent[d] \in {ri, ra}}
        BY <1>1, <1>2 DEF ri, ra
    <2>2. \A d \in groups : /\ d \in Chain(d)
                            /\ Chain(d) \subseteq groups
        BY <1>2, <1>3, <2>1
    <2>3. Linked(i, a) = groups \cup UNION {Chain(d) : d \in groups}
        BY DEF Linked
    <2> HIDE DEF groups
    <2> QED
        BY <2>1, <2>2, <2>3
<1>5. \A d \in Subjects :
          parent'[d] = IF parent[d] = ri THEN ra ELSE parent[d]
    <2>1. parent' = [d \in Subjects |->
                        IF d \in Linked(i, a) \ {ra} THEN ra ELSE parent[d]]
        BY <1>2 DEF LinkCommit, i, a, ri, ra
    <2> QED
        BY <1>2, <1>4, <2>1
<1> QED
    BY <1>1, <1>2, <1>4, <1>5 DEF i, a, ri, ra

LEMMA InitGroups == Init => GroupsConsistent
    BY DEF Init, GroupsConsistent, Root

LEMMA GroupsStep ==
    ASSUME TypeOK, GroupsConsistent, [Next]_vars
    PROVE  GroupsConsistent'
<1>1. CASE UNCHANGED identity
    BY <1>1 DEF identity, GroupsConsistent, Root
<1>2. CASE \E l \in Linkers, reply \in BOOLEAN : LinkCommit(l, reply)
    <2> PICK l \in Linkers, reply \in BOOLEAN : LinkCommit(l, reply)
        BY <1>2
    <2> DEFINE i  == linker[l].installation
               a  == linker[l].account
               ri == parent[i]
               ra == parent[a]
    <2>1. /\ i \in Subjects /\ a \in Subjects
          /\ ri \in Subjects /\ ra \in Subjects
          /\ parent[ri] = ri /\ parent[ra] = ra
          /\ Root(i) = ri /\ Root(a) = ra
          /\ Linked(i, a) = {d \in Subjects : parent[d] \in {ri, ra}}
          /\ \A d \in Subjects :
                parent'[d] = IF parent[d] = ri THEN ra ELSE parent[d]
        BY LinkMerges
    <2>2. members' = [d \in Subjects |->
                         CASE d = ra -> Linked(i, a)
                           [] d = ri /\ d # ra -> {ri}
                           [] OTHER -> members[d]]
        BY <2>1 DEF LinkCommit
    <2> HIDE DEF i, a, ri, ra
    <2>3. \A d \in Subjects : /\ parent[d] \in Subjects
                              /\ parent[parent[d]] = parent[d]
        BY FlatGroups
    <2>4. \A d \in Subjects : parent'[d] \in Subjects
                             /\ parent'[parent'[d]] = parent'[d]
        BY <2>1, <2>3
    <2>5. ASSUME NEW s \in Subjects, parent'[s] = s
          PROVE  members'[s] = {d \in Subjects : parent'[d] = s}
        <3>1. parent[s] = s
            BY <2>1, <2>5
        <3>2. members[s] = {d \in Subjects : parent[d] = s}
            BY <3>1, FlatGroups
        <3>3. CASE s = ra
            <4>1. members'[s] = Linked(i, a)
                BY <2>1, <2>2, <3>3
            <4> QED
                BY <2>1, <3>3, <4>1
        <3>4. CASE s # ra
            <4>1. s # ri
                BY <2>1, <2>5, <3>4
            <4>2. members'[s] = members[s]
                BY <2>2, <3>4, <4>1
            <4> QED
                BY <2>1, <3>2, <3>4, <4>1, <4>2
        <3> QED
            BY <3>3, <3>4
    <2>6. \A s \in Subjects : Root(s)' = parent'[s]
        BY <2>4 DEF Root
    <2> QED
        BY <2>4, <2>5, <2>6 DEF GroupsConsistent
<1>3. UNCHANGED identity
      \/ \E l \in Linkers, reply \in BOOLEAN : LinkCommit(l, reply)
    BY ZenonT(40) DEF Next, vars, identity, Arrive, ReserveRefused, Reserve, Captured, Refuse,
           DispatchCharge, DispatchIdentityChanged, DispatchAlreadyCharged,
           DispatchDuplicate, DispatchExhausted, Release, GiveUp, LinkArrive,
           LinkEnd, LeaseExpire, MonthEnd, Sweep
<1> QED
    BY <1>1, <1>2, <1>3

\* However links are chained, repeated or raced by any number of workers, a
\* quota group stays flat and its member list exact.
THEOREM GroupsStayConsistent == Spec => []GroupsConsistent
<1>1. Init => TypeOK /\ GroupsConsistent
    BY InitTypeOK, InitGroups
<1>2. TypeOK /\ GroupsConsistent /\ [Next]_vars
          => (TypeOK /\ GroupsConsistent)'
    BY TypeOKStep, GroupsStep
<1> QED
    BY <1>1, <1>2, PTL DEF Spec

-----------------------------------------------------------------------------
(* A request is charged once: the inductive invariant behind ChargedOnce.  *)

\* The clocks run together, a live call's month has not been swept, and only
\* a call that owned a lease was ever charged.
ClocksAgree ==
    /\ swept <= month
    /\ \A p \in Calls : arg[p] \in Args => arg[p].month <= month
    /\ \A p \in Calls :
          state[p] \in {"arrived", "owner"} => swept <= arg[p].month
    /\ \A p \in Calls : state[p] \in {"idle", "arrived"} => p \notin ledger

\* The generations a reservation captured are not in the future.
PastIdentity ==
    \A p \in Calls :
        state[p] = "owner" =>
            \A v \in seen[p].versions : v[2] <= generation[v[1]]

ChargeInv ==
    /\ TypeOK /\ GroupsConsistent
    /\ ClocksAgree /\ PastIdentity
    /\ LeaseSound /\ MarkersKept

-----------------------------------------------------------------------------
LEMMA InitChargeInv == Init => ChargeInv
<1> SUFFICES ASSUME Init PROVE ChargeInv
    OBVIOUS
<1>1. TypeOK /\ GroupsConsistent
    BY InitTypeOK, InitGroups
<1>2. ClocksAgree
    BY NothingAssumption, <1>1 DEF Init, ClocksAgree, TypeOK, Args
<1>3. PastIdentity /\ LeaseSound /\ MarkersKept
    BY DEF Init, PastIdentity, LeaseSound, MarkersKept
<1> QED
    BY <1>1, <1>2, <1>3 DEF ChargeInv

\* A link that leaves a pending reservation its identity did not touch that
\* reservation's group.
LEMMA LinkUntouched ==
    ASSUME TypeOK, GroupsConsistent, PastIdentity,
           NEW l \in Linkers, NEW reply \in BOOLEAN, LinkCommit(l, reply),
           NEW p \in Calls, state[p] = "owner", SameIdentity(p)'
    PROVE  /\ SameIdentity(p)
           /\ arg[p].subject \in Subjects
           /\ seen[p].root = parent[arg[p].subject]
           /\ parent[arg[p].subject] # parent[linker[l].installation]
           /\ parent[arg[p].subject] # parent[linker[l].account]
           /\ \A d \in Subjects :
                 parent'[d] = seen[p].root <=> parent[d] = seen[p].root
           /\ members'[seen[p].root] = members[seen[p].root]
<1> DEFINE i  == linker[l].installation
           a  == linker[l].account
           ri == parent[i]
           ra == parent[a]
           s  == arg[p].subject
<1>1. /\ i \in Subjects /\ a \in Subjects
      /\ ri \in Subjects /\ ra \in Subjects
      /\ parent[ri] = ri /\ parent[ra] = ra
      /\ Root(i) = ri /\ Root(a) = ra
      /\ Linked(i, a) = {d \in Subjects : parent[d] \in {ri, ra}}
      /\ \A d \in Subjects :
            parent'[d] = IF parent[d] = ri THEN ra ELSE parent[d]
    BY LinkMerges
<1>2. /\ UNCHANGED <<arg, seen, state>>
      /\ generation' = [d \in Subjects |->
                           IF d \in Linked(i, a) THEN generation[d] + 1
                                                 ELSE generation[d]]
      /\ members' = [d \in Subjects |->
                        CASE d = ra -> Linked(i, a)
                          [] d = ri /\ d # ra -> {ri}
                          [] OTHER -> members[d]]
    BY <1>1, SMTT(40) DEF LinkCommit
<1>3. s \in Subjects
    BY DEF TypeOK, Args
<1>4. GroupsConsistent' /\ TypeOK'
    BY GroupsStep, TypeOKStep DEF Next
<1> HIDE DEF i, a, ri, ra, s
<1>5. \A d \in Subjects : /\ Root(d) = parent[d] /\ Chain(d) = {d, parent[d]}
                          /\ parent[d] \in Subjects
                          /\ parent[parent[d]] = parent[d]
    BY FlatGroups
<1>6. \A d \in Subjects : Root(d)' = parent'[d] /\ Chain(d)' = {d, parent'[d]}
    BY <1>4 DEF GroupsConsistent, Root, Chain
<1> DEFINE V == {<<d, generation[d]>> : d \in {s, parent[s]}}
           W == {<<d, generation'[d]>> : d \in {s, parent'[s]}}
<1>a. V = Versions(s)
    BY <1>3, <1>5 DEF Versions
<1>b. seen[p].versions = W /\ seen[p].root = parent'[s]
    BY <1>2, <1>3, <1>6 DEF SameIdentity, Versions, s
<1>7. generation'[s] <= generation[s]
    <2>1. <<s, generation'[s]>> \in seen[p].versions
        BY <1>b
    <2> QED
        BY <2>1 DEF PastIdentity
<1>8. s \notin Linked(i, a)
    BY <1>2, <1>3, <1>7 DEF TypeOK
<1>9. parent[s] # ri /\ parent[s] # ra
    BY <1>1, <1>3, <1>8
<1>10. parent'[s] = parent[s] /\ seen[p].root = parent[s]
    BY <1>1, <1>2, <1>3, <1>5, <1>9, <1>b
<1>11. generation'[s] = generation[s] /\ generation'[parent[s]] = generation[parent[s]]
    BY <1>1, <1>2, <1>3, <1>5, <1>9
<1>12. SameIdentity(p)
    <2>1. V = W
        BY <1>10, <1>11
    <2>2. Versions(s) = seen[p].versions
        BY <1>a, <1>b, <2>1
    <2> QED
        BY <1>3, <1>5, <1>10, <2>2 DEF SameIdentity, s
<1>13. \A d \in Subjects : parent'[d] = seen[p].root <=> parent[d] = seen[p].root
    BY <1>1, <1>5, <1>9, <1>10
<1>14. members'[seen[p].root] = members[seen[p].root]
    BY <1>2, <1>3, <1>5, <1>9, <1>10
<1> QED
    BY <1>3, <1>9, <1>10, <1>12, <1>13, <1>14 DEF i, a, ri, ra, s

\* What every step that ends a call without a charge has in common.
LEMMA RefusedCalls ==
    ASSUME TypeOK, NEW p \in Calls,
           \/ ReserveRefused(p) \/ DispatchIdentityChanged(p)
           \/ DispatchAlreadyCharged(p) \/ DispatchDuplicate(p)
           \/ DispatchExhausted(p) \/ Release(p) \/ GiveUp(p)
    PROVE  /\ \E d \in Finished : Refuse(p, d)
           /\ state[p] \in {"arrived", "owner"}
           /\ \A s \in Subjects, r \in Requests :
                 lease'[s][r] \in {lease[s][r], Nothing}
<1>1. \E d \in Finished : Refuse(p, d)
    BY DEF ReserveRefused, DispatchIdentityChanged, DispatchAlreadyCharged,
           DispatchDuplicate, DispatchExhausted, Release, GiveUp, Finished
<1>2. state[p] \in {"arrived", "owner"}
    BY DEF ReserveRefused, DispatchIdentityChanged, DispatchAlreadyCharged,
           DispatchDuplicate, DispatchExhausted, Release, GiveUp, MayCharge
<1>3. UNCHANGED lease \/ (state[p] = "owner" /\ DeleteOwnLease(p))
    <2>1. CASE ReserveRefused(p)
        BY <2>1 DEF ReserveRefused
    <2>2. CASE \/ DispatchAlreadyCharged(p) \/ DispatchDuplicate(p)
               \/ GiveUp(p)
        BY <2>2 DEF DispatchAlreadyCharged, DispatchDuplicate, GiveUp
    <2>3. CASE DispatchIdentityChanged(p) \/ DispatchExhausted(p) \/ Release(p)
        BY <2>3 DEF DispatchIdentityChanged, DispatchExhausted, Release,
                    MayCharge
    <2> QED
        BY <2>1, <2>2, <2>3
<1>4. CASE UNCHANGED lease
    BY <1>1, <1>2, <1>4
<1>5. CASE state[p] = "owner" /\ DeleteOwnLease(p)
    <2>1. seen[p].root \in Subjects /\ arg[p].request \in Requests
        BY <1>5 DEF TypeOK, Seen, Args
    <2>2. \A s \in Subjects, r \in Requests :
              lease'[s][r] \in {lease[s][r], Nothing}
        BY <1>5, <2>1 DEF DeleteOwnLease, TypeOK
    <2> QED
        BY <1>1, <1>2, <2>2
<1> QED
    BY <1>3, <1>4, <1>5

\* Every step is one of these, or changes no variable.
LEMMA StepCases ==
    ASSUME TypeOK, [Next]_vars
    PROVE  \/ \E p \in Calls : Arrive(p)
           \/ \E p \in Calls : /\ \E d \in Finished : Refuse(p, d)
                              /\ state[p] \in {"arrived", "owner"}
                              /\ \A s \in Subjects, r \in Requests :
                                    lease'[s][r] \in {lease[s][r], Nothing}
           \/ \E p \in Calls, reply \in BOOLEAN : Reserve(p, reply)
           \/ \E p \in Calls, reply \in BOOLEAN : DispatchCharge(p, reply)
           \/ \E l \in Linkers : LinkArrive(l) \/ LinkEnd(l)
           \/ \E l \in Linkers, reply \in BOOLEAN : LinkCommit(l, reply)
           \/ \E s \in Subjects, r \in Requests : LeaseExpire(s, r)
           \/ MonthEnd
           \/ Sweep
           \/ UNCHANGED vars
    BY RefusedCalls DEF Next

LEMMA ClocksStep ==
    ASSUME TypeOK, ClocksAgree, [Next]_vars
    PROVE  ClocksAgree'
<1> USE DEF ClocksAgree, TypeOK, identity, clocks, Months
<1>1. CASE \E p \in Calls : Arrive(p)
    BY <1>1, BoundsAssumption DEF Arrive, Args
<1>2. CASE \E p \in Calls : /\ \E d \in Finished : Refuse(p, d)
                            /\ state[p] \in {"arrived", "owner"}
    <2> PICK p \in Calls, d \in Finished : /\ Refuse(p, d)
                                          /\ state[p] \in {"arrived", "owner"}
        BY <1>2
    <2>1. d \notin {"idle", "arrived", "owner"}
        BY DEF Finished
    <2>2. \A q \in Calls : /\ state'[q] = IF q = p THEN d ELSE state[q]
                           /\ arg'[q] \in {arg[q], Nothing}
                           /\ q # p => arg'[q] = arg[q]
        BY DEF Refuse
    <2>3. UNCHANGED <<swept, month, ledger>>
        BY DEF Refuse
    <2> QED
        BY <2>1, <2>2, <2>3, NothingAssumption
<1>3. CASE \E p \in Calls, reply \in BOOLEAN : Reserve(p, reply)
    BY <1>3 DEF Reserve, Captured
<1>4. CASE \E p \in Calls, reply \in BOOLEAN : DispatchCharge(p, reply)
    BY <1>4 DEF DispatchCharge, MayCharge
<1>5. CASE \E l \in Linkers : LinkArrive(l) \/ LinkEnd(l)
    BY <1>5 DEF LinkArrive, LinkEnd
<1>6. CASE \E l \in Linkers, reply \in BOOLEAN : LinkCommit(l, reply)
    BY <1>6 DEF LinkCommit
<1>7. CASE \E s \in Subjects, r \in Requests : LeaseExpire(s, r)
    BY <1>7 DEF LeaseExpire
<1>8. CASE MonthEnd
    BY <1>8, BoundsAssumption DEF MonthEnd, Args
<1>9. CASE Sweep
    BY <1>9, BoundsAssumption DEF Sweep, InFlightMonth, Args
<1>10. CASE UNCHANGED vars
    BY <1>10 DEF vars
<1> QED
    BY StepCases, <1>1, <1>2, <1>3, <1>4, <1>5, <1>6, <1>7, <1>8, <1>9, <1>10

LEMMA PastStep ==
    ASSUME TypeOK, PastIdentity, [Next]_vars
    PROVE  PastIdentity'
<1> USE DEF PastIdentity, identity, clocks
<1>1. CASE \E p \in Calls : Arrive(p)
    BY <1>1 DEF Arrive, TypeOK
<1>2. CASE \E p \in Calls : \E d \in Finished : Refuse(p, d)
    BY <1>2 DEF Refuse, Finished, TypeOK
<1>3. CASE \E p \in Calls, reply \in BOOLEAN : Reserve(p, reply)
    <2> PICK p \in Calls, reply \in BOOLEAN : Reserve(p, reply)
        BY <1>3
    <2>1. generation' = generation /\ \A q \in Calls \ {p} :
              state'[q] = state[q] /\ seen'[q] = seen[q]
        BY DEF Reserve, Captured, TypeOK
    <2>2. state'[p] = "owner" => seen'[p].versions = Versions(arg[p].subject)
        BY DEF Reserve, Captured, TypeOK
    <2>3. arg[p].subject \in Subjects
        BY DEF Reserve, Captured, TypeOK, Args
    <2>4. \A v \in Versions(arg[p].subject) : v[2] <= generation[v[1]]
        BY <2>3, RootVersionsType, BoundsAssumption DEF Versions, TypeOK
    <2> QED
        BY <2>1, <2>2, <2>4
<1>4. CASE \E p \in Calls, reply \in BOOLEAN : DispatchCharge(p, reply)
    BY <1>4 DEF DispatchCharge, MayCharge, TypeOK
<1>5. CASE \E l \in Linkers : LinkArrive(l) \/ LinkEnd(l)
    BY <1>5 DEF LinkArrive, LinkEnd
<1>6. CASE \E l \in Linkers, reply \in BOOLEAN : LinkCommit(l, reply)
    <2>1. /\ state' = state /\ seen' = seen
          /\ \A d \in Subjects : generation[d] \in Nat
          /\ \A d \in Subjects : generation'[d] \in Nat
          /\ \A d \in Subjects : generation[d] <= generation'[d]
        BY <1>6, BoundsAssumption DEF LinkCommit, TypeOK
    <2>2. \A p \in Calls : state[p] = "owner" =>
             seen[p].versions \subseteq Subjects \X (0 .. MaxGeneration)
        BY DEF TypeOK, Seen
    <2>3. \A v \in Subjects \X (0 .. MaxGeneration) :
              v[1] \in Subjects /\ v[2] \in Nat
        BY BoundsAssumption
    <2> QED
        BY <2>1, <2>2, <2>3
<1>7. CASE \E s \in Subjects, r \in Requests : LeaseExpire(s, r)
    BY <1>7 DEF LeaseExpire
<1>8. CASE MonthEnd
    BY <1>8 DEF MonthEnd
<1>9. CASE Sweep
    BY <1>9 DEF Sweep
<1>10. CASE UNCHANGED vars
    BY <1>10 DEF vars
<1> QED
    BY StepCases, <1>1, <1>2, <1>3, <1>4, <1>5, <1>6, <1>7, <1>8, <1>9, <1>10

LEMMA LeaseSoundStep ==
    ASSUME ChargeInv, [Next]_vars
    PROVE  LeaseSound'
<1> USE DEF identity, clocks
<1>0. TypeOK /\ GroupsConsistent /\ PastIdentity /\ LeaseSound
    BY DEF ChargeInv
<1> SUFFICES ASSUME NEW q \in Calls, (state[q] = "owner")', SameIdentity(q)',
                    (lease[seen[q].root][arg[q].request] = q)'
             PROVE  ~AlreadyCharged(arg[q].subject, arg[q].request)'
    BY DEF LeaseSound
\* A step that keeps q, its group and q's lease as they were, and marks
\* nothing new.
<1>s. ASSUME UNCHANGED identity, state[q] = "owner",
             arg'[q] = arg[q], seen'[q] = seen[q],
             \A s \in Subjects, r \in Requests :
                 /\ lease'[s][r] = q => lease[s][r] = q
                 /\ charged'[s][r] # NoMonth => charged[s][r] # NoMonth
      PROVE  ~AlreadyCharged(arg[q].subject, arg[q].request)'
    <2>1. /\ arg[q].subject \in Subjects /\ arg[q].request \in Requests
          /\ seen[q].root \in Subjects
        BY <1>0, <1>s DEF TypeOK, Args, Seen
    <2>2. SameIdentity(q)
        BY <1>s DEF SameIdentity, Root, Versions, Chain
    <2>3. lease[seen[q].root][arg[q].request] = q
        BY <1>s, <2>1
    <2>4. ~AlreadyCharged(arg[q].subject, arg[q].request)
        BY <1>0, <1>s, <2>2, <2>3 DEF LeaseSound
    <2>5. members[Root(arg[q].subject)] \subseteq Subjects
        BY <1>0, <2>1, RootVersionsType DEF TypeOK
    <2> QED
        BY <1>s, <2>1, <2>4, <2>5 DEF AlreadyCharged, Root
<1>1. CASE \E p \in Calls : Arrive(p)
    BY <1>0, <1>1, <1>s DEF Arrive, TypeOK
<1>2. CASE \E p \in Calls : /\ \E d \in Finished : Refuse(p, d)
                            /\ \A s \in Subjects, r \in Requests :
                                  lease'[s][r] \in {lease[s][r], Nothing}
    <2> PICK p \in Calls, d \in Finished :
            /\ Refuse(p, d)
            /\ \A s \in Subjects, r \in Requests :
                  lease'[s][r] \in {lease[s][r], Nothing}
        BY <1>2
    <2>1. q # p
        BY <1>0 DEF Refuse, Finished, TypeOK
    <2>2. /\ UNCHANGED identity /\ state[q] = "owner"
          /\ arg'[q] = arg[q] /\ seen'[q] = seen[q] /\ charged' = charged
        BY <1>0, <2>1 DEF Refuse, TypeOK
    <2> QED
        BY <1>s, <2>2, NothingAssumption
<1>3. CASE \E p \in Calls, reply \in BOOLEAN : Reserve(p, reply)
    <2> PICK p \in Calls, reply \in BOOLEAN : Reserve(p, reply)
        BY <1>3
    <2>1. CASE q = p
        BY <2>1 DEF Reserve, Captured, AlreadyCharged, Root
    <2>2. CASE q # p
        <3>1. /\ UNCHANGED identity /\ state[q] = "owner"
              /\ arg'[q] = arg[q] /\ seen'[q] = seen[q] /\ charged' = charged
            BY <1>0, <2>2 DEF Reserve, Captured, TypeOK
        <3>2. arg[p].subject \in Subjects /\ arg[p].request \in Requests
            BY <1>0 DEF Reserve, Captured, TypeOK, Args
        <3>3. \A s \in Subjects, r \in Requests :
                  lease'[s][r] = q => lease[s][r] = q
            BY <1>0, <2>2, <3>2, RootVersionsType DEF Reserve, Captured, TypeOK
        <3> QED
            BY <1>s, <3>1, <3>3
    <2> QED
        BY <2>1, <2>2
<1>4. CASE \E p \in Calls, reply \in BOOLEAN : DispatchCharge(p, reply)
    <2> PICK p \in Calls, reply \in BOOLEAN : DispatchCharge(p, reply)
        BY <1>4
    <2> DEFINE root == seen[p].root
               r    == arg[p].request
    <2>1. /\ state[p] = "owner" /\ SameIdentity(p)
          /\ lease[root][r] = p /\ charged[root][r] = NoMonth
          /\ lease' = [lease EXCEPT ![root][r] = Nothing]
          /\ charged' = [charged EXCEPT ![root][r] = arg[p].month]
          /\ UNCHANGED <<arg, seen>> /\ UNCHANGED identity
        BY DEF DispatchCharge, MayCharge, DeleteOwnLease
    <2>2. /\ root \in Subjects /\ r \in Requests
          /\ arg[p].subject \in Subjects
        BY <1>0, <2>1 DEF TypeOK, Args, Seen
    <2>3. root = parent[arg[p].subject] /\ parent[root] = root
        BY <1>0, <2>1, <2>2, FlatGroups DEF SameIdentity
    <2>4. q # p
        BY <1>0, <2>1, <2>2, NothingAssumption DEF TypeOK
    <2>5. state[q] = "owner"
        BY <1>0, <2>4 DEF DispatchCharge, TypeOK
    <2>6. /\ arg[q].subject \in Subjects /\ arg[q].request \in Requests
          /\ seen[q].root \in Subjects
        BY <1>0, <2>5 DEF TypeOK, Args, Seen
    <2>7. SameIdentity(q)
        BY <2>1 DEF SameIdentity, Root, Versions, Chain
    <2>8. /\ lease[seen[q].root][arg[q].request] = q
          /\ ~(seen[q].root = root /\ arg[q].request = r)
        BY <1>0, <2>1, <2>2, <2>4, <2>6, NothingAssumption DEF TypeOK
    <2>9. ~AlreadyCharged(arg[q].subject, arg[q].request)
        BY <1>0, <2>5, <2>7, <2>8 DEF LeaseSound
    <2>10. /\ seen[q].root = parent[arg[q].subject]
           /\ members[Root(arg[q].subject)] =
                 {d \in Subjects : parent[d] = parent[arg[q].subject]}
        BY <1>0, <2>6, <2>7, FlatGroups DEF SameIdentity
    <2> HIDE DEF root, r
    <2>11. ~(root \in members[Root(arg[q].subject)] /\ arg[q].request = r)
        BY <2>2, <2>3, <2>8, <2>10
    <2>12. \A d \in members[Root(arg[q].subject)] :
               charged'[d][arg[q].request] = charged[d][arg[q].request]
        BY <1>0, <2>1, <2>2, <2>6, <2>10, <2>11 DEF TypeOK
    <2> QED
        BY <2>1, <2>9, <2>12 DEF AlreadyCharged, Root
<1>5. CASE \E l \in Linkers : LinkArrive(l) \/ LinkEnd(l)
    BY <1>5, <1>s DEF LinkArrive, LinkEnd
<1>6. CASE \E l \in Linkers, reply \in BOOLEAN : LinkCommit(l, reply)
    <2> PICK l \in Linkers, reply \in BOOLEAN : LinkCommit(l, reply)
        BY <1>6
    <2>1. UNCHANGED <<arg, seen, state, lease, charged>>
        BY DEF LinkCommit
    <2>2. /\ SameIdentity(q)
          /\ arg[q].subject \in Subjects
          /\ seen[q].root = parent[arg[q].subject]
          /\ members'[seen[q].root] = members[seen[q].root]
        BY <1>0, <2>1, LinkUntouched
    <2>3. Root(arg[q].subject) = seen[q].root /\ (Root(arg[q].subject) = seen[q].root)'
        BY <2>2 DEF SameIdentity
    <2>4. ~AlreadyCharged(arg[q].subject, arg[q].request)
        BY <1>0, <2>1, <2>2 DEF LeaseSound
    <2> QED
        BY <2>1, <2>2, <2>3, <2>4 DEF AlreadyCharged
<1>7. CASE \E s \in Subjects, r \in Requests : LeaseExpire(s, r)
    <2>1. \A s \in Subjects, r \in Requests :
              lease'[s][r] \in {lease[s][r], Nothing}
        BY <1>0, <1>7 DEF LeaseExpire, TypeOK
    <2> QED
        BY <1>7, <1>s, <2>1, NothingAssumption DEF LeaseExpire
<1>8. CASE MonthEnd
    BY <1>8, <1>s DEF MonthEnd
<1>9. CASE Sweep
    <2>1. \A s \in Subjects, r \in Requests :
              charged'[s][r] # NoMonth => charged[s][r] # NoMonth
        BY <1>9 DEF Sweep
    <2> QED
        BY <1>9, <1>s, <2>1 DEF Sweep
<1>10. CASE UNCHANGED vars
    BY <1>10, <1>s DEF vars
<1> QED
    BY <1>0, StepCases, <1>1, <1>2, <1>3, <1>4, <1>5, <1>6, <1>7, <1>8, <1>9,
       <1>10

LEMMA MarkersKeptStep ==
    ASSUME ChargeInv, [Next]_vars
    PROVE  MarkersKept'
<1> USE DEF identity, clocks
<1>0. TypeOK /\ GroupsConsistent /\ ClocksAgree /\ MarkersKept
    BY DEF ChargeInv
<1>a. TypeOK' /\ GroupsConsistent'
    BY <1>0, TypeOKStep, GroupsStep
<1> SUFFICES ASSUME NEW q \in Calls, (q \in ledger)', (arg[q].month >= swept)'
             PROVE  (\E d \in members[Root(arg[q].subject)] :
                        charged[d][arg[q].request] = arg[q].month)'
    BY <1>a DEF MarkersKept, TypeOK
\* A step that keeps the groups, q's charge, and q's marker.
<1>s. ASSUME UNCHANGED identity, q \in ledger, arg'[q] = arg[q],
             swept' = swept, charged' = charged
      PROVE  (\E d \in members[Root(arg[q].subject)] :
                 charged[d][arg[q].request] = arg[q].month)'
    BY <1>0, <1>s DEF MarkersKept, Root
<1>1. CASE \E p \in Calls : Arrive(p)
    <2> PICK p \in Calls : Arrive(p)
        BY <1>1
    <2>1. q # p
        BY <1>0 DEF Arrive, ClocksAgree
    <2> QED
        BY <1>0, <1>s, <2>1 DEF Arrive, TypeOK
<1>2. CASE \E p \in Calls : \E d \in Finished : Refuse(p, d)
    BY <1>0, <1>2, <1>s DEF Refuse, TypeOK
<1>3. CASE \E p \in Calls, reply \in BOOLEAN : Reserve(p, reply)
    BY <1>3, <1>s DEF Reserve, Captured
<1>4. CASE \E p \in Calls, reply \in BOOLEAN : DispatchCharge(p, reply)
    <2> PICK p \in Calls, reply \in BOOLEAN : DispatchCharge(p, reply)
        BY <1>4
    <2> DEFINE root == seen[p].root
               r    == arg[p].request
    <2>1. /\ state[p] = "owner" /\ SameIdentity(p)
          /\ charged[root][r] = NoMonth
          /\ charged' = [charged EXCEPT ![root][r] = arg[p].month]
          /\ ledger' = ledger \cup {p}
          /\ UNCHANGED <<arg, swept>> /\ UNCHANGED identity
        BY DEF DispatchCharge, MayCharge
    <2>2. /\ root \in Subjects /\ r \in Requests
          /\ arg[p].subject \in Subjects
        BY <1>0, <2>1 DEF TypeOK, Args, Seen
    <2>3. /\ root = parent[arg[p].subject] /\ parent[root] = root
          /\ root = Root(arg[p].subject)
          /\ root \in members[Root(arg[p].subject)]
        BY <1>0, <2>1, <2>2, FlatGroups DEF SameIdentity
    <2> HIDE DEF root, r
    <2>4. charged'[root][r] = arg[p].month
        BY <1>0, <2>1, <2>2 DEF TypeOK
    <2>5. CASE q = p
        BY <2>1, <2>3, <2>4, <2>5 DEF Root, r
    <2>6. CASE q # p
        <3>1. q \in ledger /\ arg[q].month >= swept
            BY <2>1, <2>6
        <3>2. PICK d \in members[Root(arg[q].subject)] :
                  charged[d][arg[q].request] = arg[q].month
            BY <1>0, <3>1 DEF MarkersKept
        <3>3. /\ arg[q].subject \in Subjects /\ arg[q].request \in Requests
              /\ arg[q].month \in Months
            BY <1>0, <3>1 DEF TypeOK, Args
        <3>4. d \in Subjects
            BY <1>0, <3>2, <3>3, RootVersionsType DEF TypeOK
        <3>5. ~(d = root /\ arg[q].request = r)
            BY <2>1, <3>2, <3>3, BoundsAssumption DEF NoMonth, Months
        <3>6. charged'[d][arg[q].request] = arg[q].month
            BY <1>0, <2>1, <2>2, <3>2, <3>3, <3>4, <3>5 DEF TypeOK
        <3> QED
            BY <2>1, <3>2, <3>6 DEF Root
    <2> QED
        BY <2>5, <2>6
<1>5. CASE \E l \in Linkers : LinkArrive(l) \/ LinkEnd(l)
    BY <1>5, <1>s DEF LinkArrive, LinkEnd
<1>6. CASE \E l \in Linkers, reply \in BOOLEAN : LinkCommit(l, reply)
    <2> PICK l \in Linkers, reply \in BOOLEAN : LinkCommit(l, reply)
        BY <1>6
    <2>1. UNCHANGED <<arg, swept, charged, ledger>>
        BY DEF LinkCommit
    <2>2. arg[q].subject \in Subjects
        BY <1>0, <2>1 DEF TypeOK, Args
    <2>3. PICK d \in members[Root(arg[q].subject)] :
              charged[d][arg[q].request] = arg[q].month
        BY <1>0, <2>1 DEF MarkersKept
    <2>4. d \in Subjects /\ parent[d] = parent[arg[q].subject]
        BY <1>0, <2>2, <2>3, FlatGroups
    <2>5. parent'[d] = parent'[arg[q].subject]
        BY <1>0, <2>2, <2>4, LinkMerges
    <2>6. /\ \A s \in Subjects : Root(s)' = parent'[s]
          /\ \A s \in Subjects : parent'[parent'[s]] = parent'[s]
          /\ parent'[arg[q].subject] \in Subjects
        BY <1>a, <2>2 DEF GroupsConsistent, TypeOK
    <2>7. d \in members'[parent'[arg[q].subject]]
        BY <1>a, <2>2, <2>4, <2>5, <2>6 DEF GroupsConsistent
    <2> QED
        BY <2>1, <2>2, <2>3, <2>6, <2>7
<1>7. CASE \E s \in Subjects, r \in Requests : LeaseExpire(s, r)
    BY <1>7, <1>s DEF LeaseExpire
<1>8. CASE MonthEnd
    BY <1>8, <1>s DEF MonthEnd
<1>9. CASE Sweep
    <2>1. /\ q \in ledger /\ arg' = arg /\ swept' = swept + 1
          /\ UNCHANGED identity /\ swept \in Months
          /\ charged' = [s \in Subjects |-> [t \in Requests |->
                           IF charged[s][t] = swept THEN NoMonth
                                                    ELSE charged[s][t]]]
        BY <1>0, <1>9 DEF Sweep, TypeOK
    <2>2. /\ arg[q].subject \in Subjects /\ arg[q].request \in Requests
          /\ arg[q].month \in Months
        BY <1>0, <2>1 DEF TypeOK, Args
    <2>3. arg[q].month > swept /\ arg[q].month # swept
        BY <2>1, <2>2, BoundsAssumption DEF Months
    <2>4. PICK d \in members[Root(arg[q].subject)] :
              charged[d][arg[q].request] = arg[q].month
        BY <1>0, <2>1, <2>2, <2>3, BoundsAssumption DEF MarkersKept, Months
    <2>5. d \in Subjects
        BY <1>0, <2>2, <2>4, RootVersionsType DEF TypeOK
    <2>6. charged'[d][arg[q].request] = arg[q].month
        BY <2>1, <2>2, <2>3, <2>4, <2>5
    <2> QED
        BY <2>1, <2>4, <2>6 DEF Root
<1>10. CASE UNCHANGED vars
    BY <1>10, <1>s DEF vars
<1> QED
    BY <1>0, StepCases, <1>1, <1>2, <1>3, <1>4, <1>5, <1>6, <1>7, <1>8, <1>9,
       <1>10

LEMMA ChargeInvStep == ChargeInv /\ [Next]_vars => ChargeInv'
<1> SUFFICES ASSUME ChargeInv, [Next]_vars PROVE ChargeInv'
    OBVIOUS
<1>1. TypeOK' /\ GroupsConsistent' /\ ClocksAgree' /\ PastIdentity'
    BY TypeOKStep, GroupsStep, ClocksStep, PastStep DEF ChargeInv
<1> QED
    BY <1>1, LeaseSoundStep, MarkersKeptStep DEF ChargeInv

\* A charge leaves a marker that its group finds until the month is swept, and
\* an undisturbed lease means its request was not charged: for every number of
\* subjects, requests, workers, links and lost replies.
THEOREM MarkersAndLeases == Spec => [](MarkersKept /\ LeaseSound)
<1>1. ChargeInv => MarkersKept /\ LeaseSound
    BY DEF ChargeInv
<1> QED
    BY <1>1, InitChargeInv, ChargeInvStep, PTL DEF Spec

\* A charging step, seen from an older charge of the same group and request.
LEMMA ChargedOnceStep ==
    ASSUME ChargeInv, [Next]_vars,
           NEW p \in ledger' \ ledger, NEW q \in ledger,
           arg[q].request = arg[p].request,
           Root(arg[q].subject) = Root(arg[p].subject)
    PROVE  arg[q].month < swept
<1>0. TypeOK /\ GroupsConsistent /\ MarkersKept /\ LeaseSound
    BY DEF ChargeInv
<1>1. ledger' # ledger
    OBVIOUS
<1>2. \E c \in Calls, reply \in BOOLEAN : DispatchCharge(c, reply)
    BY <1>0, <1>1, StepCases DEF vars, Arrive, Refuse, Reserve, LinkArrive,
       LinkEnd, LinkCommit, LeaseExpire, MonthEnd, Sweep
<1>a. PICK c \in Calls, reply \in BOOLEAN : DispatchCharge(c, reply)
    BY <1>2
<1>b. c = p
    BY <1>a DEF DispatchCharge
<1>c. p \in Calls /\ q \in Calls
    BY <1>0, <1>b DEF TypeOK
<1>3. ~AlreadyCharged(arg[p].subject, arg[p].request)
    BY <1>0, <1>a, <1>b, <1>c DEF DispatchCharge, MayCharge, LeaseSound
<1>4. arg[q].month \in Months /\ swept \in Months
    BY <1>0, <1>c DEF TypeOK, Args
<1>5. ~(arg[q].month >= swept)
    BY <1>0, <1>3, <1>4, BoundsAssumption DEF MarkersKept, AlreadyCharged, Months, NoMonth
<1> QED
    BY <1>4, <1>5, BoundsAssumption DEF Months

\* A request id is charged at most once to a quota group while the month of
\* its charge is on record, whichever alias, worker, retry or lost reply.
THEOREM RequestsChargedOnce == Spec => ChargedOnce
<1>1. ChargeInv /\ [Next]_vars =>
          [\A p \in ledger' \ ledger, q \in ledger :
             (/\ arg[q].request = arg[p].request
              /\ Root(arg[q].subject) = Root(arg[p].subject))
                 => arg[q].month < swept]_vars
    BY ChargedOnceStep
<1> QED
    BY <1>1, InitChargeInv, ChargeInvStep, PTL DEF Spec, ChargedOnce

-----------------------------------------------------------------------------
(* That the counters count the charges, that no group is charged beyond the *)
(* limit of its plan, and that the store implements the ledger of           *)
(* QuotaLedger - when every reserve and link commits in the month whose     *)
(* clock it read (MonthEndStraddle is FALSE).  The run AiAllowance_straddle *)
(* shows a group charged beyond its limit when one does not.                *)

\* A call or a link between its clock reading and its commit is of this month.
CommitsInTime ==
    /\ \A p \in Calls : state[p] = "arrived" => arg[p].month = month
    /\ \A l \in Linkers : linker[l] \in Links => linker[l].month = month

\* Nothing was counted in a month that has not come.
NothingAhead == \A s \in Subjects, m \in Months : m > month => counter[s][m] = 0

UsageInv == CommitsInTime /\ NothingAhead /\ UsageConserved

LedgerInv == ChargeInv /\ UsageInv

\* The charges of the group r in the month m once a step is taken.
SpentAfter(r, m) ==
    {p \in ledger' : /\ parent'[parent'[arg'[p].subject]] = r
                     /\ arg'[p].month = m}

LEMMA SpentFinite ==
    ASSUME TypeOK, NEW r, NEW m
    PROVE  /\ IsFiniteSet(SpentBy(r, m)) /\ SpentBy(r, m) \subseteq Calls
           /\ Cardinality(SpentBy(r, m)) \in Nat
<1>1. IsFiniteSet(Calls) /\ SpentBy(r, m) \subseteq Calls
    BY FiniteAssumption DEF TypeOK, SpentBy
<1>2. IsFiniteSet(SpentBy(r, m))
    BY <1>1, FS_Subset
<1> QED
    BY <1>1, <1>2, FS_CardinalityType, Zenon

LEMMA InitLedgerInv == Init => LedgerInv
<1> SUFFICES ASSUME Init PROVE UsageInv
    BY InitChargeInv DEF LedgerInv
<1>1. CommitsInTime /\ NothingAhead
    BY NothingAssumption DEF Init, CommitsInTime, NothingAhead
<1>2. \A r, m : SpentBy(r, m) = {}
    BY DEF Init, SpentBy
<1>3. UsageConserved
    <2>1. \A s \in Subjects : counter[s][month] = 0
        BY BoundsAssumption DEF Init, Months
    <2>2. Cardinality({}) = 0
        BY FS_EmptySet, Zenon
    <2>3. \A q \in Calls : state[q] # "owner"
        BY DEF Init
    <2> QED
        BY <1>2, <2>1, <2>2, <2>3 DEF UsageConserved
<1> QED
    BY <1>1, <1>3 DEF UsageInv

\* Charges are spent by the same groups as before.
LEMMA SpentKept ==
    ASSUME \A s \in Subjects : Root(s)' = Root(s), ledger' = ledger,
           TypeOK, \A q \in ledger : arg'[q] = arg[q]
    PROVE  \A r, m : SpentBy(r, m)' = SpentBy(r, m)
<1>1. \A q \in ledger : arg[q].subject \in Subjects
    BY DEF TypeOK, Args
<1>2. \A q \in ledger : (Root(arg[q].subject))' = Root(arg[q].subject)
    BY <1>1
<1> QED
    BY <1>2 DEF SpentBy

\* A step that charges nobody, in no other group, and lets nobody own a lease
\* anew keeps the counts.
LEMMA UsageKept ==
    ASSUME LedgerInv, UNCHANGED <<parent, generation, counter, month, ledger>>,
           \A q \in ledger : arg'[q] = arg[q],
           \A q \in Calls : state'[q] = "owner" =>
               state[q] = "owner" /\ arg'[q] = arg[q] /\ seen'[q] = seen[q]
    PROVE  UsageConserved'
<1>1. \A s : (Root(s))' = Root(s) /\ (Versions(s))' = Versions(s)
    BY DEF Root, Versions, Chain
<1>2. \A r, m : SpentBy(r, m)' = SpentBy(r, m)
    BY <1>1, SpentKept DEF LedgerInv, ChargeInv
<1>3. ASSUME NEW s \in Subjects, parent'[s] = s
      PROVE  counter'[s][month'] = Cardinality(SpentBy(s, month))'
    BY <1>2, <1>3 DEF LedgerInv, UsageInv, UsageConserved
<1>4. ASSUME NEW q \in Calls, state'[q] = "owner", SameIdentity(q)'
      PROVE  Used(q)' = Cardinality(SpentBy(seen[q].root, arg[q].month))'
    <2>1. SameIdentity(q)
        BY <1>1, <1>4 DEF SameIdentity
    <2> QED
        BY <1>2, <1>4, <2>1 DEF LedgerInv, UsageInv, UsageConserved, Used
<1> QED
    BY <1>3, <1>4 DEF UsageConserved

-----------------------------------------------------------------------------
(* The steps that change a count.                                          *)

LEMMA InTimeStep ==
    ASSUME LedgerInv, ~MonthEndStraddle, [Next]_vars
    PROVE  CommitsInTime' /\ NothingAhead'
<1> USE DEF identity, clocks
<1>0. TypeOK /\ ClocksAgree /\ CommitsInTime /\ NothingAhead
    BY DEF LedgerInv, ChargeInv, UsageInv
<1>t. month \in Nat /\ swept \in Nat
    BY <1>0, BoundsAssumption DEF TypeOK, Months
\* A step within the month that adds no usage to a later one.
<1>s. ASSUME month' = month,
             \A q \in Calls : state'[q] = "arrived" =>
                 arg'[q].month = month
                 \/ (state[q] = "arrived" /\ arg'[q] = arg[q]),
             \A l \in Linkers : linker'[l] \in Links =>
                 linker'[l].month = month \/ linker'[l] = linker[l],
             \A s \in Subjects, m \in Months :
                 m > month => counter'[s][m] = counter[s][m]
                              \/ counter'[s][m] = 0
      PROVE  CommitsInTime' /\ NothingAhead'
    BY <1>0, <1>s DEF CommitsInTime, NothingAhead
<1>1. CASE \E p \in Calls : Arrive(p)
    <2>1. \A q \in Calls : arg'[q].month = month
                            \/ (state'[q] = state[q] /\ arg'[q] = arg[q])
        BY <1>0, <1>1 DEF Arrive, TypeOK
    <2> QED
        BY <1>1, <1>s, <2>1 DEF Arrive
<1>2. CASE \E p \in Calls : \E d \in Finished : Refuse(p, d)
    <2> PICK p \in Calls, d \in Finished : Refuse(p, d)
        BY <1>2
    <2>1. \A q \in Calls : state'[q] = "arrived" =>
              state[q] = "arrived" /\ arg'[q] = arg[q]
        BY <1>0 DEF Refuse, TypeOK, Finished
    <2> QED
        BY <1>s, <2>1 DEF Refuse
<1>3. CASE \E p \in Calls, reply \in BOOLEAN : Reserve(p, reply)
    <2>1. \A q \in Calls : state'[q] = "arrived" =>
              state[q] = "arrived" /\ arg'[q] = arg[q]
        BY <1>0, <1>3 DEF Reserve, Captured, TypeOK
    <2> QED
        BY <1>3, <1>s, <2>1 DEF Reserve
<1>4. CASE \E p \in Calls, reply \in BOOLEAN : DispatchCharge(p, reply)
    <2> PICK p \in Calls, reply \in BOOLEAN : DispatchCharge(p, reply)
        BY <1>4
    <2>1. \A q \in Calls : state'[q] = "arrived" =>
              state[q] = "arrived" /\ arg'[q] = arg[q]
        BY <1>0 DEF DispatchCharge, TypeOK
    <2>2. /\ arg[p].month \in Months /\ arg[p].month <= month
          /\ seen[p].root \in Subjects
        BY <1>0 DEF DispatchCharge, MayCharge, ClocksAgree, TypeOK, Args, Seen
    <2>3. \A s \in Subjects, m \in Months :
              m > month => counter'[s][m] = counter[s][m]
        <3>1. counter' = [counter EXCEPT ![seen[p].root][arg[p].month] = @ + 1]
            BY DEF DispatchCharge
        <3>2. \A m \in Months : m > month => m # arg[p].month
            BY <1>t, <2>2, BoundsAssumption DEF Months
        <3> QED
            BY <1>0, <2>2, <3>1, <3>2 DEF TypeOK
    <2> QED
        BY <1>s, <2>1, <2>3 DEF DispatchCharge
<1>5. CASE \E l \in Linkers : LinkArrive(l) \/ LinkEnd(l)
    BY <1>0, <1>5, <1>s, NothingAssumption DEF LinkArrive, LinkEnd, TypeOK
<1>6. CASE \E l \in Linkers, reply \in BOOLEAN : LinkCommit(l, reply)
    <2> PICK l \in Linkers, reply \in BOOLEAN : LinkCommit(l, reply)
        BY <1>6
    <2> DEFINE i  == linker[l].installation
               a  == linker[l].account
               ri == parent[i]
               ra == parent[a]
    <2>1. linker[l].month = month
        BY <1>0 DEF LinkCommit, CommitsInTime
    <2>2. ri \in Subjects /\ ra \in Subjects /\ Root(i) = ri /\ Root(a) = ra
        BY LinkMerges DEF LedgerInv, ChargeInv
    <2>3. counter' = IF ri = ra THEN counter
                     ELSE [counter EXCEPT
                              ![ra][month] = @ + counter[ri][month],
                              ![ri][month] = 0]
        BY <2>1, <2>2 DEF LinkCommit
    <2> HIDE DEF i, a, ri, ra
    <2>4. \A s \in Subjects, m \in Months :
              m > month => counter'[s][m] = counter[s][m]
        BY <1>0, <1>t, <2>2, <2>3 DEF TypeOK
    <2>5. /\ month' = month /\ state' = state /\ arg' = arg
          /\ \A k \in Linkers : linker'[k] \in {linker[k], Nothing}
        BY <1>0 DEF LinkCommit, TypeOK
    <2> QED
        BY <1>s, <2>4, <2>5, NothingAssumption
<1>7. CASE \E s \in Subjects, r \in Requests : LeaseExpire(s, r)
    BY <1>7, <1>s DEF LeaseExpire
<1>8. CASE MonthEnd
    <2>1. /\ month' = month + 1 /\ ~InFlightMonth(month)
          /\ UNCHANGED <<counter, state, arg, linker>>
        BY <1>8 DEF MonthEnd
    <2>2. /\ \A q \in Calls : state[q] # "arrived"
          /\ \A l \in Linkers : linker[l] \notin Links
        BY <1>0, <2>1 DEF InFlightMonth, CommitsInTime
    <2>3. \A m \in Months : m > month + 1 => m > month
        BY <1>t, BoundsAssumption DEF Months
    <2> QED
        BY <1>0, <2>1, <2>2, <2>3 DEF CommitsInTime, NothingAhead
<1>9. CASE Sweep
    <2>1. \A s \in Subjects, m \in Months :
              counter'[s][m] \in {counter[s][m], 0}
        BY <1>0, <1>9 DEF Sweep, TypeOK
    <2> QED
        BY <1>9, <1>s, <2>1 DEF Sweep
<1>10. CASE UNCHANGED vars
    BY <1>10, <1>s DEF vars
<1> QED
    BY <1>0, StepCases, <1>1, <1>2, <1>3, <1>4, <1>5, <1>6, <1>7, <1>8, <1>9,
       <1>10

\* A charge is new, is compared with the charges of its whole group, and adds
\* itself to that group in the month of its reservation, and to nothing else.
LEMMA ChargeCounts ==
    ASSUME LedgerInv, NEW p \in Calls, NEW reply \in BOOLEAN,
           DispatchCharge(p, reply)
    PROVE  /\ p \notin ledger /\ ledger' = ledger \cup {p}
           /\ UNCHANGED <<parent, generation, month, arg, seen>>
           /\ arg[p] \in Args /\ seen[p].root \in Subjects
           /\ Root(arg[p].subject) = seen[p].root
           /\ Used(p) = Cardinality(SpentBy(seen[p].root, arg[p].month))
           /\ Used(p) < AllowanceLimit[arg[p].plan]
           /\ SpentAfter(seen[p].root, arg[p].month) =
                 SpentBy(seen[p].root, arg[p].month) \cup {p}
           /\ \A r, m : r # seen[p].root \/ m # arg[p].month =>
                            SpentAfter(r, m) = SpentBy(r, m)
<1>0. TypeOK /\ ClocksAgree /\ MarkersKept /\ LeaseSound /\ UsageConserved
    BY DEF LedgerInv, ChargeInv, UsageInv
<1>1. /\ ledger' = ledger \cup {p} /\ MayCharge(p)
      /\ UNCHANGED <<parent, generation, month, arg, seen>>
      /\ Used(p) < AllowanceLimit[arg[p].plan]
    BY DEF DispatchCharge, identity, clocks
<1>2. /\ state[p] = "owner" /\ SameIdentity(p)
      /\ lease[seen[p].root][arg[p].request] = p
      /\ Root(arg[p].subject) = seen[p].root
    BY <1>1 DEF MayCharge, SameIdentity
<1>3. arg[p] \in Args /\ seen[p].root \in Subjects
    BY <1>0, <1>2 DEF TypeOK, Seen
<1>4. p \notin ledger
    <2> SUFFICES ASSUME p \in ledger PROVE FALSE
        OBVIOUS
    <2>1. arg[p].month \in Nat /\ swept \in Nat /\ swept <= arg[p].month
        BY <1>0, <1>2, <1>3, BoundsAssumption DEF ClocksAgree, TypeOK, Args, Months
    <2>2. PICK d \in members[Root(arg[p].subject)] :
              charged[d][arg[p].request] = arg[p].month
        BY <1>0, <2>1 DEF MarkersKept
    <2>3. AlreadyCharged(arg[p].subject, arg[p].request)
        BY <2>1, <2>2 DEF AlreadyCharged, NoMonth
    <2> QED
        BY <1>0, <1>2, <2>3 DEF LeaseSound
<1>5. Used(p) = Cardinality(SpentBy(seen[p].root, arg[p].month))
    BY <1>0, <1>2 DEF UsageConserved
<1>6. \A r, m : SpentAfter(r, m) =
          {q \in ledger \cup {p} : Root(arg[q].subject) = r /\ arg[q].month = m}
    BY <1>1 DEF SpentAfter, SpentBy, Root
<1>7. SpentAfter(seen[p].root, arg[p].month) =
          SpentBy(seen[p].root, arg[p].month) \cup {p}
    <2>1. SpentAfter(seen[p].root, arg[p].month) =
              {q \in ledger \cup {p} : Root(arg[q].subject) = seen[p].root
                                      /\ arg[q].month = arg[p].month}
        BY <1>1 DEF SpentAfter, SpentBy, Root
    <2> QED
        BY <1>2, <2>1 DEF SpentBy
<1>8. ASSUME NEW r, NEW m, r # seen[p].root \/ m # arg[p].month
      PROVE  SpentAfter(r, m) = SpentBy(r, m)
    BY <1>2, <1>6, <1>8 DEF SpentBy
<1> QED
    BY <1>1, <1>2, <1>3, <1>4, <1>5, <1>7, <1>8

LEMMA UsageCharge ==
    ASSUME LedgerInv, NEW p \in Calls, NEW reply \in BOOLEAN,
           DispatchCharge(p, reply)
    PROVE  UsageConserved'
<1> DEFINE root == seen[p].root
           m    == arg[p].month
<1>0. TypeOK /\ UsageConserved
    BY DEF LedgerInv, ChargeInv, UsageInv
<1>1. /\ p \notin ledger
      /\ UNCHANGED <<parent, generation, month, arg, seen>>
      /\ m \in Months /\ root \in Subjects
      /\ Root(arg[p].subject) = root
      /\ counter[root][m] = Cardinality(SpentBy(root, m))
      /\ SpentAfter(root, m) = SpentBy(root, m) \cup {p}
      /\ \A r, n : r # root \/ n # m => SpentAfter(r, n) = SpentBy(r, n)
    BY ChargeCounts DEF Args, Used
<1>2. /\ counter' = [counter EXCEPT ![root][m] = @ + 1]
      /\ \A q \in Calls : state'[q] = "owner" => state[q] = "owner"
    BY <1>0 DEF DispatchCharge, MayCharge, TypeOK
<1> HIDE DEF root, m
<1>3. counter'[root][m] = Cardinality(SpentAfter(root, m))
    <2>1. IsFiniteSet(SpentBy(root, m)) /\ Cardinality(SpentBy(root, m)) \in Nat
        BY <1>0, SpentFinite, Zenon
    <2>2. p \notin SpentBy(root, m)
        BY <1>1 DEF SpentBy
    <2>3. Cardinality(SpentBy(root, m) \cup {p})
              = Cardinality(SpentBy(root, m)) + 1
        BY <2>1, <2>2, FS_AddElement
    <2>4. counter'[root][m] = counter[root][m] + 1
        BY <1>0, <1>1, <1>2 DEF TypeOK
    <2> QED
        BY <1>1, <2>3, <2>4
<1>4. \A s \in Subjects, n \in Months :
          counter[s][n] = Cardinality(SpentBy(s, n))
              => counter'[s][n] = Cardinality(SpentAfter(s, n))
    <2> SUFFICES ASSUME NEW s \in Subjects, NEW n \in Months,
                        counter[s][n] = Cardinality(SpentBy(s, n))
                 PROVE  counter'[s][n] = Cardinality(SpentAfter(s, n))
        OBVIOUS
    <2>1. CASE s = root /\ n = m
        BY <1>3, <2>1
    <2>2. CASE ~(s = root /\ n = m)
        <3>1. SpentAfter(s, n) = SpentBy(s, n)
            BY <1>1, <2>2
        <3>2. counter'[s][n] = counter[s][n]
            BY <1>0, <1>1, <1>2, <2>2 DEF TypeOK
        <3> QED
            BY <3>1, <3>2
    <2> QED
        BY <2>1, <2>2
<1>5. ASSUME NEW s \in Subjects, parent'[s] = s
      PROVE  counter'[s][month'] = Cardinality(SpentBy(s, month))'
    <2>1. counter[s][month] = Cardinality(SpentBy(s, month)) /\ month \in Months
        BY <1>0, <1>1, <1>5 DEF UsageConserved, TypeOK
    <2>2. counter'[s][month] = Cardinality(SpentAfter(s, month))
        BY <1>4, <2>1
    <2> QED
        BY <1>1, <2>2 DEF SpentAfter, SpentBy, Root
<1>6. ASSUME NEW q \in Calls, state'[q] = "owner", SameIdentity(q)'
      PROVE  Used(q)' = Cardinality(SpentBy(seen[q].root, arg[q].month))'
    <2>1. state[q] = "owner" /\ SameIdentity(q)
        BY <1>1, <1>2, <1>6 DEF SameIdentity, Root, Versions, Chain
    <2>2. seen[q].root \in Subjects /\ arg[q].month \in Months
        BY <1>0, <2>1 DEF TypeOK, Seen, Args
    <2>3. counter[seen[q].root][arg[q].month]
              = Cardinality(SpentBy(seen[q].root, arg[q].month))
        BY <1>0, <2>1 DEF UsageConserved, Used
    <2> QED
        BY <1>1, <1>4, <2>2, <2>3 DEF Used, SpentAfter, SpentBy, Root
<1> QED
    BY <1>5, <1>6 DEF UsageConserved

\* A link that merges two groups gives the charges of the installation's to
\* the account's.
LEMMA LinkCounts ==
    ASSUME LedgerInv, NEW l \in Linkers, NEW reply \in BOOLEAN,
           LinkCommit(l, reply)
    PROVE  LET ri == parent[linker[l].installation]
               ra == parent[linker[l].account]
           IN  /\ ri \in Subjects /\ ra \in Subjects
               /\ parent[ri] = ri /\ parent[ra] = ra
               /\ \A d \in Subjects :
                     parent'[d] = IF parent[d] = ri THEN ra ELSE parent[d]
               /\ \A m : SpentAfter(ra, m) = SpentBy(ra, m) \cup SpentBy(ri, m)
               /\ \A r, m : r \notin {ri, ra} => SpentAfter(r, m) = SpentBy(r, m)
               /\ UNCHANGED <<month, state, arg, seen, ledger>>
               /\ counter' = IF ri = ra THEN counter
                             ELSE [counter EXCEPT
                                      ![ra][month] = @ + counter[ri][month],
                                      ![ri][month] = 0]
<1> DEFINE i  == linker[l].installation
           a  == linker[l].account
           ri == parent[i]
           ra == parent[a]
<1>0. TypeOK /\ GroupsConsistent /\ CommitsInTime
    BY DEF LedgerInv, ChargeInv, UsageInv
<1>1. /\ i \in Subjects /\ a \in Subjects
      /\ ri \in Subjects /\ ra \in Subjects
      /\ parent[ri] = ri /\ parent[ra] = ra
      /\ Root(i) = ri /\ Root(a) = ra
      /\ \A d \in Subjects :
            parent'[d] = IF parent[d] = ri THEN ra ELSE parent[d]
    BY <1>0, LinkMerges
<1>2. /\ linker[l].month = month
      /\ UNCHANGED <<month, state, arg, seen, ledger>>
    BY <1>0 DEF LinkCommit, CommitsInTime, clocks
<1>3. counter' = IF ri = ra THEN counter
                 ELSE [counter EXCEPT ![ra][month] = @ + counter[ri][month],
                                      ![ri][month] = 0]
    BY <1>1, <1>2 DEF LinkCommit
<1> HIDE DEF i, a, ri, ra
<1>4. \A q \in ledger : arg[q].subject \in Subjects
    BY <1>0 DEF TypeOK, Args
<1>5. \A d \in Subjects : Root(d) = parent[d]
    BY <1>0, FlatGroups
<1>6. \A d \in Subjects : parent[d] \in Subjects /\ parent[parent[d]] = parent[d]
    BY <1>0, FlatGroups
<1>7. \A d \in Subjects : parent'[parent'[d]] = parent'[d]
    BY <1>1, <1>6
<1>8. \A r, m : SpentAfter(r, m) =
          {q \in ledger : parent'[arg[q].subject] = r /\ arg[q].month = m}
    BY <1>2, <1>4, <1>7 DEF SpentAfter, SpentBy, Root
<1>9. \A r, m : SpentBy(r, m) =
          {q \in ledger : parent[arg[q].subject] = r /\ arg[q].month = m}
    BY <1>4, <1>5 DEF SpentBy
<1>10. \A m : SpentAfter(ra, m) = SpentBy(ra, m) \cup SpentBy(ri, m)
    BY <1>1, <1>4, <1>8, <1>9
<1>11. \A r, m : r \notin {ri, ra} => SpentAfter(r, m) = SpentBy(r, m)
    BY <1>1, <1>4, <1>8, <1>9
<1> QED
    BY <1>1, <1>2, <1>3, <1>10, <1>11 DEF i, a, ri, ra

LEMMA UsageLink ==
    ASSUME LedgerInv, NEW l \in Linkers, NEW reply \in BOOLEAN,
           LinkCommit(l, reply)
    PROVE  UsageConserved'
<1> DEFINE ri == parent[linker[l].installation]
           ra == parent[linker[l].account]
<1>0. /\ TypeOK /\ GroupsConsistent /\ PastIdentity /\ UsageConserved
      /\ month \in Months
    BY DEF LedgerInv, ChargeInv, UsageInv, TypeOK
<1>1. /\ ri \in Subjects /\ ra \in Subjects
      /\ parent[ri] = ri /\ parent[ra] = ra
      /\ \A d \in Subjects :
            parent'[d] = IF parent[d] = ri THEN ra ELSE parent[d]
      /\ SpentAfter(ra, month) = SpentBy(ra, month) \cup SpentBy(ri, month)
      /\ \A r, m : r \notin {ri, ra} => SpentAfter(r, m) = SpentBy(r, m)
      /\ UNCHANGED <<month, state, arg, seen, ledger>>
      /\ counter' = IF ri = ra THEN counter
                    ELSE [counter EXCEPT
                             ![ra][month] = @ + counter[ri][month],
                             ![ri][month] = 0]
    BY LinkCounts
<1>2. ASSUME NEW q \in Calls, state[q] = "owner", SameIdentity(q)'
      PROVE  /\ SameIdentity(q) /\ seen[q].root \in Subjects
             /\ seen[q].root \notin {ri, ra} /\ arg[q].month \in Months
    BY <1>0, <1>2, LinkUntouched, FlatGroups DEF TypeOK, Args
<1> HIDE DEF ri, ra
<1>3. \A s \in Subjects, m \in Months :
          s \notin {ri, ra} => counter'[s][m] = counter[s][m]
    BY <1>0, <1>1 DEF TypeOK
<1>4. counter'[ra][month] = Cardinality(SpentAfter(ra, month))
    <2> DEFINE A == SpentBy(ra, month)
               B == SpentBy(ri, month)
    <2>1. counter[ra][month] = Cardinality(A) /\ counter[ri][month] = Cardinality(B)
        BY <1>0, <1>1 DEF UsageConserved
    <2>2. CASE ri = ra
        BY <1>1, <2>1, <2>2
    <2>3. CASE ri # ra
        <3>1. /\ IsFiniteSet(A) /\ Cardinality(A) \in Nat
              /\ IsFiniteSet(B) /\ Cardinality(B) \in Nat
            BY <1>0, SpentFinite, Zenon
        <3>2. A \cap B = {}
            BY <2>3 DEF SpentBy
        <3> HIDE DEF A, B
        <3>3. Cardinality(A \cup B) =
                  Cardinality(A) + Cardinality(B) - Cardinality(A \cap B)
            BY <3>1, FS_Union, Zenon
        <3>4. Cardinality(A \cap B) = 0
            BY <3>2, FS_EmptySet, Zenon
        <3>5. Cardinality(A \cup B) = Cardinality(A) + Cardinality(B)
            BY <3>1, <3>3, <3>4
        <3>6. counter'[ra][month] = counter[ra][month] + counter[ri][month]
            BY <1>0, <1>1, <2>3 DEF TypeOK
        <3> QED
            BY <1>1, <2>1, <3>5, <3>6 DEF A, B
    <2> QED
        BY <2>2, <2>3
<1>5. ASSUME NEW s \in Subjects, parent'[s] = s
      PROVE  counter'[s][month'] = Cardinality(SpentBy(s, month))'
    <2>1. counter'[s][month] = Cardinality(SpentAfter(s, month))
        <3>1. CASE s = ra
            BY <1>4, <3>1
        <3>2. CASE s # ra
            <4>1. s # ri /\ parent[s] = s
                BY <1>1, <1>5, <3>2
            <4>2. SpentAfter(s, month) = SpentBy(s, month)
                BY <1>1, <3>2, <4>1
            <4>3. counter'[s][month] = counter[s][month]
                BY <1>0, <1>3, <3>2, <4>1
            <4>4. counter[s][month] = Cardinality(SpentBy(s, month))
                BY <1>0, <4>1 DEF UsageConserved
            <4> QED
                BY <4>2, <4>3, <4>4
        <3> QED
            BY <3>1, <3>2
    <2> QED
        BY <1>1, <2>1 DEF SpentAfter, SpentBy, Root
<1>6. ASSUME NEW q \in Calls, state'[q] = "owner", SameIdentity(q)'
      PROVE  Used(q)' = Cardinality(SpentBy(seen[q].root, arg[q].month))'
    <2>1. /\ state[q] = "owner" /\ SameIdentity(q)
          /\ seen[q].root \in Subjects /\ seen[q].root \notin {ri, ra}
          /\ arg[q].month \in Months
        BY <1>1, <1>2, <1>6
    <2>2. counter[seen[q].root][arg[q].month]
              = Cardinality(SpentBy(seen[q].root, arg[q].month))
        BY <1>0, <2>1 DEF UsageConserved, Used
    <2>3. counter'[seen[q].root][arg[q].month]
              = Cardinality(SpentAfter(seen[q].root, arg[q].month))
        <3>1. SpentAfter(seen[q].root, arg[q].month)
                  = SpentBy(seen[q].root, arg[q].month)
            BY <1>1, <2>1
        <3>2. counter'[seen[q].root][arg[q].month]
                  = counter[seen[q].root][arg[q].month]
            BY <1>3, <2>1
        <3> QED
            BY <2>2, <3>1, <3>2
    <2> QED
        BY <1>1, <2>3 DEF Used, SpentAfter, SpentBy, Root
<1> QED
    BY <1>5, <1>6 DEF UsageConserved

LEMMA UsageReserve ==
    ASSUME LedgerInv, NEW p \in Calls, NEW reply \in BOOLEAN,
           Reserve(p, reply)
    PROVE  UsageConserved'
<1>0. TypeOK /\ GroupsConsistent /\ UsageConserved /\ CommitsInTime
    BY DEF LedgerInv, ChargeInv, UsageInv
<1>1. /\ UNCHANGED <<parent, generation, counter, month, arg, ledger>>
      /\ state[p] = "arrived"
      /\ \A q \in Calls \ {p} : state'[q] = state[q] /\ seen'[q] = seen[q]
      /\ state'[p] = "owner" => seen'[p].root = Root(arg[p].subject)
    BY <1>0 DEF Reserve, Captured, TypeOK, identity, clocks
<1>2. \A r, m : SpentAfter(r, m) = SpentBy(r, m)
    BY <1>1 DEF SpentAfter, SpentBy, Root
<1>3. ASSUME NEW s \in Subjects, parent'[s] = s
      PROVE  counter'[s][month'] = Cardinality(SpentBy(s, month))'
    <2>1. counter[s][month] = Cardinality(SpentAfter(s, month))
        BY <1>0, <1>1, <1>2, <1>3 DEF UsageConserved
    <2> QED
        BY <1>1, <2>1 DEF SpentAfter, SpentBy, Root
<1>4. ASSUME NEW q \in Calls, state'[q] = "owner", SameIdentity(q)'
      PROVE  Used(q)' = Cardinality(SpentBy(seen[q].root, arg[q].month))'
    <2>1. counter[seen'[q].root][arg[q].month]
              = Cardinality(SpentBy(seen'[q].root, arg[q].month))
        <3>1. CASE q = p
            <4>1. arg[p].month = month /\ arg[p].subject \in Subjects
                BY <1>0, <1>1 DEF CommitsInTime, TypeOK, Args
            <4>2. /\ Root(arg[p].subject) \in Subjects
                  /\ parent[Root(arg[p].subject)] = Root(arg[p].subject)
                BY <1>0, <4>1, FlatGroups
            <4> QED
                BY <1>0, <1>1, <1>4, <3>1, <4>1, <4>2 DEF UsageConserved
        <3>2. CASE q # p
            <4>1. state[q] = "owner" /\ seen'[q] = seen[q] /\ SameIdentity(q)
                BY <1>1, <1>4, <3>2 DEF SameIdentity, Root, Versions, Chain
            <4> QED
                BY <1>0, <4>1 DEF UsageConserved, Used
        <3> QED
            BY <3>1, <3>2
    <2>2. counter[seen'[q].root][arg[q].month]
              = Cardinality(SpentAfter(seen'[q].root, arg[q].month))
        BY <1>2, <2>1
    <2>3. SpentBy(seen[q].root, arg[q].month)'
              = SpentAfter(seen'[q].root, arg[q].month)
        BY <1>1 DEF SpentAfter, SpentBy, Root
    <2> QED
        BY <1>1, <2>2, <2>3 DEF Used
<1> QED
    BY <1>3, <1>4 DEF UsageConserved

LEMMA UsageMonthEnd ==
    ASSUME LedgerInv, MonthEnd
    PROVE  UsageConserved'
<1>0. TypeOK /\ UsageConserved /\ NothingAhead /\ ClocksAgree
    BY DEF LedgerInv, ChargeInv, UsageInv
<1>1. /\ UNCHANGED <<parent, generation, counter, state, arg, seen, ledger>>
      /\ month' = month + 1 /\ month \in Months /\ month + 1 \in Months
      /\ month \in Nat
    BY <1>0, BoundsAssumption DEF MonthEnd, TypeOK, Months, identity
<1>2. \A r, m : SpentAfter(r, m) = SpentBy(r, m)
    BY <1>1 DEF SpentAfter, SpentBy, Root
<1>3. \A r : SpentBy(r, month + 1) = {}
    <2>1. \A q \in ledger : arg[q].month \in Months /\ arg[q].month <= month
        BY <1>0 DEF ClocksAgree, TypeOK, Args
    <2>2. \A q \in ledger : arg[q].month # month + 1
        BY <1>1, <2>1, BoundsAssumption DEF Months
    <2> QED
        BY <2>2 DEF SpentBy
<1>4. ASSUME NEW s \in Subjects
      PROVE  counter'[s][month'] = Cardinality(SpentBy(s, month))'
    <2>1. counter[s][month + 1] = 0
        BY <1>0, <1>1 DEF NothingAhead
    <2>2. Cardinality({}) = 0
        BY FS_EmptySet, Zenon
    <2>3. counter[s][month + 1] = Cardinality(SpentAfter(s, month + 1))
        BY <1>2, <1>3, <2>1, <2>2
    <2>4. SpentBy(s, month)' = SpentAfter(s, month + 1)
        BY <1>1 DEF SpentAfter, SpentBy, Root
    <2> QED
        BY <1>1, <2>3, <2>4
<1>5. ASSUME NEW q \in Calls, state'[q] = "owner", SameIdentity(q)'
      PROVE  Used(q)' = Cardinality(SpentBy(seen[q].root, arg[q].month))'
    <2>1. state[q] = "owner" /\ SameIdentity(q)
        BY <1>1, <1>5 DEF SameIdentity, Root, Versions, Chain
    <2>2. counter[seen[q].root][arg[q].month]
              = Cardinality(SpentAfter(seen[q].root, arg[q].month))
        BY <1>0, <1>2, <2>1 DEF UsageConserved, Used
    <2> QED
        BY <1>1, <2>2 DEF Used, SpentAfter, SpentBy, Root
<1> QED
    BY <1>4, <1>5 DEF UsageConserved

LEMMA UsageSweep ==
    ASSUME LedgerInv, Sweep
    PROVE  UsageConserved'
<1>0. TypeOK /\ UsageConserved
    BY DEF LedgerInv, ChargeInv, UsageInv
<1>1. /\ UNCHANGED <<parent, generation, month, state, arg, seen, ledger>>
      /\ counter' = [s \in Subjects |-> [counter[s] EXCEPT ![swept] = 0]]
      /\ swept < month /\ month \in Months /\ swept \in Months
      /\ \A q \in Calls : ~(state[q] = "owner" /\ arg[q].month = swept)
    BY <1>0 DEF Sweep, TypeOK, identity
<1>2. \A r, m : SpentAfter(r, m) = SpentBy(r, m)
    BY <1>1 DEF SpentAfter, SpentBy, Root
<1>3. \A s \in Subjects, m \in Months :
          m # swept => counter'[s][m] = counter[s][m]
    BY <1>0, <1>1 DEF TypeOK
<1>4. ASSUME NEW s \in Subjects, parent'[s] = s
      PROVE  counter'[s][month'] = Cardinality(SpentBy(s, month))'
    <2>1. month # swept
        BY <1>1, BoundsAssumption DEF Months
    <2>2. counter'[s][month] = Cardinality(SpentAfter(s, month))
        BY <1>0, <1>1, <1>2, <1>3, <1>4, <2>1 DEF UsageConserved
    <2> QED
        BY <1>1, <2>2 DEF SpentAfter, SpentBy, Root
<1>5. ASSUME NEW q \in Calls, state'[q] = "owner", SameIdentity(q)'
      PROVE  Used(q)' = Cardinality(SpentBy(seen[q].root, arg[q].month))'
    <2>1. state[q] = "owner" /\ SameIdentity(q)
        BY <1>1, <1>5 DEF SameIdentity, Root, Versions, Chain
    <2>2. /\ seen[q].root \in Subjects /\ arg[q].month \in Months
          /\ arg[q].month # swept
        BY <1>0, <1>1, <2>1 DEF TypeOK, Args, Seen
    <2>3. counter'[seen[q].root][arg[q].month]
              = Cardinality(SpentAfter(seen[q].root, arg[q].month))
        BY <1>0, <1>2, <1>3, <2>1, <2>2 DEF UsageConserved, Used
    <2> QED
        BY <1>1, <2>3 DEF Used, SpentAfter, SpentBy, Root
<1> QED
    BY <1>4, <1>5 DEF UsageConserved

LEMMA UsageStep ==
    ASSUME LedgerInv, [Next]_vars
    PROVE  UsageConserved'
<1> USE DEF identity, clocks
<1>0. TypeOK /\ ClocksAgree
    BY DEF LedgerInv, ChargeInv
<1>1. CASE \E p \in Calls : Arrive(p)
    <2> PICK p \in Calls : Arrive(p)
        BY <1>1
    <2>1. /\ UNCHANGED <<parent, generation, counter, month, ledger>>
          /\ \A q \in ledger : arg'[q] = arg[q]
        BY <1>0 DEF Arrive, ClocksAgree, TypeOK
    <2>2. \A q \in Calls : state'[q] = "owner" =>
              state[q] = "owner" /\ arg'[q] = arg[q] /\ seen'[q] = seen[q]
        BY <1>0 DEF Arrive, TypeOK
    <2> QED
        BY <2>1, <2>2, UsageKept
<1>2. CASE \E p \in Calls : \E d \in Finished : Refuse(p, d)
    <2> PICK p \in Calls, d \in Finished : Refuse(p, d)
        BY <1>2
    <2>1. /\ UNCHANGED <<parent, generation, counter, month, ledger>>
          /\ \A q \in ledger : arg'[q] = arg[q]
        BY <1>0 DEF Refuse, TypeOK
    <2>2. \A q \in Calls : state'[q] = "owner" =>
              state[q] = "owner" /\ arg'[q] = arg[q] /\ seen'[q] = seen[q]
        BY <1>0 DEF Refuse, Finished, TypeOK
    <2> QED
        BY <2>1, <2>2, UsageKept
<1>3. CASE \E p \in Calls, reply \in BOOLEAN : Reserve(p, reply)
    BY <1>3, UsageReserve
<1>4. CASE \E p \in Calls, reply \in BOOLEAN : DispatchCharge(p, reply)
    BY <1>4, UsageCharge
<1>5. CASE \E l \in Linkers : LinkArrive(l) \/ LinkEnd(l)
    BY <1>5, UsageKept DEF LinkArrive, LinkEnd
<1>6. CASE \E l \in Linkers, reply \in BOOLEAN : LinkCommit(l, reply)
    BY <1>6, UsageLink
<1>7. CASE \E s \in Subjects, r \in Requests : LeaseExpire(s, r)
    BY <1>7, UsageKept DEF LeaseExpire
<1>8. CASE MonthEnd
    BY <1>8, UsageMonthEnd
<1>9. CASE Sweep
    BY <1>9, UsageSweep
<1>10. CASE UNCHANGED vars
    BY <1>10, UsageKept DEF vars
<1> QED
    BY <1>0, StepCases, <1>1, <1>2, <1>3, <1>4, <1>5, <1>6, <1>7, <1>8, <1>9,
       <1>10

LEMMA LedgerInvStep ==
    ASSUME ~MonthEndStraddle
    PROVE  LedgerInv /\ [Next]_vars => LedgerInv'
<1> SUFFICES ASSUME LedgerInv, [Next]_vars PROVE LedgerInv'
    OBVIOUS
<1>1. ChargeInv'
    BY ChargeInvStep DEF LedgerInv
<1>2. UsageInv'
    BY InTimeStep, UsageStep DEF UsageInv
<1> QED
    BY <1>1, <1>2 DEF LedgerInv

\* When reserves and links commit in the month whose clock they read, a
\* counter is the number of charges of its group: after any links, expiries,
\* lost replies, month ends and sweeps, for every number of subjects, calls
\* and workers.
THEOREM UsageStaysSound ==
    ASSUME ~MonthEndStraddle
    PROVE  Spec => []UsageSound
<1>1. LedgerInv => UsageSound
    BY DEF LedgerInv, ChargeInv, UsageInv, UsageSound
<1>2. Init => LedgerInv
    BY InitLedgerInv
<1>3. LedgerInv /\ [Next]_vars => LedgerInv'
    BY LedgerInvStep
<1> QED
    BY <1>1, <1>2, <1>3, PTL DEF Spec

-----------------------------------------------------------------------------
(* The limit of a plan, and the ledger of QuotaLedger.                     *)

\* Only a dispatch adds to the ledger.
LEMMA OnlyCharges ==
    ASSUME TypeOK, [Next]_vars, ledger' # ledger
    PROVE  \E p \in Calls, reply \in BOOLEAN : DispatchCharge(p, reply)
    BY StepCases DEF vars, Arrive, Refuse, Reserve, LinkArrive,
       LinkEnd, LinkCommit, LeaseExpire, MonthEnd, Sweep

LEMMA WithinLimitStep ==
    ASSUME LedgerInv, [Next]_vars, NEW p \in ledger' \ ledger
    PROVE  Cardinality(SpentBy(Root(arg[p].subject), arg[p].month))
               < AllowanceLimit[arg[p].plan]
<1>0. TypeOK
    BY DEF LedgerInv, ChargeInv
<1>1. PICK c \in Calls, reply \in BOOLEAN : DispatchCharge(c, reply)
    BY <1>0, OnlyCharges
<1>2. /\ ledger' = ledger \cup {c}
      /\ Root(arg[c].subject) = seen[c].root
      /\ Used(c) = Cardinality(SpentBy(seen[c].root, arg[c].month))
      /\ Used(c) < AllowanceLimit[arg[c].plan]
    BY <1>1, ChargeCounts
<1>3. c = p
    BY <1>2
<1> QED
    BY <1>2, <1>3

\* "Linking cannot mint a fresh allowance": no chain or race of links lets a
\* group be charged once more than its plan allows in a month.  The run
\* AiAllowance_straddle shows that the hypothesis is needed.
THEOREM NoFreshAllowance ==
    ASSUME ~MonthEndStraddle
    PROVE  Spec => WithinLimit
<1>1. Init => LedgerInv
    BY InitLedgerInv
<1>2. LedgerInv /\ [Next]_vars => LedgerInv'
    BY LedgerInvStep
<1>3. LedgerInv /\ [Next]_vars =>
          [\A p \in ledger' \ ledger :
              Cardinality(SpentBy(Root(arg[p].subject), arg[p].month))
                  < AllowanceLimit[arg[p].plan]]_vars
    BY WithinLimitStep
<1> QED
    BY <1>1, <1>2, <1>3, PTL DEF Spec, WithinLimit

\* What the ledger knows of a charge.
ChargeOf(p) == [call |-> p, subject |-> arg[p].subject,
                request |-> arg[p].request, plan |-> arg[p].plan,
                month |-> arg[p].month]

Groups  == [s \in Subjects |-> Root(s)]
Charges == {ChargeOf(p) : p \in ledger}

\* The ledger's charges of a group are the charges of that group.
LEMMA SameSpent ==
    ASSUME TypeOK, NEW r, NEW m
    PROVE  /\ {c \in Charges : Groups[c.subject] = r /\ c.month = m}
                 = {ChargeOf(p) : p \in SpentBy(r, m)}
           /\ Cardinality({ChargeOf(p) : p \in SpentBy(r, m)})
                 = Cardinality(SpentBy(r, m))
<1>1. \A p \in ledger : arg[p].subject \in Subjects
    BY DEF TypeOK, Args
<1>2. \A p \in ledger : /\ ChargeOf(p).subject = arg[p].subject
                        /\ ChargeOf(p).month = arg[p].month
                        /\ ChargeOf(p).call = p
                        /\ Groups[ChargeOf(p).subject] = Root(arg[p].subject)
    BY <1>1 DEF ChargeOf, Groups
<1>3. {c \in Charges : Groups[c.subject] = r /\ c.month = m}
          = {ChargeOf(p) : p \in SpentBy(r, m)}
    BY <1>2 DEF Charges, SpentBy
<1> DEFINE S == SpentBy(r, m)
           T == {ChargeOf(p) : p \in S}
           f == [p \in S |-> ChargeOf(p)]
<1>4. IsFiniteSet(S) /\ S \subseteq ledger
    BY SpentFinite DEF SpentBy
<1>5. \A p, q \in S : ChargeOf(p) = ChargeOf(q) => p = q
    BY <1>2, <1>4
<1> HIDE DEF S
<1>6. f \in Bijection(S, T)
    BY <1>5 DEF Bijection, Injection, Surjection, IsInjective
<1>7. ExistsBijection(S, T)
    BY <1>6 DEF ExistsBijection
<1>8. Cardinality(T) = Cardinality(S)
    BY <1>4, <1>7, FS_Bijection, Zenon
<1> QED
    BY <1>3, <1>8 DEF S

\* QuotaLedger counts as this module does.
LEMMA SameCount == \A S : Ledger!Cardinality(S) = Cardinality(S)
    BY DEF Ledger!Cardinality, Cardinality

LEMMA LedgerSpend ==
    ASSUME LedgerInv, [Next]_vars, NEW p \in Calls, NEW reply \in BOOLEAN,
           DispatchCharge(p, reply)
    PROVE  Ledger!Next
<1>0. TypeOK
    BY DEF LedgerInv, ChargeInv
<1>1. /\ p \notin ledger /\ ledger' = ledger \cup {p}
      /\ UNCHANGED <<parent, arg>>
      /\ arg[p] \in Args
      /\ Root(arg[p].subject) = seen[p].root
      /\ Used(p) = Cardinality(SpentBy(seen[p].root, arg[p].month))
      /\ Used(p) < AllowanceLimit[arg[p].plan]
    BY ChargeCounts
<1>2. swept' = swept
    BY DEF DispatchCharge, clocks
<1>c. PICK c : c = ChargeOf(p)
    OBVIOUS
<1>d. PICK d : d = Groups[c.subject]
    OBVIOUS
<1>3. /\ c \in Ledger!Charge
      /\ c.call = p /\ c.subject = arg[p].subject /\ c.plan = arg[p].plan
      /\ c.request = arg[p].request /\ c.month = arg[p].month
      /\ d = seen[p].root
    BY <1>1, <1>c, <1>d DEF Ledger!Charge, ChargeOf, Args, Groups
<1>4. Cardinality({e \in Charges : Groups[e.subject] = d /\ e.month = c.month})
          < AllowanceLimit[c.plan]
    <2>1. {e \in Charges : Groups[e.subject] = d /\ e.month = c.month}
              = {ChargeOf(q) : q \in SpentBy(d, c.month)}
        BY <1>0, SameSpent
    <2>2. Cardinality({ChargeOf(q) : q \in SpentBy(d, c.month)})
              = Cardinality(SpentBy(d, c.month))
        BY <1>0, SameSpent
    <2> QED
        BY <1>1, <1>3, <2>1, <2>2
<1>5. \A e \in Charges :
          /\ e.call # c.call
          /\ (Groups[e.subject] = Groups[c.subject] /\ e.request = c.request)
                => e.month < swept
    <2> SUFFICES ASSUME NEW q \in ledger
                 PROVE  /\ q # p
                        /\ (Groups[arg[q].subject] = Groups[arg[p].subject]
                             /\ arg[q].request = arg[p].request)
                                => arg[q].month < swept
        BY <1>3 DEF Charges, ChargeOf
    <2>1. arg[q].subject \in Subjects /\ arg[p].subject \in Subjects
        BY <1>0, <1>1 DEF TypeOK, Args
    <2>2. p \in ledger' \ ledger
        BY <1>1
    <2> QED
        BY <1>1, <2>1, <2>2, ChargedOnceStep DEF LedgerInv, Groups
<1>6. Charges' = Charges \cup {c} /\ Groups' = Groups
    <2>1. \A q : ChargeOf(q)' = ChargeOf(q)
        BY <1>1 DEF ChargeOf
    <2>2. Charges' = {ChargeOf(q) : q \in ledger \cup {p}}
        BY <1>1 DEF Charges, ChargeOf
    <2>3. Groups' = Groups
        BY <1>1 DEF Groups, Root
    <2> QED
        BY <1>c, <2>2, <2>3 DEF Charges
<1>7. Ledger!Spend(c)
    <2>1. Ledger!Cardinality({e \in Charges : Groups[e.subject] = Groups[c.subject]
                                            /\ e.month = c.month})
              < AllowanceLimit[c.plan]
        BY <1>4, <1>d, SameCount, Zenon
    <2> QED
        BY <1>2, <1>5, <1>6, <2>1
           DEF Ledger!Spend, Ledger!Spent, Charges, Groups, ChargeOf
<1> QED
    BY <1>3, <1>7 DEF Ledger!Next

LEMMA LedgerMerge ==
    ASSUME LedgerInv, [Next]_vars, NEW l \in Linkers, NEW reply \in BOOLEAN,
           LinkCommit(l, reply)
    PROVE  Ledger!Next
<1>0. TypeOK /\ GroupsConsistent /\ (TypeOK /\ GroupsConsistent)'
    BY TypeOKStep, GroupsStep DEF LedgerInv, ChargeInv
<1>a. PICK ri : ri = parent[linker[l].installation]
    OBVIOUS
<1>b. PICK ra : ra = parent[linker[l].account]
    OBVIOUS
<1>1. /\ ri \in Subjects /\ ra \in Subjects /\ parent[ra] = ra
      /\ \A d \in Subjects :
            parent'[d] = IF parent[d] = ri THEN ra ELSE parent[d]
    BY <1>a, <1>b, LinkCounts
<1>2. UNCHANGED <<arg, ledger, swept>>
    BY DEF LinkCommit, clocks
<1>3. \A d \in Subjects : Root(d) = parent[d] /\ Root(d)' = parent'[d]
    BY <1>0, FlatGroups DEF GroupsConsistent
<1>4. Groups[ra] = ra
    BY <1>1, <1>3 DEF Groups
<1>5. Groups' = [s \in Subjects |-> IF Groups[s] = ri THEN ra ELSE Groups[s]]
    BY <1>1, <1>3 DEF Groups
<1>6. Charges' = Charges
    BY <1>2 DEF Charges, ChargeOf
<1>7. Ledger!Merge(ri, ra)
    BY <1>2, <1>4, <1>5, <1>6 DEF Ledger!Merge, Charges, Groups, ChargeOf
<1> QED
    BY <1>1, <1>7 DEF Ledger!Next

LEMMA LedgerStep ==
    ASSUME LedgerInv, [Next]_vars
    PROVE  [Ledger!Next]_(Ledger!ledgerVars)
<1> USE DEF identity, clocks
<1>0. TypeOK /\ ClocksAgree
    BY DEF LedgerInv, ChargeInv
\* A step that keeps the groups, the charges and the record stutters.
<1>s. ASSUME UNCHANGED <<parent, ledger, swept>>,
             \A q \in ledger : arg'[q] = arg[q]
      PROVE  UNCHANGED Ledger!ledgerVars
    <2>1. \A q \in ledger : ChargeOf(q)' = ChargeOf(q)
        BY <1>s DEF ChargeOf
    <2>2. Charges' = Charges
        BY <1>s, <2>1 DEF Charges
    <2>3. Groups' = Groups
        BY <1>s DEF Groups, Root
    <2> QED
        BY <1>s, <2>2, <2>3 DEF Ledger!ledgerVars, Charges, Groups, ChargeOf
<1>1. CASE \E p \in Calls : Arrive(p)
    <2>1. \A q \in ledger : arg'[q] = arg[q]
        BY <1>0, <1>1 DEF Arrive, ClocksAgree, TypeOK
    <2> QED
        BY <1>1, <1>s, <2>1 DEF Arrive
<1>2. CASE \E p \in Calls : \E d \in Finished : Refuse(p, d)
    <2>1. \A q \in ledger : arg'[q] = arg[q]
        BY <1>0, <1>2 DEF Refuse, TypeOK
    <2> QED
        BY <1>2, <1>s, <2>1 DEF Refuse
<1>3. CASE \E p \in Calls, reply \in BOOLEAN : Reserve(p, reply)
    BY <1>3, <1>s DEF Reserve
<1>4. CASE \E p \in Calls, reply \in BOOLEAN : DispatchCharge(p, reply)
    BY <1>4, LedgerSpend
<1>5. CASE \E l \in Linkers : LinkArrive(l) \/ LinkEnd(l)
    BY <1>5, <1>s DEF LinkArrive, LinkEnd
<1>6. CASE \E l \in Linkers, reply \in BOOLEAN : LinkCommit(l, reply)
    BY <1>6, LedgerMerge
<1>7. CASE \E s \in Subjects, r \in Requests : LeaseExpire(s, r)
    BY <1>7, <1>s DEF LeaseExpire
<1>8. CASE MonthEnd
    BY <1>8, <1>s DEF MonthEnd
<1>9. CASE Sweep
    <2>1. UNCHANGED <<parent, ledger, arg>> /\ swept' = swept + 1
        BY <1>9 DEF Sweep
    <2>2. Charges' = Charges /\ Groups' = Groups
        BY <2>1 DEF Charges, ChargeOf, Groups, Root
    <2>3. Ledger!Forget
        BY <2>1, <2>2 DEF Ledger!Forget, Charges, ChargeOf, Groups
    <2> QED
        BY <2>3 DEF Ledger!Next
<1>10. CASE UNCHANGED vars
    BY <1>10, <1>s DEF vars
<1> QED
    BY <1>0, StepCases, <1>1, <1>2, <1>3, <1>4, <1>5, <1>6, <1>7, <1>8, <1>9,
       <1>10

LEMMA LedgerInit == Init => Ledger!Init
<1> SUFFICES ASSUME Init PROVE Ledger!Init
    OBVIOUS
<1>1. ledger = {} /\ swept = 0 /\ \A s \in Subjects : Root(s) = s
    BY DEF Init, Root
<1>2. Charges = {} /\ Groups = [s \in Subjects |-> s]
    BY <1>1 DEF Charges, Groups
<1> QED
    BY <1>1, <1>2 DEF Ledger!Init, Charges, Groups, ChargeOf

\* The store of Redis keys implements the ledger of QuotaLedger: groups only
\* merge, a request is charged once to a group, and a charge is made only
\* while the whole group is below the limit - a charge is one Spend, a link
\* one Merge, an expiry of a month one Forget, and every other step stutters.
THEOREM StoreImplementsLedger ==
    ASSUME ~MonthEndStraddle
    PROVE  Spec => ImplementsLedger
<1>1. Init => LedgerInv /\ Ledger!Init
    BY InitLedgerInv, LedgerInit
<1>2. LedgerInv /\ [Next]_vars => LedgerInv'
    BY LedgerInvStep
<1>3. LedgerInv /\ [Next]_vars => [Ledger!Next]_(Ledger!ledgerVars)
    BY LedgerStep
<1> QED
    BY <1>1, <1>2, <1>3, PTL DEF Spec, ImplementsLedger, Ledger!Spec

-----------------------------------------------------------------------------
(* RequestLease: a handler that works has its marker, or lost it to the    *)
(* expiry; nobody else removes it.                                         *)

MarkersHeld ==
    \A h \in Handlers :
        stage[h] = "working" => stored[key[h]] = h \/ h \in outlived

LeaseInv == Lease!TypeOK /\ MarkersHeld

LEMMA LeaseInvInit == Lease!Init => LeaseInv
BY DEF Lease!Init, LeaseInv, Lease!TypeOK, MarkersHeld, Lease!Stages

LEMMA LeaseInvStep == LeaseInv /\ [Lease!Next]_leaseVars => LeaseInv'
<1> SUFFICES ASSUME LeaseInv, [Lease!Next]_leaseVars
             PROVE  LeaseInv'
  OBVIOUS
<1> USE GatesAssumption DEF LeaseInv, Lease!TypeOK, MarkersHeld, Lease!Stages, Lease!NothingAssumption
<1>1. ASSUME NEW h \in Handlers, NEW k \in LeaseKeys, Lease!Acquire(h, k)
      PROVE  LeaseInv'
  BY <1>1 DEF Lease!Acquire
<1>2. ASSUME NEW h \in Handlers, NEW k \in LeaseKeys, Lease!AcquireFails(h, k)
      PROVE  LeaseInv'
  BY <1>2 DEF Lease!AcquireFails
<1>3. ASSUME NEW h \in Handlers, Lease!Leave(h)
      PROVE  LeaseInv'
  BY <1>3 DEF Lease!Leave
<1>4. ASSUME NEW h \in Handlers, Lease!Release(h)
      PROVE  LeaseInv'
  BY <1>4 DEF Lease!Release, Lease!Owns
<1>5. ASSUME NEW h \in Handlers, Lease!Abandon(h)
      PROVE  LeaseInv'
  BY <1>5 DEF Lease!Abandon, Lease!Owns
<1>6. ASSUME NEW k \in LeaseKeys, Lease!Expire(k)
      PROVE  LeaseInv'
  BY <1>6 DEF Lease!Expire
<1>7. CASE UNCHANGED leaseVars
  BY <1>7 DEF leaseVars
<1> QED
  BY <1>1, <1>2, <1>3, <1>4, <1>5, <1>6, <1>7 DEF Lease!Next

LEMMA LeaseInvOneAtATime == LeaseInv => OneAtATime
BY DEF LeaseInv, MarkersHeld, OneAtATime, Lease!OneAtATime

\* Two handlers work on one request only when the marker of one of them expired
\* (RedisRequestLeaseStore).
THEOREM OneHandlerAtATime == GatesSpec => []OneAtATime
<1>1. GatesInit => LeaseInv
  BY LeaseInvInit DEF GatesInit
<1>2. LeaseInv /\ [GatesNext]_gatesVars => LeaseInv'
  BY LeaseInvStep DEF GatesNext, gatesVars
<1> QED
  BY <1>1, <1>2, LeaseInvOneAtATime, PTL DEF GatesSpec

-----------------------------------------------------------------------------
(* GlobalBucket: what was admitted since t and what is still in the bucket *)
(* are together no more than a full bucket and the refill since t.  It is  *)
(* about workers whose transaction commits before the clock they read has  *)
(* moved on (StaleClock is FALSE): the code stores an older reading over a *)
(* newer one, and gives the refill in between twice.                       *)

ReadingsFresh ==
    /\ \A w \in Workers : reading[w] \in {Nothing, now}
    /\ bucket # Nothing => bucket.updated = bucket.written /\ bucket.updated <= now

\* Nothing was admitted at a time that has not come.
NotYet == \A t \in Bucket!Times : t > now => admitted[t] = admitted[now]

Budget ==
    \A t \in 0 .. now :
        Bucket!AdmittedIn(t, now) + Bucket!Available(now) <= Burst + (now - t) * Rate

\* The stretches that have ended kept the bound.
PastBound ==
    \A t, u \in Bucket!Times :
        t <= u /\ u < now => Bucket!AdmittedIn(t, u) <= Burst + (u - t) * Rate

BucketInv == Bucket!TypeOK /\ ReadingsFresh /\ NotYet /\ Budget /\ PastBound

LEMMA LeastGrows ==
    ASSUME NEW limit \in Nat, NEW x \in Nat, NEW more \in Nat
    PROVE  /\ {Bucket!Least(limit, x), Bucket!Least(limit, x + more)} \subseteq 0 .. limit
           /\ Bucket!Least(limit, x + more) <= Bucket!Least(limit, x) + more
BY DEF Bucket!Least

\* What a worker finds is at most a full bucket, and a tick adds at most its rate.
LEMMA AvailableBounds ==
    ASSUME Bucket!TypeOK, ReadingsFresh
    PROVE  /\ Bucket!Available(now) \in 0 .. Burst
           /\ Bucket!Available(now + 1) \in 0 .. Burst
           /\ Bucket!Available(now + 1) <= Bucket!Available(now) + Rate
<1> USE GatesAssumption DEF Bucket!BucketAssumption, Bucket!KeyAssumption, Bucket!TypeOK,
        Bucket!Times
<1>1. CASE bucket = Nothing
  BY <1>1 DEF Bucket!Available
<1>2. CASE bucket # Nothing
  <2> DEFINE refill == (now - bucket.updated) * Rate
  <2>1. /\ bucket.tokens \in 0 .. Burst /\ bucket.updated \in Nat
        /\ bucket.updated <= now /\ now \in Nat
    BY <1>2 DEF Bucket!Bucket, ReadingsFresh
  <2>2. refill \in Nat
    BY <2>1
  <2>3. (now + 1 - bucket.updated) * Rate = refill + Rate
    BY <2>1
  <2>4. /\ Bucket!Elapsed(now, bucket.updated) = now - bucket.updated
        /\ Bucket!Elapsed(now + 1, bucket.updated) = now + 1 - bucket.updated
    BY <2>1 DEF Bucket!Elapsed
  <2>5. /\ Bucket!Available(now) = Bucket!Least(Burst, bucket.tokens + refill)
        /\ Bucket!Available(now + 1) = Bucket!Least(Burst, bucket.tokens + (refill + Rate))
    BY <1>2, <2>3, <2>4 DEF Bucket!Available
  <2>6. bucket.tokens + refill \in Nat
    BY <2>1, <2>2, SMTT(20)
  <2>7. bucket.tokens + refill + Rate = bucket.tokens + (refill + Rate)
    BY <2>1, <2>2
  <2>8. Burst \in Nat /\ Rate \in Nat
    OBVIOUS
  <2> HIDE GatesAssumption DEF refill, Bucket!TypeOK
  <2> QED
    BY <2>5, <2>6, <2>7, <2>8, LeastGrows
<1> QED
  BY <1>1, <1>2

LEMMA BucketInvInit == Bucket!Init => BucketInv
BY GatesAssumption
DEF Bucket!BucketAssumption, Bucket!KeyAssumption, Bucket!Init, BucketInv, Bucket!TypeOK,
    ReadingsFresh, NotYet, Budget, PastBound, Bucket!Times, Bucket!AdmittedIn, Bucket!Before,
    Bucket!Available

\* The budget bounds the stretches that have not ended.
LEMMA BucketInvRateBound == BucketInv => Bucket!RateBound
<1> SUFFICES ASSUME BucketInv, NEW t \in Bucket!Times, NEW u \in Bucket!Times, t <= u, u >= now
             PROVE  Bucket!AdmittedIn(t, u) <= Burst + (u - t) * Rate
  BY GatesAssumption DEF BucketInv, PastBound, Bucket!RateBound, Bucket!TypeOK, Bucket!Times,
                         Bucket!BucketAssumption
<1> USE GatesAssumption DEF BucketInv, Bucket!BucketAssumption, Bucket!TypeOK, Bucket!Times,
        Bucket!AdmittedIn, Bucket!Before
<1>1. admitted[u] = admitted[now]
  BY DEF NotYet
<1>2. CASE t <= now
  <2>1. /\ Bucket!AdmittedIn(t, now) + Bucket!Available(now) <= Burst + (now - t) * Rate
        /\ Bucket!Available(now) \in Nat
    BY <1>2, AvailableBounds DEF Budget
  <2>2. (u - t) * Rate = (now - t) * Rate + (u - now) * Rate
    BY <1>2
  <2>3. (u - now) * Rate \in Nat /\ (now - t) * Rate \in Nat
    BY <1>2
  <2>4. Bucket!AdmittedIn(t, u) = Bucket!AdmittedIn(t, now) /\ Bucket!AdmittedIn(t, now) \in Int
    BY <1>1, <1>2
  <2>5. Burst \in Nat
    OBVIOUS
  <2> HIDE GatesAssumption DEF Bucket!AdmittedIn, Bucket!TypeOK, BucketInv
  <2> QED
    BY <2>1, <2>2, <2>3, <2>4, <2>5
<1>3. CASE t > now
  <2>1. admitted[t - 1] = admitted[now]
    BY <1>3 DEF NotYet
  <2>2. (u - t) * Rate \in Nat
    OBVIOUS
  <2> QED
    BY <1>1, <1>3, <2>1, <2>2
<1> QED
  BY <1>2, <1>3

LEMMA TakeKeeps ==
    ASSUME BucketInv, NEW w \in Workers, NEW reply \in BOOLEAN, Bucket!Take(w, reply)
    PROVE  BucketInv'
<1> USE GatesAssumption DEF Bucket!BucketAssumption, Bucket!KeyAssumption, Bucket!Times
<1>1. reading[w] = now /\ now \in Bucket!Times /\ now \in Nat
  BY DEF BucketInv, Bucket!TypeOK, ReadingsFresh, Bucket!Take
<1>2. Bucket!Available(now) \in 1 .. Burst
  BY <1>1, AvailableBounds DEF BucketInv, Bucket!Take, Bucket!HasToken
<1>3. /\ bucket' = [tokens |-> Bucket!Available(now) - 1, updated |-> now, written |-> now]
      /\ now' = now
      /\ \/ admitted' = admitted
         \/ admitted' = [u \in Bucket!Times |-> IF u < now THEN admitted[u]
                                                          ELSE admitted[u] + 1]
      /\ reading' \in {reading, [reading EXCEPT ![w] = Nothing]}
  BY <1>1 DEF Bucket!Take
<1>4. bucket' \in Bucket!Bucket /\ bucket' # Nothing
  BY <1>1, <1>2, <1>3 DEF Bucket!Bucket
<1>5. admitted' \in [Bucket!Times -> Nat]
  <2> HIDE DEF Bucket!Times
  <2>1. admitted \in [Bucket!Times -> Nat] /\ now \in Nat
    BY <1>1 DEF BucketInv, Bucket!TypeOK
  <2>2. CASE admitted' = admitted
    BY <2>1, <2>2
  <2>3. CASE admitted' = [u \in Bucket!Times |-> IF u < now THEN admitted[u]
                                                          ELSE admitted[u] + 1]
    <3>1. \A u \in Bucket!Times : (IF u < now THEN admitted[u] ELSE admitted[u] + 1) \in Nat
      BY <2>1
    <3> QED
      BY <2>3, <3>1, Zenon
  <2> QED
    BY <1>3, <2>2, <2>3
<1>6. Bucket!TypeOK'
  BY <1>1, <1>3, <1>4, <1>5 DEF BucketInv, Bucket!TypeOK
<1>7. ReadingsFresh'
  BY <1>1, <1>3, <1>4 DEF BucketInv, Bucket!TypeOK, ReadingsFresh
<1>8. NotYet'
  BY <1>1, <1>3 DEF BucketInv, Bucket!TypeOK, NotYet
<1>9. Bucket!Available(now)' = Bucket!Available(now) - 1
  BY <1>1, <1>2, <1>3, <1>4 DEF Bucket!Available, Bucket!Least, Bucket!Elapsed
<1>10. Budget'
  <2> SUFFICES ASSUME NEW t \in 0 .. now
               PROVE  Bucket!AdmittedIn(t, now)' + Bucket!Available(now)'
                          <= Burst + (now - t) * Rate
    BY <1>3 DEF Budget
  <2>1. t \in Bucket!Times /\ (t # 0 => t - 1 \in Bucket!Times /\ t - 1 < now)
    BY <1>1
  <2>2. admitted'[now] <= admitted[now] + 1 /\ Bucket!Before(t)' = Bucket!Before(t)
    BY <1>1, <1>3, <2>1 DEF BucketInv, Bucket!TypeOK, Bucket!Before
  <2>3. Bucket!Before(t) \in Nat /\ admitted[now] \in Nat /\ admitted'[now] \in Nat
    BY <1>1, <1>5, <2>1 DEF BucketInv, Bucket!TypeOK, Bucket!Before
  <2>4. Bucket!AdmittedIn(t, now) + Bucket!Available(now) <= Burst + (now - t) * Rate
    BY DEF BucketInv, Budget
  <2>5. (now - t) * Rate \in Int
    BY <1>1
  <2>6. /\ Bucket!AdmittedIn(t, now)' = admitted'[now] - Bucket!Before(t)
        /\ Bucket!AdmittedIn(t, now) = admitted[now] - Bucket!Before(t)
    BY <1>3, <2>2 DEF Bucket!AdmittedIn
  <2> QED
    BY <1>2, <1>9, <2>2, <2>3, <2>4, <2>5, <2>6
<1>11. PastBound'
  BY <1>1, <1>3, SMTT(20) DEF BucketInv, PastBound, Bucket!TypeOK, Bucket!AdmittedIn, Bucket!Before
<1> QED
  BY <1>6, <1>7, <1>8, <1>10, <1>11 DEF BucketInv

LEMMA TickKeeps ==
    ASSUME BucketInv, ~StaleClock, Bucket!Tick
    PROVE  BucketInv'
<1> USE GatesAssumption DEF Bucket!BucketAssumption, Bucket!KeyAssumption, Bucket!Times
<1>1. /\ now \in Nat /\ now' = now + 1 /\ now' \in Bucket!Times /\ now \in Bucket!Times
      /\ UNCHANGED <<bucket, reading, admitted>>
      /\ \A w \in Workers : reading[w] = Nothing
  BY DEF BucketInv, Bucket!TypeOK, Bucket!Tick
<1>2. Bucket!TypeOK' /\ ReadingsFresh' /\ NotYet'
  BY <1>1 DEF BucketInv, Bucket!TypeOK, ReadingsFresh, NotYet, Bucket!Bucket
<1>3. admitted[now + 1] = admitted[now] /\ admitted[now] \in Nat
  BY <1>1 DEF BucketInv, Bucket!TypeOK, NotYet
<1>4. /\ Bucket!Available(now + 1) \in 0 .. Burst
      /\ Bucket!Available(now) \in 0 .. Burst
      /\ Bucket!Available(now + 1) <= Bucket!Available(now) + Rate
      /\ Bucket!Available(now)' = Bucket!Available(now + 1)
  BY <1>1, AvailableBounds DEF BucketInv, Bucket!Available
<1>5. Budget'
  <2> SUFFICES ASSUME NEW t \in 0 .. now + 1
               PROVE  Bucket!AdmittedIn(t, now + 1) + Bucket!Available(now + 1)
                          <= Burst + (now + 1 - t) * Rate
    BY <1>1, <1>4 DEF Budget, Bucket!AdmittedIn, Bucket!Before
  <2>1. CASE t = now + 1
    BY <1>1, <1>3, <1>4, <2>1 DEF Bucket!AdmittedIn, Bucket!Before
  <2>2. CASE t <= now
    <3>1. Bucket!AdmittedIn(t, now + 1) = Bucket!AdmittedIn(t, now)
      BY <1>3 DEF Bucket!AdmittedIn
    <3>2. Bucket!AdmittedIn(t, now) + Bucket!Available(now) <= Burst + (now - t) * Rate
      BY <1>1, <2>2 DEF BucketInv, Budget
    <3>3. (now + 1 - t) * Rate = (now - t) * Rate + Rate /\ (now - t) * Rate \in Int
      BY <1>1
    <3>4. Bucket!AdmittedIn(t, now) \in Int
      BY <1>1, <1>3, <2>2 DEF BucketInv, Bucket!TypeOK, Bucket!AdmittedIn, Bucket!Before
    <3>5. Burst \in Nat /\ Rate \in Nat
      OBVIOUS
    <3> HIDE GatesAssumption
    <3> QED
      BY <1>4, <3>1, <3>2, <3>3, <3>4, <3>5
  <2> QED
    BY <1>1, <2>1, <2>2
<1>6. PastBound'
  <2> SUFFICES ASSUME NEW t \in Bucket!Times, NEW u \in Bucket!Times, t <= u, u <= now
               PROVE  Bucket!AdmittedIn(t, u) <= Burst + (u - t) * Rate
    BY <1>1 DEF PastBound, Bucket!AdmittedIn, Bucket!Before
  <2> QED
    BY BucketInvRateBound DEF Bucket!RateBound
<1> QED
  BY <1>2, <1>5, <1>6 DEF BucketInv

\* A bucket that expired would have been full again.
LEMMA ExpireKeeps ==
    ASSUME BucketInv, Bucket!Expire
    PROVE  BucketInv'
<1> USE GatesAssumption DEF Bucket!BucketAssumption, Bucket!KeyAssumption, Bucket!Times
<1>1. bucket' = Nothing /\ UNCHANGED <<now, reading, admitted>>
  BY DEF Bucket!Expire
<1>2. Bucket!Available(now)' = Burst
  BY <1>1 DEF Bucket!Available
<1>3. Bucket!Available(now) = Burst
  <2>1. /\ bucket # Nothing /\ bucket.tokens \in Nat /\ bucket.updated \in Nat /\ now \in Nat
        /\ bucket.updated <= now /\ now - bucket.updated >= Ttl
    BY DEF BucketInv, Bucket!TypeOK, ReadingsFresh, Bucket!Bucket, Bucket!Expire
  <2>2. (now - bucket.updated) * Rate >= Burst
    <3>1. (now - bucket.updated) * Rate = Ttl * Rate + (now - bucket.updated - Ttl) * Rate
      BY <2>1
    <3>2. (now - bucket.updated - Ttl) * Rate \in Nat
      BY <2>1
    <3> QED
      BY <3>1, <3>2
  <2>3. Bucket!Elapsed(now, bucket.updated) = now - bucket.updated
    BY <2>1 DEF Bucket!Elapsed
  <2> DEFINE refill == (now - bucket.updated) * Rate
  <2>4. Bucket!Available(now) = Bucket!Least(Burst, bucket.tokens + refill)
    BY <2>1, <2>3 DEF Bucket!Available
  <2>5. refill \in Int /\ refill >= Burst /\ Burst \in Nat
    BY <2>1, <2>2
  <2>6. bucket.tokens <= Burst
    BY <2>1 DEF BucketInv, Bucket!TypeOK, Bucket!Bucket
  <2> HIDE GatesAssumption DEF refill
  <2> QED
    BY <2>1, <2>4, <2>5, <2>6 DEF Bucket!Least
<1> QED
  BY <1>1, <1>2, <1>3
  DEF BucketInv, Bucket!TypeOK, ReadingsFresh, NotYet, Budget, PastBound, Bucket!AdmittedIn,
      Bucket!Before

LEMMA BucketInvStep ==
    ASSUME ~StaleClock
    PROVE  BucketInv /\ [Bucket!Next]_bucketVars => BucketInv'
<1> SUFFICES ASSUME BucketInv, [Bucket!Next]_bucketVars
             PROVE  BucketInv'
  OBVIOUS
<1>1. ASSUME NEW w \in Workers, Bucket!Read(w) \/ Bucket!Leave(w)
      PROVE  BucketInv'
  BY <1>1, GatesAssumption
  DEF Bucket!Read, Bucket!Leave, BucketInv, Bucket!TypeOK, ReadingsFresh, NotYet, Budget,
      PastBound, Bucket!AdmittedIn, Bucket!Before, Bucket!Available
<1>2. CASE UNCHANGED bucketVars
  BY <1>2
  DEF bucketVars, BucketInv, Bucket!TypeOK, ReadingsFresh, NotYet, Budget, PastBound,
      Bucket!AdmittedIn, Bucket!Before, Bucket!Available
<1> QED
  BY <1>1, <1>2, TakeKeeps, TickKeeps, ExpireKeeps DEF Bucket!Next

-----------------------------------------------------------------------------
(* RateLimiter: a counter is what was granted in it and what was committed *)
(* without a reply, until its window is over.                              *)

\* A window that is over: its counter may be gone, and a late commit may have
\* made another.
Gone(k) == k[3] < Windows!Window(k[1], minute)

CountersHeld ==
    \A k \in Windows!Keys :
        Gone(k) \/ window[k] = Cardinality(Windows!GrantedIn(k)) + lost[k]

NoOutcomeYet == \A c \in Checks : check[c] = Nothing => outcome[c] = Nothing

WindowsInv == Windows!TypeOK /\ NoOutcomeYet /\ CountersHeld /\ Windows!WindowBound

\* An instance has symbols of its own for what its module extends.
LEMMA SameCounting ==
    \A S : /\ Windows!IsFiniteSet(S) = IsFiniteSet(S)
           /\ Windows!Cardinality(S) = Cardinality(S)
BY DEF IsFiniteSet, Windows!IsFiniteSet, Cardinality, Windows!Cardinality

LEMMA GrantedFinite ==
    \A k : /\ IsFiniteSet(Windows!GrantedIn(k))
           /\ Cardinality(Windows!GrantedIn(k)) \in Nat
           /\ Cardinality(Windows!InTime(k)) \in Nat
           /\ Cardinality(Windows!InTime(k)) <= Cardinality(Windows!GrantedIn(k))
<1> TAKE k
<1>1. Windows!GrantedIn(k) \in SUBSET Checks
  BY DEF Windows!GrantedIn
<1>2. IsFiniteSet(Checks)
  BY GatesAssumption, SameCounting DEF Windows!LimitsAssumption
<1>3. IsFiniteSet(Windows!GrantedIn(k))
  BY <1>1, <1>2, FS_Subset
<1>4. Windows!InTime(k) \in SUBSET Windows!GrantedIn(k)
  BY DEF Windows!InTime
<1>5. /\ IsFiniteSet(Windows!InTime(k))
      /\ Cardinality(Windows!InTime(k)) <= Cardinality(Windows!GrantedIn(k))
  BY <1>3, <1>4, FS_Subset
<1> QED
  BY <1>3, <1>5, FS_CardinalityType

LEMMA LimitType == \A k \in Windows!Keys : Windows!Limit(k) \in Nat \ {0}
BY GatesAssumption DEF Windows!LimitsAssumption, Windows!Limit, Windows!Keys, Windows!Scopes

\* A live counter is exact.
LEMMA WindowsInvExact == WindowsInv => Windows!CountersExact
<1> SUFFICES ASSUME WindowsInv, NEW k \in Windows!Keys, k[3] >= Windows!Window(k[1], minute)
             PROVE  window[k] = Cardinality(Windows!GrantedIn(k)) + lost[k]
  BY SameCounting DEF Windows!CountersExact
<1>1. k[3] \in Int /\ Windows!Window(k[1], minute) \in Int
  BY GatesAssumption
  DEF WindowsInv, Windows!TypeOK, Windows!LimitsAssumption, Windows!Keys, Windows!Minutes,
      Windows!Window
<1> QED
  BY <1>1 DEF WindowsInv, CountersHeld, Gone

LEMMA WindowsInvInit == Windows!Init => WindowsInv
<1> SUFFICES ASSUME Windows!Init
             PROVE  WindowsInv
  OBVIOUS
<1> USE GatesAssumption DEF Windows!LimitsAssumption, Windows!NothingAssumption, Windows!Init
<1>1. \A k : Windows!GrantedIn(k) = {}
  BY DEF Windows!GrantedIn, Windows!Outcomes
<1>2. Cardinality({}) = 0
  BY FS_EmptySet
<1>3. Windows!TypeOK
  BY LimitType DEF Windows!TypeOK, Windows!Minutes
<1>4. \A k : Cardinality(Windows!GrantedIn(k)) = 0 /\ Cardinality(Windows!InTime(k)) = 0
  <2>1. \A k : Windows!InTime(k) = {}
    BY <1>1 DEF Windows!InTime
  <2> QED
    BY <1>1, <1>2, <2>1
<1>5. CountersHeld
  BY <1>4 DEF CountersHeld
<1>6. Windows!WindowBound
  BY <1>4, LimitType, SameCounting DEF Windows!WindowBound
<1> QED
  BY <1>3, <1>5, <1>6 DEF WindowsInv, NoOutcomeYet

-----------------------------------------------------------------------------
(* A commit                                                                *)

\* The counters an analysis is let through in are those that then show it.
LEMMA SpentIsGranted ==
    ASSUME WindowsInv, NEW c \in Checks, Windows!Allow(c, TRUE), NEW k \in Windows!Keys
    PROVE  Windows!GrantedIn(k)' =
               IF k \in Windows!Spent(c) THEN Windows!GrantedIn(k) \cup {c}
                                         ELSE Windows!GrantedIn(k)
<1> USE GatesAssumption DEF Windows!NothingAssumption
<1>1. /\ outcome[c] = Nothing /\ check' = check
      /\ outcome' = [outcome EXCEPT ![c] = IF Windows!ProviderAllowed(c) THEN "with_provider"
                                                                       ELSE "without_provider"]
  BY DEF Windows!Allow, Windows!Waiting
<1>2. \A d \in Checks \ {c} : d \in Windows!GrantedIn(k)' <=> d \in Windows!GrantedIn(k)
  BY <1>1 DEF Windows!GrantedIn, Windows!SubjectsOf, WindowsInv, Windows!TypeOK
<1>3. c \notin Windows!GrantedIn(k)
  BY <1>1 DEF Windows!GrantedIn, Windows!Outcomes
<1>4. c \in Windows!GrantedIn(k)' <=>
          /\ k[1] = "provider" => Windows!ProviderAllowed(c)
          /\ k[2] \in Windows!SubjectsOf(c)
          /\ k[3] = Windows!Window(k[1], check[c].minute)
  BY <1>1 DEF Windows!GrantedIn, Windows!SubjectsOf, WindowsInv, Windows!TypeOK
<1>5. k = <<k[1], k[2], k[3]>> /\ k[1] \in {"minute", "day", "provider"}
  BY DEF Windows!Keys, Windows!Scopes
<1>6. k \in Windows!AnalysisKeys(c) <=>
          /\ k[1] \in {"minute", "day"} /\ k[2] \in Windows!SubjectsOf(c)
          /\ k[3] = Windows!Window(k[1], check[c].minute)
  BY <1>5 DEF Windows!AnalysisKeys, Windows!CounterKey
<1>7. Windows!ProviderAllowed(c) =>
          (k \in Windows!ProviderKeys(c) <=>
              /\ k[1] = "provider" /\ k[2] \in Windows!SubjectsOf(c)
              /\ k[3] = Windows!Window(k[1], check[c].minute))
  BY <1>5 DEF Windows!ProviderAllowed, Windows!ProviderKeys, Windows!CounterKey
<1>8. k \in Windows!Spent(c) <=> c \in Windows!GrantedIn(k)'
  BY <1>4, <1>5, <1>6, <1>7 DEF Windows!Spent
<1>9. Windows!GrantedIn(k) \subseteq Checks /\ Windows!GrantedIn(k)' \subseteq Checks
  BY DEF Windows!GrantedIn
<1> QED
  BY <1>2, <1>3, <1>8, <1>9

\* A commit after the end of a window is not one in its time.
LEMMA LateGrants ==
    ASSUME WindowsInv, NEW c \in Checks, NEW reply \in BOOLEAN, Windows!Allow(c, reply),
           NEW k \in Windows!Keys, Gone(k)
    PROVE  Windows!InTime(k)' \subseteq Windows!InTime(k)
<1> USE GatesAssumption DEF Windows!NothingAssumption
<1>1. CASE reply
  <2>1. /\ decided' = [decided EXCEPT ![c] = minute]
        /\ outcome' = [outcome EXCEPT ![c] = IF Windows!ProviderAllowed(c) THEN "with_provider"
                                                                         ELSE "without_provider"]
        /\ check' = check
    BY <1>1 DEF Windows!Allow
  <2>2. decided'[c] = minute /\ \A d \in Checks \ {c} : decided'[d] = decided[d]
    BY <2>1 DEF WindowsInv, Windows!TypeOK
  <2>3. \A d \in Checks \ {c} : d \in Windows!GrantedIn(k)' <=> d \in Windows!GrantedIn(k)
    BY <2>1 DEF Windows!GrantedIn, Windows!SubjectsOf, WindowsInv, Windows!TypeOK
  <2>4. Windows!Window(k[1], minute) # k[3]
    BY DEF Gone, Windows!Keys, Windows!Window, WindowsInv, Windows!TypeOK, Windows!Minutes,
           Windows!LimitsAssumption
  <2>5. c \notin Windows!InTime(k)'
    BY <2>2, <2>4 DEF Windows!InTime, Windows!Window
  <2>6. Windows!InTime(k)' \subseteq Checks
    BY DEF Windows!InTime, Windows!GrantedIn
  <2> QED
    BY <2>2, <2>3, <2>5, <2>6 DEF Windows!InTime, Windows!Window
<1>2. CASE ~reply
  BY <1>2 DEF Windows!Allow, Windows!InTime, Windows!GrantedIn, Windows!SubjectsOf, Windows!Window
<1> QED
  BY <1>1, <1>2

LEMMA AllowKeeps ==
    ASSUME WindowsInv, NEW c \in Checks, NEW reply \in BOOLEAN, Windows!Allow(c, reply)
    PROVE  WindowsInv'
<1> USE GatesAssumption DEF Windows!NothingAssumption
<1>1. /\ Windows!Waiting(c) /\ check' = check /\ minute' = minute
      /\ window' = Windows!Count(window, Windows!Spent(c))
      /\ reply => lost' = lost /\ decided' = [decided EXCEPT ![c] = minute]
      /\ ~reply => lost' = Windows!Count(lost, Windows!Spent(c)) /\ UNCHANGED <<outcome, decided>>
      /\ outcome' \in [Checks -> Windows!Outcomes \cup {Nothing}]
      /\ \A d \in Checks : outcome'[d] = Nothing => outcome[d] = Nothing
      /\ \A d \in Checks : check[d] = Nothing => outcome'[d] = outcome[d]
  BY DEF Windows!Allow, Windows!Waiting, Windows!Outcomes, WindowsInv, Windows!TypeOK
<1>2. \A k \in Windows!Spent(c) : ~Windows!Full(k)
  BY <1>1 DEF Windows!Allow, Windows!Spent, Windows!ProviderAllowed
<1>3. \A k \in Windows!Keys :
          /\ window[k] \in Nat /\ lost[k] \in Nat
          /\ window'[k] = IF k \in Windows!Spent(c) THEN window[k] + 1 ELSE window[k]
          /\ lost'[k] = IF k \in Windows!Spent(c) /\ ~reply THEN lost[k] + 1 ELSE lost[k]
  BY <1>1 DEF WindowsInv, Windows!TypeOK, Windows!Count
<1>4. \A k \in Windows!Keys : window'[k] <= Windows!Limit(k)
  BY <1>2, <1>3, LimitType DEF WindowsInv, Windows!TypeOK, Windows!Full
<1>5. /\ window' \in [Windows!Keys -> Nat] /\ lost' \in [Windows!Keys -> Nat]
      /\ decided' \in [Checks -> Windows!Minutes \cup {Nothing}]
  BY <1>1, <1>3 DEF WindowsInv, Windows!TypeOK, Windows!Count
<1>6. Windows!TypeOK'
  BY <1>1, <1>4, <1>5 DEF WindowsInv, Windows!TypeOK, Windows!Limit
<1>7. NoOutcomeYet'
  BY <1>1 DEF WindowsInv, NoOutcomeYet
<1>8. \A k : Gone(k)' <=> Gone(k)
  BY <1>1 DEF Gone, Windows!Window
<1>9. \A k \in Windows!Keys :
          Cardinality(Windows!GrantedIn(k))' =
              IF k \in Windows!Spent(c) /\ reply THEN Cardinality(Windows!GrantedIn(k)) + 1
                                                ELSE Cardinality(Windows!GrantedIn(k))
  <2>1. CASE reply
    <3> SUFFICES ASSUME NEW k \in Windows!Keys
                 PROVE  Cardinality(Windows!GrantedIn(k)') =
                            IF k \in Windows!Spent(c)
                            THEN Cardinality(Windows!GrantedIn(k)) + 1
                            ELSE Cardinality(Windows!GrantedIn(k))
      BY <2>1
    <3>1. c \notin Windows!GrantedIn(k)
      BY <1>1 DEF Windows!GrantedIn, Windows!Waiting, Windows!Outcomes
    <3>2. Cardinality(Windows!GrantedIn(k) \cup {c}) = Cardinality(Windows!GrantedIn(k)) + 1
      BY <3>1, GrantedFinite, FS_AddElement
    <3> QED
      BY <2>1, <3>2, SpentIsGranted
  <2>2. CASE ~reply
    BY <1>1, <2>2 DEF Windows!GrantedIn, Windows!SubjectsOf, Windows!Window
  <2> QED
    BY <2>1, <2>2
<1>10. \A k \in Windows!Keys :
           ~Gone(k) => window'[k] = Cardinality(Windows!GrantedIn(k))' + lost'[k]
  BY <1>3, <1>9, GrantedFinite DEF WindowsInv, CountersHeld
<1>11. CountersHeld'
  BY <1>8, <1>10 DEF CountersHeld
<1>12. \A k \in Windows!Keys : Gone(k) => Windows!InTime(k)' \subseteq Windows!InTime(k)
  BY LateGrants
<1>13. Windows!WindowBound'
  <2> SUFFICES ASSUME NEW k \in Windows!Keys
               PROVE  Cardinality(Windows!InTime(k))' <= Windows!Limit(k)
    BY SameCounting DEF Windows!WindowBound, Windows!Limit
  <2>1. /\ Windows!InTime(k)' \in SUBSET Windows!GrantedIn(k)'
        /\ Windows!GrantedIn(k)' \in SUBSET Checks
    BY DEF Windows!InTime, Windows!GrantedIn
  <2>2. IsFiniteSet(Checks)
    BY SameCounting DEF Windows!LimitsAssumption
  <2>3. IsFiniteSet(Windows!GrantedIn(k)')
    BY <2>1, <2>2, FS_Subset
  <2>4. /\ Cardinality(Windows!InTime(k)') \in Nat
        /\ Cardinality(Windows!GrantedIn(k)') \in Nat
        /\ Cardinality(Windows!InTime(k)') <= Cardinality(Windows!GrantedIn(k)')
    BY <2>1, <2>3, FS_Subset, FS_CardinalityType
  <2>5. CASE Gone(k)
    <3>1. Windows!InTime(k)' \in SUBSET Windows!InTime(k) /\ IsFiniteSet(Windows!InTime(k))
      <4>1. Windows!InTime(k) \in SUBSET Windows!GrantedIn(k)
        BY DEF Windows!InTime
      <4> QED
        BY <1>12, <2>5, <4>1, GrantedFinite, FS_Subset
    <3>2. Cardinality(Windows!InTime(k)') <= Cardinality(Windows!InTime(k))
      BY <3>1, FS_Subset
    <3>3. Cardinality(Windows!InTime(k)) <= Windows!Limit(k)
      BY SameCounting DEF WindowsInv, Windows!WindowBound
    <3> QED
      BY <2>4, <3>2, <3>3, GrantedFinite, LimitType
  <2>6. CASE ~Gone(k)
    <3>1. window'[k] = Cardinality(Windows!GrantedIn(k)') + lost'[k]
      BY <1>10, <2>6
    <3>2. lost'[k] \in Nat
      BY <1>5
    <3>3. window'[k] <= Windows!Limit(k) /\ Windows!Limit(k) \in Nat
      BY <1>4, LimitType
    <3> HIDE DEF WindowsInv
    <3> QED
      BY <2>4, <3>1, <3>2, <3>3
  <2> QED
    BY <2>5, <2>6
<1> QED
  BY <1>6, <1>7, <1>11, <1>13 DEF WindowsInv

-----------------------------------------------------------------------------
(* The other steps of a window                                             *)

LEMMA ArriveKeeps ==
    ASSUME WindowsInv, NEW c \in Checks, Windows!Arrive(c)
    PROVE  WindowsInv'
<1> USE GatesAssumption DEF Windows!NothingAssumption
<1>1. PICK i \in Phones, a \in Accounts \cup {Nothing}, p \in BOOLEAN :
          check' = [check EXCEPT ![c] = [installation |-> i, account |-> a,
                                         provider |-> p, minute |-> minute]]
  BY DEF Windows!Arrive
<1>2. /\ check[c] = Nothing /\ outcome[c] = Nothing
      /\ UNCHANGED <<minute, window, outcome, lost, decided>>
  BY DEF Windows!Arrive, WindowsInv, NoOutcomeYet
<1>3. check'[c] \in Windows!Call /\ check'[c] # Nothing /\ check'[c].minute = minute
  BY <1>1 DEF WindowsInv, Windows!TypeOK, Windows!Call
<1>4. \A d \in Checks \ {c} : check'[d] = check[d]
  BY <1>1 DEF WindowsInv, Windows!TypeOK
<1>5. Windows!TypeOK'
  BY <1>1, <1>2, <1>3 DEF WindowsInv, Windows!TypeOK, Windows!Limit
<1>6. NoOutcomeYet'
  BY <1>2, <1>3, <1>4 DEF WindowsInv, NoOutcomeYet
<1>7. \A k : Windows!GrantedIn(k)' = Windows!GrantedIn(k)
  BY <1>2, <1>4 DEF Windows!GrantedIn, Windows!SubjectsOf, Windows!Window, Windows!Outcomes
<1>8. \A k : Windows!InTime(k)' = Windows!InTime(k) /\ (Gone(k)' <=> Gone(k))
  BY <1>2, <1>7 DEF Windows!InTime, Gone, Windows!Window
<1>9. CountersHeld' /\ Windows!WindowBound'
  BY <1>2, <1>7, <1>8, SameCounting
  DEF WindowsInv, CountersHeld, Windows!WindowBound, Windows!Limit
<1> QED
  BY <1>5, <1>6, <1>9 DEF WindowsInv

\* A request that ends without being granted counts nowhere.
LEMMA EndKeeps ==
    ASSUME WindowsInv, NEW c \in Checks, Windows!Refuse(c) \/ Windows!Unavailable(c)
    PROVE  WindowsInv'
<1> USE GatesAssumption DEF Windows!NothingAssumption
<1>1. /\ Windows!Waiting(c) /\ UNCHANGED <<minute, window, check, lost, decided>>
      /\ \/ outcome' = [outcome EXCEPT ![c] = "refused"]
         \/ outcome' = [outcome EXCEPT ![c] = "unavailable"]
  BY DEF Windows!Refuse, Windows!Unavailable
<1>2. Windows!TypeOK' /\ NoOutcomeYet'
  BY <1>1 DEF WindowsInv, Windows!TypeOK, NoOutcomeYet, Windows!Waiting, Windows!Outcomes,
              Windows!Limit
<1>3. \A k : Windows!GrantedIn(k)' = Windows!GrantedIn(k)
  <2>1. outcome[c] = Nothing /\ outcome'[c] \in {"refused", "unavailable"}
    BY <1>1 DEF Windows!Waiting, WindowsInv, Windows!TypeOK
  <2>2. \A d \in Checks \ {c} : outcome'[d] = outcome[d]
    BY <1>1 DEF WindowsInv, Windows!TypeOK
  <2> QED
    BY <1>1, <2>1, <2>2 DEF Windows!GrantedIn, Windows!SubjectsOf, Windows!Window, Windows!Outcomes
<1>4. \A k : Windows!InTime(k)' = Windows!InTime(k) /\ (Gone(k)' <=> Gone(k))
  BY <1>1, <1>3 DEF Windows!InTime, Gone, Windows!Window
<1>5. CountersHeld' /\ Windows!WindowBound'
  BY <1>1, <1>3, <1>4, SameCounting
  DEF WindowsInv, CountersHeld, Windows!WindowBound, Windows!Limit
<1> QED
  BY <1>2, <1>5 DEF WindowsInv

\* A later minute is in no earlier window.
LEMMA WindowsFollow ==
    ASSUME NEW m \in Nat, NEW scope
    PROVE  /\ Windows!Window(scope, m) \in Nat
           /\ Windows!Window(scope, m) <= Windows!Window(scope, m + 1)
<1> DEFINE d == MinutesPerDay
           q == m \div d
           n == (m + 1) \div d
<1>1. d \in Nat /\ d > 0
  BY GatesAssumption DEF Windows!LimitsAssumption
<1>2. q \in Nat /\ n \in Nat
  BY <1>1
<1>3. d * q <= m /\ m + 1 < d * (n + 1)
  BY <1>1
<1>4. q <= n
  <2> SUFFICES ASSUME q >= n + 1
               PROVE  FALSE
    BY <1>2
  <2>1. d * q = d * (n + 1) + d * (q - (n + 1)) /\ d * (q - (n + 1)) \in Nat
    BY <1>1, <1>2
  <2>2. d * q \in Nat /\ d * (n + 1) \in Nat
    BY <1>1, <1>2
  <2> HIDE DEF d, q, n
  <2> QED
    BY <1>3, <2>1, <2>2
<1> QED
  BY <1>2, <1>4 DEF Windows!Window

LEMMA MinuteKeeps ==
    ASSUME WindowsInv, Windows!Tick
    PROVE  WindowsInv'
<1>1. /\ minute' = minute + 1 /\ minute \in Nat /\ minute' \in Windows!Minutes
      /\ UNCHANGED <<window, check, outcome, lost, decided>>
  BY GatesAssumption DEF WindowsInv, Windows!TypeOK, Windows!Tick, Windows!Minutes,
                         Windows!LimitsAssumption
<1>2. Windows!TypeOK' /\ NoOutcomeYet'
  BY <1>1 DEF WindowsInv, Windows!TypeOK, NoOutcomeYet, Windows!Limit
<1>3. \A k : /\ Windows!GrantedIn(k)' = Windows!GrantedIn(k)
             /\ Windows!InTime(k)' = Windows!InTime(k)
  BY <1>1 DEF Windows!GrantedIn, Windows!InTime, Windows!SubjectsOf, Windows!Window
<1>4. \A k \in Windows!Keys : Gone(k) => Gone(k)'
  <2> SUFFICES ASSUME NEW k \in Windows!Keys, Gone(k)
               PROVE  Gone(k)'
    OBVIOUS
  <2>1. k[3] \in Nat
    BY DEF Windows!Keys, Windows!Minutes
  <2>2. /\ Windows!Window(k[1], minute) \in Nat
        /\ Windows!Window(k[1], minute) <= Windows!Window(k[1], minute + 1)
        /\ Windows!Window(k[1], minute + 1) \in Nat
    BY <1>1, WindowsFollow
  <2>3. Windows!Window(k[1], minute)' = Windows!Window(k[1], minute + 1)
    BY <1>1 DEF Windows!Window
  <2>4. k[3] < Windows!Window(k[1], minute)'
    BY <2>1, <2>2, <2>3 DEF Gone
  <2> QED
    BY <2>4 DEF Gone
<1>5. CountersHeld' /\ Windows!WindowBound'
  BY <1>1, <1>3, <1>4, SameCounting
  DEF WindowsInv, CountersHeld, Windows!WindowBound, Windows!Limit
<1> QED
  BY <1>2, <1>5 DEF WindowsInv

LEMMA WindowEndKeeps ==
    ASSUME WindowsInv, NEW k \in Windows!Keys, Windows!Expire(k)
    PROVE  WindowsInv'
<1>1. /\ window' = [window EXCEPT ![k] = 0] /\ lost' = [lost EXCEPT ![k] = 0]
      /\ UNCHANGED <<minute, check, outcome, decided>>
      /\ Gone(k)
  BY DEF Windows!Expire, Gone
<1>2. Windows!TypeOK' /\ NoOutcomeYet'
  BY <1>1, LimitType DEF WindowsInv, Windows!TypeOK, NoOutcomeYet, Windows!Limit
<1>3. \A x : /\ Windows!GrantedIn(x)' = Windows!GrantedIn(x)
             /\ Windows!InTime(x)' = Windows!InTime(x)
  BY <1>1 DEF Windows!GrantedIn, Windows!InTime, Windows!SubjectsOf, Windows!Window
<1>4. \A x : Gone(x)' <=> Gone(x)
  BY <1>1 DEF Gone, Windows!Window
<1>5. CountersHeld' /\ Windows!WindowBound'
  BY <1>1, <1>3, <1>4, SameCounting
  DEF WindowsInv, Windows!TypeOK, CountersHeld, Windows!WindowBound, Windows!Limit
<1> QED
  BY <1>2, <1>5 DEF WindowsInv

LEMMA WindowsInvStep == WindowsInv /\ [Windows!Next]_windowsVars => WindowsInv'
<1> SUFFICES ASSUME WindowsInv, [Windows!Next]_windowsVars
             PROVE  WindowsInv'
  OBVIOUS
<1>1. CASE UNCHANGED windowsVars
  <2> USE <1>1 DEF windowsVars
  <2>1. \A k : /\ Windows!GrantedIn(k)' = Windows!GrantedIn(k)
               /\ Windows!InTime(k)' = Windows!InTime(k)
    BY DEF Windows!GrantedIn, Windows!InTime, Windows!SubjectsOf, Windows!Window
  <2>2. \A k : Gone(k)' <=> Gone(k)
    BY DEF Gone, Windows!Window
  <2> QED
    BY <2>1, <2>2, SameCounting
    DEF WindowsInv, Windows!TypeOK, NoOutcomeYet, CountersHeld, Windows!WindowBound, Windows!Limit
<1> QED
  BY <1>1, ArriveKeeps, EndKeeps, AllowKeeps, MinuteKeeps, WindowEndKeeps DEF Windows!Next

-----------------------------------------------------------------------------
(* The gates together                                                      *)

\* No window of an installation or an account grants more than its limit while
\* it is current, and until it is over its counter is what was granted in it and
\* what was lost, whatever expires under a late request (check_v2_analysis).
THEOREM WindowsKept ==
    GatesSpec => [](Windows!TypeOK /\ Windows!WindowBound /\ Windows!CountersExact)
<1>1. GatesInit => WindowsInv
  BY WindowsInvInit DEF GatesInit
<1>2. WindowsInv /\ [GatesNext]_gatesVars => WindowsInv'
  BY WindowsInvStep DEF GatesNext, gatesVars
<1>3. WindowsInv => Windows!TypeOK /\ Windows!WindowBound /\ Windows!CountersExact
  BY WindowsInvExact DEF WindowsInv
<1> QED
  BY <1>1, <1>2, <1>3, PTL DEF GatesSpec

\* ... and no stretch of time admits more than a full bucket and its refill, of
\* workers that commit before the clock they read moves on (admit_global).
THEOREM RatesKept ==
    ASSUME ~StaleClock
    PROVE  GatesSpec => []RatesBound
<1>1. GatesInit => BucketInv
  BY BucketInvInit DEF GatesInit
<1>2. BucketInv /\ [GatesNext]_gatesVars => BucketInv'
  BY BucketInvStep DEF GatesNext, gatesVars
<1>3. Windows!WindowBound /\ Windows!CountersExact /\ BucketInv => RatesBound
  BY BucketInvRateBound DEF RatesBound
<1> QED
  BY <1>1, <1>2, <1>3, WindowsKept, PTL DEF GatesSpec
=============================================================================
