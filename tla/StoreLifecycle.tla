--------------------------- MODULE StoreLifecycle ---------------------------
(***************************************************************************)
(* mobile/src/storage/DataProvider.tsx and, line for line the same,        *)
(* workspace/WorkspaceProvider.tsx: every mount of the provider opens the  *)
(* one database of the app, and a new mount must not open it before the    *)
(* one before has closed it.  The coordinator chains the lifecycles of the *)
(* mounts and forgets a chain that ended well.                             *)
(***************************************************************************)
EXTENDS Integers

CONSTANT MaxMounts   \* bound of the model

Mounts == 1 .. MaxMounts
None   == 0

ASSUME MaxMountsAssumption == MaxMounts \in Nat \ {0}

VARIABLES
    life,      \* where ownLifecycle of each mount is
    active,    \* mounts whose effect was not cleaned up
    prior,     \* the promise each mount's lifecycle is chained to, or None
    handoff,   \* handoffs.get(databaseIdentity)
    status,    \* what the provider shows
    opened     \* mounts whose repository may still hold the database

vars == <<life, active, prior, handoff, status, opened>>

\* closed and unclosed are the lifecycle's TRUE and FALSE.
Places == {"unmounted", "chained", "opening", "owning", "closing",
           "closed", "unclosed"}

Init ==
    /\ life = [m \in Mounts |-> "unmounted"]
    /\ active = {}
    /\ prior = [m \in Mounts |-> None]
    /\ handoff = None
    /\ status = [m \in Mounts |-> "loading"]
    /\ opened = {}

Show(m, s) == status' = IF m \in active THEN [status EXCEPT ![m] = s] ELSE status

\* The effect runs: coordinate chains the lifecycle to the one before.
Mount(m) ==
    /\ life[m] = "unmounted" /\ \A n \in 1 .. m - 1 : life[n] # "unmounted"
    /\ life' = [life EXCEPT ![m] = "chained"]
    /\ prior' = [prior EXCEPT ![m] = handoff]
    /\ handoff' = m
    /\ active' = active \cup {m}
    /\ UNCHANGED <<status, opened>>

\* The effect is cleaned up: active = false, and disposed resolves.
Unmount(m) ==
    /\ m \in active
    /\ active' = active \ {m}
    /\ UNCHANGED <<life, prior, handoff, status, opened>>

Settled(m) == life[m] \in {"closed", "unclosed"}

\* The prior lifecycle did not close its repository: this one opens none.
Block(m) ==
    /\ life[m] = "chained"
    /\ prior[m] # None /\ life[prior[m]] = "unclosed"
    /\ life' = [life EXCEPT ![m] = "unclosed"]
    /\ Show(m, "blocked")
    /\ UNCHANGED <<active, prior, handoff, opened>>

PriorClosed_Settled(m) == prior[m] # None => Settled(prior[m])
PriorClosed(m)         == prior[m] # None => life[prior[m]] = "closed"

\* The repository is kept as soon as it is made, for close to find it.
Made_Late(m) == UNCHANGED opened
Made(m)      == opened' = opened \cup {m}

Open(m) ==
    /\ life[m] = "chained" /\ PriorClosed(m)
    /\ \/ /\ life' = [life EXCEPT ![m] = "opening"]    \* initialize is awaited
          /\ Made(m)
          /\ UNCHANGED status
       \/ /\ life' = [life EXCEPT ![m] = "closing"]    \* a foreign identity
          /\ Made(m)
          /\ Show(m, "blocked")
       \/ /\ life' = [life EXCEPT ![m] = "closed"]     \* the factory throws
          /\ Show(m, "blocked")
          /\ UNCHANGED opened
    /\ UNCHANGED <<active, prior, handoff>>

Initialized(m) ==
    /\ life[m] = "opening"
    /\ \/ /\ m \in active
          /\ life' = [life EXCEPT ![m] = "owning"]
          /\ Show(m, "ready")
       \/ /\ m \notin active
          /\ life' = [life EXCEPT ![m] = "closing"]
          /\ UNCHANGED status
       \/ /\ life' = [life EXCEPT ![m] = "closing"]    \* initialize fails
          /\ Show(m, "blocked")
    /\ UNCHANGED <<active, prior, handoff, opened>>

\* await disposed
Disposed_Never(m) == FALSE
Disposed(m)       == m \notin active

Dispose(m) ==
    /\ life[m] = "owning" /\ Disposed(m)
    /\ life' = [life EXCEPT ![m] = "closing"]
    /\ UNCHANGED <<active, prior, handoff, status, opened>>

Close(m, ok) ==
    /\ life[m] = "closing"
    /\ life' = [life EXCEPT ![m] = IF ok THEN "closed" ELSE "unclosed"]
    /\ opened' = IF ok THEN opened \ {m} ELSE opened
    /\ UNCHANGED <<active, prior, handoff, status>>

\* The coordinator forgets the chain when its last lifecycle ended well.
Last(m)     == handoff = m

Forget(m) ==
    /\ life[m] = "closed" /\ handoff # None /\ Last(m)
    /\ handoff' = None
    /\ UNCHANGED <<life, active, prior, status, opened>>

Settle(m) ==
    \/ Block(m) \/ Open(m) \/ Initialized(m) \/ Dispose(m) \/ Forget(m)
    \/ \E ok \in BOOLEAN : Close(m, ok)

Next == \E m \in Mounts : Mount(m) \/ Unmount(m) \/ Settle(m)

\* Promises settle: opening and closing a database ends, well or badly.
Fairness == \A m \in Mounts : WF_vars(Settle(m))

Spec == Init /\ [][Next]_vars /\ Fairness

-----------------------------------------------------------------------------
(* Properties                                                              *)

TypeOK ==
    /\ life \in [Mounts -> Places]
    /\ active \subseteq Mounts /\ opened \subseteq Mounts
    /\ prior \in [Mounts -> Mounts \cup {None}]
    /\ handoff \in Mounts \cup {None}
    /\ status \in [Mounts -> {"loading", "ready", "blocked"}]
    /\ \A m \in Mounts : life[m] \in {"opening", "owning", "closing"} => m \in opened

\* However mounts, unmounts and failures interleave, two repositories never
\* have the database open: not while the one before is still closing, and
\* never again after a close that failed.
OneOwner == \A m, n \in opened : m = n

\* A provider does not load for ever when the providers before it are gone.
MountsDecide ==
    \A m \in Mounts :
        []<>~(m \in active /\ active \cap (1 .. m - 1) = {} /\ status[m] = "loading")
=============================================================================
