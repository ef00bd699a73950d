--------------------------- MODULE LifecyclesProofs ---------------------------
(***************************************************************************)
(* That the owners of a database, Delete All, the requests to the server   *)
(* and the history of the reports keep what they promise, for any number   *)
(* of mounts, items, requests and reports, and that all that is beside     *)
(* them keeps its type.  Each part is proved from its own invariant; a     *)
(* behaviour of all of them steps one and leaves the others alone.         *)
(***************************************************************************)
EXTENDS MCLifecycles, Sequences, FiniteSetTheorems, SequenceTheorems, TLAPS

-----------------------------------------------------------------------------
(* StoreLifecycle: the database has one owner.  A lifecycle that began has *)
(* only closed ones before it: mounts are chained to their predecessor, or *)
(* to nothing when the chain before them was forgotten, and it is forgotten *)
(* only when all of it is closed.                                          *)

ClosedBefore(n) == \A k \in Mounts : k < n => life[k] = "closed"

Holds(n) == life[n] \in {"opening", "owning", "closing", "unclosed"}
Begun(n) == life[n] \in {"opening", "owning", "closing", "closed"}

\* The mounts are made one after the other.
InOrder ==
    \A m, n \in Mounts : m < n /\ life[n] # "unmounted" => life[m] # "unmounted"

\* A mount waits for the one before it, or for none when all are closed.
Chained ==
    \A n \in Mounts :
        /\ prior[n] # None => prior[n] = n - 1
        /\ prior[n] = None /\ life[n] # "unmounted" => ClosedBefore(n)

\* The handoff is the last mount; without one every mount is closed.
HandoffLast ==
    /\ handoff = None => \A m \in Mounts : life[m] \in {"unmounted", "closed"}
    /\ handoff # None => /\ life[handoff] # "unmounted"
                         /\ \A m \in Mounts : handoff < m => life[m] = "unmounted"

OwnersLast ==
    /\ \A n \in Mounts : Begun(n) => ClosedBefore(n)
    /\ \A n \in opened : Holds(n) /\ ClosedBefore(n)

OwnerInv == TypeOK /\ InOrder /\ Chained /\ HandoffLast /\ OwnersLast

LEMMA OwnerInvInit == Init => OwnerInv
BY MaxMountsAssumption
DEF Init, OwnerInv, TypeOK, InOrder, Chained, HandoffLast, OwnersLast, Holds, Begun,
    ClosedBefore, Places, Mounts, None

LEMMA OwnerInvOneOwner == OwnerInv => OneOwner
BY MaxMountsAssumption
DEF OwnerInv, TypeOK, OwnersLast, Holds, OneOwner, ClosedBefore, Mounts

-----------------------------------------------------------------------------
(* The steps that only move a lifecycle on                                 *)

\* A lifecycle that is neither new nor closed moves on to be anything but new;
\* it is closed, or begun, only when the ones before it are closed.
Moves(m) ==
    /\ life[m] \notin {"unmounted", "closed"}
    /\ \E p \in Places \ {"unmounted"} : life' = [life EXCEPT ![m] = p]
    /\ Begun(m)' => ClosedBefore(m)
    /\ opened' \subseteq opened \cup {m}
    /\ m \in opened' => Holds(m)' /\ ClosedBefore(m)
    /\ UNCHANGED <<prior, handoff>>

LEMMA MovesKeepOwners ==
    ASSUME OwnerInv, TypeOK', NEW m \in Mounts, Moves(m)
    PROVE  OwnerInv'
<1> USE MaxMountsAssumption DEF OwnerInv, TypeOK, Mounts, None
<1>1. PICK p \in Places \ {"unmounted"} : life' = [life EXCEPT ![m] = p]
  BY DEF Moves
<1>2. \A n \in Mounts : ClosedBefore(n) => ClosedBefore(n)'
  BY <1>1 DEF Moves, ClosedBefore
<1>3. InOrder'
  BY <1>1 DEF Moves, InOrder, Places
<1>4. Chained'
  BY <1>1, <1>2 DEF Moves, Chained
<1>5. HandoffLast'
  BY <1>1 DEF Moves, HandoffLast, Places
<1>6. OwnersLast'
  <2>1. ASSUME NEW n \in Mounts, Begun(n)'
        PROVE  ClosedBefore(n)'
    BY <1>1, <1>2, <2>1 DEF Moves, OwnersLast, Holds, Begun
  <2>2. ASSUME NEW n \in opened'
        PROVE  Holds(n)' /\ ClosedBefore(n)'
    BY <1>1, <1>2, <2>2 DEF Moves, OwnersLast, Holds
  <2> QED
    BY <2>1, <2>2 DEF OwnersLast, Holds
<1> QED
  BY <1>3, <1>4, <1>5, <1>6

LEMMA SettleTypes ==
    ASSUME TypeOK, NEW m \in Mounts, Settle(m)
    PROVE  TypeOK'
<1> USE DEF TypeOK, Places, Show
<1>1. CASE Block(m)
  BY <1>1 DEF Block
<1>2. CASE Open(m)
  BY <1>2 DEF Open, Made
<1>3. CASE Initialized(m)
  BY <1>3 DEF Initialized
<1>4. CASE Dispose(m)
  BY <1>4 DEF Dispose
<1>5. CASE Forget(m)
  BY <1>5 DEF Forget
<1>6. ASSUME NEW ok \in BOOLEAN, Close(m, ok)
      PROVE  TypeOK'
  BY <1>6 DEF Close
<1> QED
  BY <1>1, <1>2, <1>3, <1>4, <1>5, <1>6 DEF Settle

-----------------------------------------------------------------------------
(* Every step                                                              *)

\* A lifecycle that is let in has only closed ones before it.
LEMMA LetIn ==
    ASSUME OwnerInv, NEW m \in Mounts, life[m] = "chained", PriorClosed(m)
    PROVE  ClosedBefore(m)
<1> USE MaxMountsAssumption DEF OwnerInv, TypeOK, Mounts, None
<1>1. CASE prior[m] = None
  BY <1>1 DEF Chained
<1>2. CASE prior[m] # None
  <2>1. prior[m] = m - 1 /\ m - 1 \in Mounts /\ life[m - 1] = "closed"
    BY <1>2 DEF Chained, PriorClosed
  <2>2. ClosedBefore(m - 1)
    BY <2>1 DEF OwnersLast, Holds, Begun
  <2> QED
    BY <2>1, <2>2 DEF ClosedBefore
<1> QED
  BY <1>1, <1>2

LEMMA SettleKeepsOwners ==
    ASSUME OwnerInv, NEW m \in Mounts, Settle(m)
    PROVE  OwnerInv'
<1>0. TypeOK'
  BY SettleTypes DEF OwnerInv
<1> USE DEF OwnerInv, TypeOK
<1>1. CASE Block(m)
  <2>1. m \notin opened
    BY <1>1, MaxMountsAssumption
    DEF Block, Chained, OwnersLast, Holds, ClosedBefore, Mounts, None
  <2>2. Moves(m)
    BY <1>1, <2>1 DEF Block, Moves, Begun, Places
  <2> QED
    BY <1>0, <2>2, MovesKeepOwners
<1>2. CASE Open(m)
  <2>1. ClosedBefore(m)
    BY <1>2, LetIn DEF Open
  <2>2. Moves(m)
    BY <1>2, <2>1 DEF Open, Made, Moves, Places, OwnersLast, Holds, Show
  <2> QED
    BY <1>0, <2>2, MovesKeepOwners
<1>3. CASE Initialized(m)
  <2>1. Moves(m)
    BY <1>3 DEF Initialized, Moves, Begun, Places, OwnersLast, Holds
  <2> QED
    BY <1>0, <2>1, MovesKeepOwners
<1>4. CASE Dispose(m)
  <2>1. Moves(m)
    BY <1>4 DEF Dispose, Moves, Begun, Places, OwnersLast, Holds
  <2> QED
    BY <1>0, <2>1, MovesKeepOwners
<1>5. CASE Forget(m)
  <2>1. \A n \in Mounts : life[n] \in {"unmounted", "closed"}
    BY <1>5, MaxMountsAssumption
    DEF Forget, Last, OwnersLast, Holds, Begun, ClosedBefore, HandoffLast,
        Mounts, None
  <2>2. InOrder' /\ Chained' /\ OwnersLast'
    BY <1>5 DEF Forget, InOrder, Chained, OwnersLast, Holds, ClosedBefore, Begun
  <2> QED
    BY <1>0, <1>5, <2>1, <2>2 DEF Forget, HandoffLast
<1>6. ASSUME NEW ok \in BOOLEAN, Close(m, ok)
      PROVE  OwnerInv'
  <2>1. Moves(m)
    BY <1>6 DEF Close, Moves, Begun, Places, OwnersLast, Holds
  <2> QED
    BY <1>0, <2>1, MovesKeepOwners
<1> QED
  BY <1>1, <1>2, <1>3, <1>4, <1>5, <1>6 DEF Settle

LEMMA MountKeepsOwners ==
    ASSUME OwnerInv, NEW m \in Mounts, Mount(m)
    PROVE  OwnerInv'
<1> USE MaxMountsAssumption DEF OwnerInv, TypeOK, Mount, Mounts, None, Places
<1>1. TypeOK'
  OBVIOUS
<1>2. \A n \in Mounts : m < n => life[n] = "unmounted"
  BY DEF InOrder
<1>3. \A n \in Mounts : n # m /\ ClosedBefore(n) => ClosedBefore(n)'
  BY DEF ClosedBefore
<1>4. InOrder'
  BY <1>2 DEF InOrder
<1>5. handoff = None => ClosedBefore(m)'
  BY DEF HandoffLast, ClosedBefore
<1>6. handoff # None => handoff = m - 1
  BY <1>2 DEF HandoffLast
<1>7. Chained'
  BY <1>3, <1>5, <1>6 DEF Chained
<1>8. HandoffLast'
  BY <1>2 DEF HandoffLast
<1>9. OwnersLast'
  <2>1. m \notin opened
    BY DEF OwnersLast, Holds
  <2> QED
    BY <1>3, <2>1 DEF OwnersLast, Holds, Begun
<1> QED
  BY <1>1, <1>4, <1>7, <1>8, <1>9

LEMMA StepKeepsOwners == OwnerInv /\ [Next]_vars => OwnerInv'
<1> SUFFICES ASSUME OwnerInv, [Next]_vars
             PROVE  OwnerInv'
  OBVIOUS
<1>1. ASSUME NEW m \in Mounts, Mount(m)
      PROVE  OwnerInv'
  BY <1>1, MountKeepsOwners
<1>2. ASSUME NEW m \in Mounts, Unmount(m)
      PROVE  OwnerInv'
  BY <1>2
  DEF Unmount, OwnerInv, TypeOK, InOrder, Chained, HandoffLast, OwnersLast, Holds,
      ClosedBefore, Begun
<1>3. ASSUME NEW m \in Mounts, Settle(m)
      PROVE  OwnerInv'
  BY <1>3, SettleKeepsOwners
<1>4. CASE UNCHANGED vars
  BY <1>4
  DEF vars, OwnerInv, TypeOK, InOrder, Chained, HandoffLast, OwnersLast, Holds,
      ClosedBefore, Begun
<1> QED
  BY <1>1, <1>2, <1>3, <1>4 DEF Next

LEMMA OwnersKept == LifecyclesSpec => []OwnerInv
<1>1. LifecyclesInit => OwnerInv
  BY OwnerInvInit DEF LifecyclesInit
<1>2. OwnerInv /\ [LifecyclesNext]_lifecyclesVars => OwnerInv'
  BY StepKeepsOwners DEF LifecyclesNext, lifecyclesVars
<1> QED
  BY <1>1, <1>2, PTL DEF LifecyclesSpec

\* Two mounts of the app never have the database open together, for any
\* number of mounts and however they overlap, unmount and fail.
THEOREM OneOwnerAlways == LifecyclesSpec => []OneOwner
BY OwnersKept, OwnerInvOneOwner, PTL

\* The type invariant of StoreLifecycle, from the same inductive invariant.
THEOREM StoreTypeCorrect == LifecyclesSpec => []TypeOK
<1>1. OwnerInv => TypeOK
  BY DEF OwnerInv
<1> QED
  BY <1>1, OwnersKept, PTL

-----------------------------------------------------------------------------
(* LocalErasure: what the flight has cleared it still finds cleared of what *)
(* there was when its journal was created, whoever creates more; and the    *)
(* flight of a Delete All creates a journal when it finds none.             *)

Gone(s) == store[s] \cap begun = {}

RunTypes ==
    /\ run \in [pc : Erasure!Steps, creates : BOOLEAN, cleared : SUBSET Erasure!Stores]
    /\ run.pc \in {"clear", "mark"} => run.cleared # Erasure!Stores
    /\ run.pc \in {"finish", "done"} => run.cleared = Erasure!Stores

RunHonest ==
    /\ run.pc \in {"clear", "mark", "finish", "done"} => \A s \in run.cleared : Gone(s)
    /\ run.pc = "mark" => Gone(Erasure!NextStore)
    /\ run.pc = "done" => journal = Erasure!Absent

\* Nobody presses while a flight is under way, and one that was pressed for
\* does not end with nothing to resume.
PresserErases ==
    /\ ~busy => run.pc = "none"
    /\ presser => run.creates /\ run.pc # "none"
    /\ run.pc = "nothing" => ~run.creates

ErasureInv ==
    /\ Erasure!TypeOK /\ begun \subseteq Erasure!Items
    /\ RunTypes /\ RunHonest /\ PresserErases /\ JournalHonest

\* The next store is one that is not cleared yet.
LEMMA NextIsAStore ==
    ASSUME run.cleared \subseteq Erasure!Stores, run.cleared # Erasure!Stores
    PROVE  Erasure!NextStore \in Erasure!Stores \ run.cleared
<1>1. \E s \in Erasure!Stores \ run.cleared :
         \A i, j \in 1 .. 3 : Erasure!Order[i] = s /\ j < i => Erasure!Order[j] \in run.cleared
  <2> USE DEF Erasure!Stores, Erasure!Order
  <2>1. CASE "session" \notin run.cleared
    BY <2>1
  <2>2. CASE "session" \in run.cleared /\ "reports" \notin run.cleared
    BY <2>2
  <2>3. CASE "session" \in run.cleared /\ "reports" \in run.cleared
    <3>1. "workspace" \notin run.cleared
      BY <2>3
    <3> QED
      BY <2>3, <3>1
  <2> QED
    BY <2>1, <2>2, <2>3
<1> QED
  BY <1>1 DEF Erasure!NextStore

LEMMA ErasureInvInit == Erasure!Init => ErasureInv
<1> SUFFICES ASSUME Erasure!Init
             PROVE  ErasureInv
  OBVIOUS
<1> USE DEF Erasure!Init, Erasure!NoRun, Erasure!Steps
<1>1. Erasure!TypeOK /\ begun \subseteq Erasure!Items
  BY DEF Erasure!TypeOK, Erasure!Journal
<1>2. RunTypes /\ RunHonest /\ PresserErases
  BY DEF RunTypes, RunHonest, PresserErases
<1>3. JournalHonest
  BY DEF JournalHonest, Erasure!JournalHonest
<1> QED
  BY <1>1, <1>2, <1>3 DEF ErasureInv

\* A store that is emptied, or keeps a part, or gets what was not there when
\* the journal was created, stays honest.
LEMMA OnlyNewComes ==
    ASSUME ErasureInv, UNCHANGED <<begun, journal>>,
           store' \in [Erasure!Stores -> SUBSET Erasure!Items],
           \A s \in Erasure!Stores : store'[s] \cap begun \subseteq store[s]
    PROVE  /\ JournalHonest'
           /\ \A s \in Erasure!Stores : Gone(s) => Gone(s)'
<1>1. \A s \in Erasure!Stores : Gone(s) => Gone(s)'
  BY DEF Gone
<1>2. journal # Erasure!Absent => journal \subseteq Erasure!Stores
  BY DEF ErasureInv, Erasure!TypeOK, Erasure!Journal
<1>3. JournalHonest'
  BY <1>2 DEF ErasureInv, JournalHonest, Erasure!JournalHonest
<1> QED
  BY <1>1, <1>3

LEMMA ErasureInvStep == ErasureInv /\ [Erasure!Next]_erasureVars => ErasureInv'
<1> SUFFICES ASSUME ErasureInv, [Erasure!Next]_erasureVars
             PROVE  ErasureInv'
  OBVIOUS
<1> USE DEF ErasureInv, Erasure!TypeOK, RunTypes, RunHonest, PresserErases, Erasure!Steps
<1>1. CASE Erasure!ReadJournal
  <2> USE <1>1 DEF Erasure!ReadJournal, Erasure!Progress, JournalHonest, Erasure!JournalHonest, Gone
  <2>1. CASE journal = Erasure!Absent /\ ~run.creates
    BY <2>1
  <2>2. CASE journal = Erasure!Absent /\ run.creates
    <3>1. {} # Erasure!Absent /\ {} \in Erasure!Journal /\ {} # Erasure!Stores
      BY DEF Erasure!Absent, Erasure!Journal, Erasure!Stores
    <3>2. Erasure!Everything \subseteq Erasure!Items
      BY DEF Erasure!Everything
    <3> QED
      BY <2>2, <3>1, <3>2
  <2>3. CASE journal # Erasure!Absent
    <3>1. journal \in SUBSET Erasure!Stores
      BY <2>3 DEF Erasure!Journal
    <3> QED
      BY <2>3, <3>1
  <2> QED
    BY <2>1, <2>2, <2>3
<1>2. CASE Erasure!ClearStore
  <2>1. Erasure!NextStore \in Erasure!Stores \ run.cleared
    BY <1>2, NextIsAStore DEF Erasure!ClearStore
  <2>2. run'.cleared = run.cleared /\ run' = [run EXCEPT !.pc = "mark"]
    BY <1>2 DEF Erasure!ClearStore
  <2>3. Erasure!NextStore' = Erasure!NextStore
    BY <2>2 DEF Erasure!NextStore
  <2>4. JournalHonest' /\ \A s \in Erasure!Stores : Gone(s) => Gone(s)'
    BY <1>2, <2>1, OnlyNewComes DEF Erasure!ClearStore
  <2>5. Gone(Erasure!NextStore)'
    BY <1>2, <2>1, <2>3 DEF Erasure!ClearStore, Gone
  <2> QED
    BY <1>2, <2>1, <2>2, <2>3, <2>4, <2>5 DEF Erasure!ClearStore
<1>3. CASE Erasure!MarkCleared
  <2>1. Erasure!NextStore \in Erasure!Stores \ run.cleared
    BY <1>3, NextIsAStore DEF Erasure!MarkCleared
  <2>2. run.cleared \cup {Erasure!NextStore} \subseteq Erasure!Stores
    BY <2>1
  <2> HIDE DEF Erasure!NextStore
  <2>3. \A s \in Erasure!Stores : Gone(s)' = Gone(s)
    BY <1>3 DEF Erasure!MarkCleared, Gone
  <2> QED
    BY <1>3, <2>1, <2>2, <2>3
    DEF Erasure!MarkCleared, Erasure!Progress, JournalHonest, Erasure!JournalHonest, Gone,
        Erasure!Journal, Erasure!Absent
<1>4. CASE Erasure!ClearJournal
  BY <1>4
  DEF Erasure!ClearJournal, JournalHonest, Erasure!JournalHonest, Gone, Erasure!Journal
<1>5. CASE Erasure!ClearFails
  <2>1. Erasure!NextStore \in Erasure!Stores \ run.cleared
    BY <1>5, NextIsAStore DEF Erasure!ClearFails
  <2>2. JournalHonest'
    BY <1>5, <2>1, OnlyNewComes DEF Erasure!ClearFails
  <2> QED
    BY <1>5, <2>1, <2>2 DEF Erasure!ClearFails
<1>6. CASE Erasure!JournalFails
  BY <1>6 DEF Erasure!JournalFails, JournalHonest, Erasure!JournalHonest
<1>7. CASE Erasure!Resume
  <2>1. run.pc # "none" => run' = run
    BY <1>7 DEF Erasure!Resume, Erasure!Flight
  <2>2. CASE run.pc # "none"
    <3>1. Erasure!NextStore' = Erasure!NextStore
      BY <2>1, <2>2 DEF Erasure!NextStore
    <3> QED
      BY <1>7, <2>1, <2>2, <3>1 DEF Erasure!Resume, JournalHonest, Erasure!JournalHonest, Gone
  <2>3. CASE run.pc = "none"
    BY <1>7, <2>3
    DEF Erasure!Resume, Erasure!Flight, Erasure!NoRun, JournalHonest, Erasure!JournalHonest
  <2> QED
    BY <2>2, <2>3
<1>8. CASE Erasure!Press
  BY <1>8
  DEF Erasure!Press, Erasure!MayPress, Erasure!Flight, Erasure!NoRun, JournalHonest,
      Erasure!JournalHonest
<1>9. CASE Erasure!Settle
  BY <1>9 DEF Erasure!Settle, Erasure!NoRun, JournalHonest, Erasure!JournalHonest
<1>10. CASE Erasure!Killed
  <2>1. JournalHonest'
    BY <1>10, OnlyNewComes DEF Erasure!Killed, Erasure!Stores
  <2> QED
    BY <1>10, <2>1 DEF Erasure!Killed, Erasure!NoRun
<1>11. ASSUME NEW s \in Erasure!Stores, Erasure!Create(s)
       PROVE  ErasureInv'
  <2>1. JournalHonest' /\ \A t \in Erasure!Stores : Gone(t) => Gone(t)'
    BY <1>11, OnlyNewComes DEF Erasure!Create
  <2>2. run' = run /\ Erasure!NextStore' = Erasure!NextStore
    BY <1>11 DEF Erasure!Create, Erasure!NextStore
  <2>3. run.pc = "mark" => Erasure!NextStore \in Erasure!Stores
    BY NextIsAStore
  <2> QED
    BY <1>11, <2>1, <2>2, <2>3 DEF Erasure!Create
<1>12. CASE UNCHANGED erasureVars
  <2>1. Erasure!NextStore' = Erasure!NextStore
    BY <1>12 DEF erasureVars, Erasure!NextStore
  <2> QED
    BY <1>12, <2>1 DEF erasureVars, JournalHonest, Erasure!JournalHonest, Gone
<1> QED
  BY <1>1, <1>2, <1>3, <1>4, <1>5, <1>6, <1>7, <1>8, <1>9, <1>10, <1>11, <1>12
  DEF Erasure!Next

LEMMA ClaimsErased ==
    ErasureInv /\ [Erasure!Next]_erasureVars
        => [message' = "cleared" /\ message # "cleared"
              => /\ run.pc = "done" /\ journal = Erasure!Absent
                 /\ Erasure!Everything \cap begun = {}]_erasureVars
<1> SUFFICES ASSUME ErasureInv, Erasure!Next, message' = "cleared", message # "cleared"
             PROVE  /\ run.pc = "done" /\ journal = Erasure!Absent
                    /\ Erasure!Everything \cap begun = {}
  BY DEF erasureVars
<1>1. Erasure!Settle
  BY DEF Erasure!Next, Erasure!ReadJournal, Erasure!ClearStore, Erasure!MarkCleared,
         Erasure!ClearJournal, Erasure!ClearFails, Erasure!JournalFails, Erasure!Resume,
         Erasure!Press, Erasure!Killed, Erasure!Create
<1>2. run.pc = "done"
  BY <1>1 DEF Erasure!Settle, ErasureInv, PresserErases
<1>3. \A s \in Erasure!Stores : Gone(s)
  BY <1>2 DEF ErasureInv, RunHonest, RunTypes
<1> QED
  BY <1>2, <1>3 DEF ErasureInv, RunHonest, Gone, Erasure!Everything

LEMMA ErasureSteps ==
    /\ LifecyclesInit => Erasure!Init
    /\ [LifecyclesNext]_lifecyclesVars => [Erasure!Next]_erasureVars
BY DEF LifecyclesInit, LifecyclesNext, lifecyclesVars

\* What the journal of Delete All calls cleared is cleared of what there was
\* when the journal was created, whatever is created, killed or fails.
THEOREM JournalsAreHonest == LifecyclesSpec => []JournalHonest
<1>1. ErasureInv => JournalHonest
  BY DEF ErasureInv
<1> QED
  BY <1>1, ErasureInvInit, ErasureInvStep, ErasureSteps, PTL DEF LifecyclesSpec

\* Success is only told by a flight that erased: what existed when its journal
\* was created is gone, and the journal after it.
THEOREM ClaimsAreTrue == LifecyclesSpec => ClaimErased
<1>1. LifecyclesSpec =>
        [][message' = "cleared" /\ message # "cleared"
             => /\ run.pc = "done" /\ journal = Erasure!Absent
                /\ Erasure!Everything \cap begun = {}]_erasureVars
  BY ErasureInvInit, ErasureInvStep, ErasureSteps, ClaimsErased, PTL DEF LifecyclesSpec
<1> QED
  BY <1>1, PTL DEF ClaimErased, Erasure!ClaimErased, Erasure!vars, erasureVars

-----------------------------------------------------------------------------
(* ApiRequest: where a request is tells what it has: a token from its       *)
(* headers on, one POST from the posting on, and no abort that a wait would *)
(* have noticed; and what rejected a wait tells which wait it was.          *)

Waiting(q) == step[q] \in Api!Waits
Posted(q)  == step[q] \in {"post", "post_held", "body", "body_held"}
Tokened(q) == Posted(q) \/ step[q] \in {"token_held", "account", "account_held"}

Placed(q) ==
    /\ posts[q] \in 0 .. 1 /\ used[q] \in Nat
    /\ aborted[q] \in {Nothing, "caller", "timeout"}
    /\ step[q] \notin {"rejected", "done"} => (posts[q] = 1 <=> Posted(q))
    /\ step[q] \notin {"rejected", "done"} => (used[q] # 0 <=> Tokened(q))
    /\ Waiting(q) => aborted[q] = Nothing
    /\ step[q] = "new" => aborted[q] # "timeout" /\ ~committed[q]

\* Only the token store withdraws a request or says of one "service", and only
\* fetch throws what has no category.
Rejected(q) ==
    /\ q \in withdrawn =>
          step[q] \in {"rejected", "done"} /\ posts[q] = 0 /\ used[q] = 0
    /\ step[q] = "rejected" =>
          /\ result[q] \in {"cancelled", "network", "service", "invalid_response", "error"}
          /\ result[q] = "cancelled" => q \in withdrawn
          /\ result[q] = "service" => posts[q] = 0 /\ used[q] = 0
          /\ result[q] = "error" => used[q] # 0

\* What the caller of q is told, as Api!ToldTruth has it.
Told(q) ==
    step[q] = "done" =>
        /\ result[q] = "indeterminate" =>
              committed[q] /\ aborted[q] # Nothing /\ posts[q] = 0 /\ q \notin withdrawn
        /\ result[q] = "cancelled" =>
              \/ aborted[q] = "caller" /\ (posts[q] = 0 /\ used[q] = 0 => ~committed[q])
              \/ q \in withdrawn /\ posts[q] = 0
        /\ result[q] = "timeout" =>
              aborted[q] = "timeout" /\ (used[q] = 0 /\ q \notin withdrawn => ~committed[q])
        /\ result[q] = "ok" => posts[q] = 1 /\ used[q] # 0
        /\ result[q] = "service" => (posts[q] = 1 <=> used[q] # 0)

Sound(q) == Placed(q) /\ Rejected(q) /\ Told(q) /\ used[q] <= tokens

ApiInv ==
    /\ Api!TypeOK /\ token <= tokens
    /\ \A q \in Api!Requests : Sound(q)

LEMMA PlaceNames ==
    /\ {"token", "account", "post", "body"} \subseteq Api!Waits
    /\ {"token_held", "account_held", "post_held", "body_held"} \subseteq Api!Held
    /\ \A wait \in Api!Waits : Api!HeldOf(wait) \in Api!Held
BY DEF Api!Waits, Api!Held, Api!HeldOf

\* What there is of every request, without its values.
Shape ==
    /\ DOMAIN step = Api!Requests /\ DOMAIN aborted = Api!Requests
    /\ DOMAIN committed = Api!Requests /\ DOMAIN used = Api!Requests
    /\ DOMAIN posts = Api!Requests /\ DOMAIN result = Api!Requests

LEMMA ShapeKnown == Api!TypeOK => Shape /\ tokens \in Nat /\ token \in Nat
BY LifecyclesAssumption DEF Api!ApiAssumption, Api!TypeOK, Shape

LEMMA ApiInvInit == Api!Init => ApiInv
<1> SUFFICES ASSUME Api!Init
             PROVE  ApiInv
  OBVIOUS
<1> USE LifecyclesAssumption DEF Api!ApiAssumption, Api!Init
<1>1. Api!TypeOK
  BY DEF Api!TypeOK
<1>2. \A q \in Api!Requests : Sound(q)
  BY DEF Sound, Placed, Rejected, Told, Waiting, Posted, Tokened, Api!Waits
<1> QED
  BY <1>1, <1>2 DEF ApiInv

LEMMA ApiTypesKept == ApiInv /\ [Api!Next]_apiVars => Api!TypeOK' /\ (token <= tokens)'
<1> SUFFICES ASSUME ApiInv, [Api!Next]_apiVars
             PROVE  Api!TypeOK' /\ (token <= tokens)'
  OBVIOUS
<1> USE LifecyclesAssumption, PlaceNames
    DEF Api!ApiAssumption, ApiInv, Api!TypeOK, Api!tokens, Api!noted, Api!To, Api!Ends,
        Api!AbortCategory, Api!GivesUp
<1>1. ASSUME NEW q \in Api!Requests, Api!Begin(q)
      PROVE  Api!TypeOK' /\ (token <= tokens)'
  BY <1>1 DEF Api!Begin
<1>2. ASSUME NEW q \in Api!Requests, Api!AskAccount(q)
      PROVE  Api!TypeOK' /\ (token <= tokens)'
  BY <1>2 DEF Api!AskAccount
<1>3. ASSUME NEW q \in Api!Requests, Api!Post(q)
      PROVE  Api!TypeOK' /\ (token <= tokens)'
  <2>1. Api!TypeOK'
    BY <1>3 DEF Api!Post, Api!MayPost
  <2>2. (token <= tokens)'
    BY <1>3 DEF Api!Post, Api!MayPost
  <2> QED
    BY <2>1, <2>2
<1>4. ASSUME NEW q \in Api!Requests, Api!PostUnwanted(q)
      PROVE  Api!TypeOK' /\ (token <= tokens)'
  BY <1>4 DEF Api!PostUnwanted, Api!MayPost
<1>5. ASSUME NEW q \in Api!Requests, Api!ReadBody(q)
      PROVE  Api!TypeOK' /\ (token <= tokens)'
  BY <1>5 DEF Api!ReadBody
<1>6. ASSUME NEW q \in Api!Requests, Api!Succeeds(q)
      PROVE  Api!TypeOK' /\ (token <= tokens)'
  BY <1>6 DEF Api!Succeeds
<1>7. ASSUME NEW q \in Api!Requests, Api!ServiceFails(q)
      PROVE  Api!TypeOK' /\ (token <= tokens)'
  BY <1>7 DEF Api!ServiceFails
<1>8. ASSUME NEW q \in Api!Requests, Api!Refused(q)
      PROVE  Api!TypeOK' /\ (token <= tokens)'
  <2>0. used[q] \in 1 .. tokens
    BY <1>8 DEF Api!Refused, Sound, Placed, Tokened, Posted
  <2>1. Api!TypeOK'
    BY <1>8, <2>0 DEF Api!Refused
  <2>2. (token <= tokens)'
    BY <1>8 DEF Api!Refused, Sound, Placed, Tokened, Posted
  <2> QED
    BY <2>1, <2>2
<1>9. ASSUME NEW q \in Api!Requests, Api!CallerAborts(q)
      PROVE  Api!TypeOK' /\ (token <= tokens)'
  BY <1>9 DEF Api!CallerAborts, Api!Abort, Api!Outcome
<1>10. ASSUME NEW q \in Api!Requests, Api!TimesOut(q)
       PROVE  Api!TypeOK' /\ (token <= tokens)'
  BY <1>10 DEF Api!TimesOut, Api!Abort, Api!Outcome
<1>11. ASSUME NEW q \in Api!Requests, Api!CommitStarts(q)
       PROVE  Api!TypeOK' /\ (token <= tokens)'
  BY <1>11 DEF Api!CommitStarts
<1>12. ASSUME NEW q \in Api!Requests, Api!Stores(q)
       PROVE  Api!TypeOK' /\ (token <= tokens)'
  <2>1. Api!TypeOK'
    BY <1>12 DEF Api!Stores
  <2>2. (token <= tokens)'
    BY <1>12 DEF Api!Stores
  <2> QED
    BY <2>1, <2>2
<1>13. ASSUME NEW q \in Api!Requests, Api!TokenAnswered(q)
       PROVE  Api!TypeOK' /\ (token <= tokens)'
  BY <1>13 DEF Api!TokenAnswered, Api!Answered
<1>14. ASSUME NEW q \in Api!Requests, Api!Settles(q)
       PROVE  Api!TypeOK' /\ (token <= tokens)'
  BY <1>14 DEF Api!Settles, Api!Answered
<1>15. ASSUME NEW q \in Api!Requests, Api!Fails(q)
       PROVE  Api!TypeOK' /\ (token <= tokens)'
  BY <1>15 DEF Api!Fails, Api!Rejections
<1>16. ASSUME NEW q \in Api!Requests, Api!Rethrow(q)
       PROVE  Api!TypeOK' /\ (token <= tokens)'
  BY <1>16 DEF Api!Rethrow, Api!Rethrown
<1>17. CASE Api!Invalidated
  <2>1. Api!TypeOK'
    BY <1>17 DEF Api!Invalidated
  <2>2. (token <= tokens)'
    BY <1>17 DEF Api!Invalidated
  <2> QED
    BY <2>1, <2>2
<1>18. CASE UNCHANGED apiVars
  BY <1>18 DEF apiVars
<1> QED
  BY <1>1, <1>2, <1>3, <1>4, <1>5, <1>6, <1>7, <1>8, <1>9, <1>10, <1>11, <1>12, <1>13, <1>14, <1>15, <1>17, <1>18, <1>16
  DEF Api!Next, Api!Continues

\* A step of one request leaves the others alone.
LEMMA OthersStaySound ==
    ASSUME ApiInv, Api!TypeOK', NEW q \in Api!Requests, Sound(q)', tokens <= tokens',
           \A r \in Api!Requests \ {q} :
              /\ step'[r] = step[r] /\ aborted'[r] = aborted[r] /\ committed'[r] = committed[r]
              /\ used'[r] = used[r] /\ posts'[r] = posts[r] /\ result'[r] = result[r]
              /\ (r \in withdrawn' <=> r \in withdrawn)
    PROVE  \A r \in Api!Requests : Sound(r)'
<1> SUFFICES ASSUME NEW r \in Api!Requests \ {q}
             PROVE  Sound(r)'
  OBVIOUS
<1>1. Placed(r)'
  BY DEF ApiInv, Sound, Placed, Posted, Tokened, Waiting
<1>2. Rejected(r)' /\ Told(r)'
  BY DEF ApiInv, Sound, Rejected, Told
<1>3. (used[r] <= tokens)'
  BY DEF ApiInv, Sound, Api!TypeOK
<1> QED
  BY <1>1, <1>2, <1>3 DEF Sound

LEMMA SoundKept == ApiInv /\ [Api!Next]_apiVars => \A q \in Api!Requests : Sound(q)'
<1> SUFFICES ASSUME ApiInv, [Api!Next]_apiVars
             PROVE  \A q \in Api!Requests : Sound(q)'
  OBVIOUS
<1>0. Api!TypeOK' /\ Shape /\ tokens \in Nat /\ tokens' \in Nat /\ token \in Nat
  <2>1. Api!TypeOK' /\ Shape /\ tokens \in Nat /\ token \in Nat
    BY ApiTypesKept, ShapeKnown DEF ApiInv
  <2>2. tokens' \in 0 .. MaxToken
    BY <2>1 DEF Api!TypeOK
  <2> QED
    BY <2>1, <2>2
<1>s. \A q \in Api!Requests : Sound(q)
  BY DEF ApiInv
<1> USE DEF Api!tokens, Api!noted
<1>1. ASSUME NEW q \in Api!Requests, Api!Begin(q)
      PROVE  \A r \in Api!Requests : Sound(r)'
  <2>1. Sound(q)'
    BY <1>0, <1>s, <1>1, LifecyclesAssumption
    DEF Api!ApiAssumption, Sound, Placed, Rejected, Told, Waiting, Posted, Tokened, Api!Waits, Api!Held,
        Shape, Api!To, Api!Ends, Api!AbortCategory, Api!GivesUp,
        Api!Begin
  <2>2. \A r \in Api!Requests \ {q} :
          /\ step'[r] = step[r] /\ aborted'[r] = aborted[r] /\ committed'[r] = committed[r]
          /\ used'[r] = used[r] /\ posts'[r] = posts[r] /\ result'[r] = result[r]
          /\ (r \in withdrawn' <=> r \in withdrawn)
    BY <1>0, <1>1 DEF Api!To, Api!Ends, Api!AbortCategory, Api!GivesUp, Shape, Api!Begin
  <2>3. tokens <= tokens'
    BY <1>0, <1>1 DEF Api!Begin
  <2> QED
    BY <1>0, <2>1, <2>2, <2>3, OthersStaySound
<1>2. ASSUME NEW q \in Api!Requests, Api!AskAccount(q)
      PROVE  \A r \in Api!Requests : Sound(r)'
  <2>1. Sound(q)'
    BY <1>0, <1>s, <1>2, LifecyclesAssumption
    DEF Api!ApiAssumption, Sound, Placed, Rejected, Told, Waiting, Posted, Tokened, Api!Waits, Api!Held,
        Shape, Api!To, Api!Ends, Api!AbortCategory, Api!GivesUp,
        Api!AskAccount
  <2>2. \A r \in Api!Requests \ {q} :
          /\ step'[r] = step[r] /\ aborted'[r] = aborted[r] /\ committed'[r] = committed[r]
          /\ used'[r] = used[r] /\ posts'[r] = posts[r] /\ result'[r] = result[r]
          /\ (r \in withdrawn' <=> r \in withdrawn)
    BY <1>0, <1>2 DEF Api!To, Api!Ends, Api!AbortCategory, Api!GivesUp, Shape, Api!AskAccount
  <2>3. tokens <= tokens'
    BY <1>0, <1>2 DEF Api!AskAccount
  <2> QED
    BY <1>0, <2>1, <2>2, <2>3, OthersStaySound
<1>3. ASSUME NEW q \in Api!Requests, Api!Post(q)
      PROVE  \A r \in Api!Requests : Sound(r)'
  <2>0. /\ step[q] = "account_held" /\ step'[q] = "post" /\ posts'[q] = posts[q] + 1
        /\ aborted[q] = Nothing /\ aborted'[q] = aborted[q] /\ committed'[q] = committed[q]
        /\ used'[q] = used[q] /\ result'[q] = result[q] /\ tokens' = tokens
        /\ withdrawn' = withdrawn
    BY <1>0, <1>3 DEF Shape, Api!To, Api!Post, Api!MayPost
  <2>1. Sound(q)'
    BY <1>0, <1>s, <2>0, LifecyclesAssumption
    DEF Api!ApiAssumption, Sound, Placed, Rejected, Told, Waiting, Posted, Tokened, Api!Waits, ApiInv
  <2>2. \A r \in Api!Requests \ {q} :
          /\ step'[r] = step[r] /\ aborted'[r] = aborted[r] /\ committed'[r] = committed[r]
          /\ used'[r] = used[r] /\ posts'[r] = posts[r] /\ result'[r] = result[r]
          /\ (r \in withdrawn' <=> r \in withdrawn)
    BY <1>0, <1>3 DEF Api!To, Api!Ends, Api!AbortCategory, Api!GivesUp, Shape, Api!Post, Api!MayPost
  <2>3. tokens <= tokens'
    BY <1>0, <1>3 DEF Api!Post, Api!MayPost
  <2> QED
    BY <1>0, <2>1, <2>2, <2>3, OthersStaySound
<1>4. ASSUME NEW q \in Api!Requests, Api!PostUnwanted(q)
      PROVE  \A r \in Api!Requests : Sound(r)'
  <2>1. Sound(q)'
    BY <1>0, <1>s, <1>4, LifecyclesAssumption
    DEF Api!ApiAssumption, Sound, Placed, Rejected, Told, Waiting, Posted, Tokened, Api!Waits, Api!Held,
        Shape, Api!To, Api!Ends, Api!AbortCategory, Api!GivesUp,
        Api!PostUnwanted, Api!MayPost
  <2>2. \A r \in Api!Requests \ {q} :
          /\ step'[r] = step[r] /\ aborted'[r] = aborted[r] /\ committed'[r] = committed[r]
          /\ used'[r] = used[r] /\ posts'[r] = posts[r] /\ result'[r] = result[r]
          /\ (r \in withdrawn' <=> r \in withdrawn)
    BY <1>0, <1>4 DEF Api!To, Api!Ends, Api!AbortCategory, Api!GivesUp, Shape, Api!PostUnwanted, Api!MayPost
  <2>3. tokens <= tokens'
    BY <1>0, <1>4 DEF Api!PostUnwanted, Api!MayPost
  <2> QED
    BY <1>0, <2>1, <2>2, <2>3, OthersStaySound
<1>5. ASSUME NEW q \in Api!Requests, Api!ReadBody(q)
      PROVE  \A r \in Api!Requests : Sound(r)'
  <2>1. Sound(q)'
    BY <1>0, <1>s, <1>5, LifecyclesAssumption
    DEF Api!ApiAssumption, Sound, Placed, Rejected, Told, Waiting, Posted, Tokened, Api!Waits, Api!Held,
        Shape, Api!To, Api!Ends, Api!AbortCategory, Api!GivesUp,
        Api!ReadBody
  <2>2. \A r \in Api!Requests \ {q} :
          /\ step'[r] = step[r] /\ aborted'[r] = aborted[r] /\ committed'[r] = committed[r]
          /\ used'[r] = used[r] /\ posts'[r] = posts[r] /\ result'[r] = result[r]
          /\ (r \in withdrawn' <=> r \in withdrawn)
    BY <1>0, <1>5 DEF Api!To, Api!Ends, Api!AbortCategory, Api!GivesUp, Shape, Api!ReadBody
  <2>3. tokens <= tokens'
    BY <1>0, <1>5 DEF Api!ReadBody
  <2> QED
    BY <1>0, <2>1, <2>2, <2>3, OthersStaySound
<1>6. ASSUME NEW q \in Api!Requests, Api!Succeeds(q)
      PROVE  \A r \in Api!Requests : Sound(r)'
  <2>1. Sound(q)'
    BY <1>0, <1>s, <1>6, LifecyclesAssumption
    DEF Api!ApiAssumption, Sound, Placed, Rejected, Told, Waiting, Posted, Tokened, Api!Waits, Api!Held,
        Shape, Api!To, Api!Ends, Api!AbortCategory, Api!GivesUp,
        Api!Succeeds
  <2>2. \A r \in Api!Requests \ {q} :
          /\ step'[r] = step[r] /\ aborted'[r] = aborted[r] /\ committed'[r] = committed[r]
          /\ used'[r] = used[r] /\ posts'[r] = posts[r] /\ result'[r] = result[r]
          /\ (r \in withdrawn' <=> r \in withdrawn)
    BY <1>0, <1>6 DEF Api!To, Api!Ends, Api!AbortCategory, Api!GivesUp, Shape, Api!Succeeds
  <2>3. tokens <= tokens'
    BY <1>0, <1>6 DEF Api!Succeeds
  <2> QED
    BY <1>0, <2>1, <2>2, <2>3, OthersStaySound
<1>7. ASSUME NEW q \in Api!Requests, Api!ServiceFails(q)
      PROVE  \A r \in Api!Requests : Sound(r)'
  <2>1. Sound(q)'
    BY <1>0, <1>s, <1>7, LifecyclesAssumption
    DEF Api!ApiAssumption, Sound, Placed, Rejected, Told, Waiting, Posted, Tokened, Api!Waits, Api!Held,
        Shape, Api!To, Api!Ends, Api!AbortCategory, Api!GivesUp,
        Api!ServiceFails
  <2>2. \A r \in Api!Requests \ {q} :
          /\ step'[r] = step[r] /\ aborted'[r] = aborted[r] /\ committed'[r] = committed[r]
          /\ used'[r] = used[r] /\ posts'[r] = posts[r] /\ result'[r] = result[r]
          /\ (r \in withdrawn' <=> r \in withdrawn)
    BY <1>0, <1>7 DEF Api!To, Api!Ends, Api!AbortCategory, Api!GivesUp, Shape, Api!ServiceFails
  <2>3. tokens <= tokens'
    BY <1>0, <1>7 DEF Api!ServiceFails
  <2> QED
    BY <1>0, <2>1, <2>2, <2>3, OthersStaySound
<1>8. ASSUME NEW q \in Api!Requests, Api!Refused(q)
      PROVE  \A r \in Api!Requests : Sound(r)'
  <2>1. Sound(q)'
    BY <1>0, <1>s, <1>8, LifecyclesAssumption
    DEF Api!ApiAssumption, Sound, Placed, Rejected, Told, Waiting, Posted, Tokened, Api!Waits, Api!Held,
        Shape, Api!To, Api!Ends, Api!AbortCategory, Api!GivesUp,
        Api!Refused
  <2>2. \A r \in Api!Requests \ {q} :
          /\ step'[r] = step[r] /\ aborted'[r] = aborted[r] /\ committed'[r] = committed[r]
          /\ used'[r] = used[r] /\ posts'[r] = posts[r] /\ result'[r] = result[r]
          /\ (r \in withdrawn' <=> r \in withdrawn)
    BY <1>0, <1>8 DEF Api!To, Api!Ends, Api!AbortCategory, Api!GivesUp, Shape, Api!Refused
  <2>3. tokens <= tokens'
    BY <1>0, <1>8 DEF Api!Refused
  <2> QED
    BY <1>0, <2>1, <2>2, <2>3, OthersStaySound
<1>9. ASSUME NEW q \in Api!Requests, Api!CallerAborts(q)
      PROVE  \A r \in Api!Requests : Sound(r)'
  <2>0. /\ step[q] # "done" /\ aborted[q] = Nothing /\ aborted'[q] = "caller"
        /\ posts'[q] = posts[q] /\ committed'[q] = committed[q] /\ used'[q] = used[q]
        /\ tokens' = tokens /\ withdrawn' = withdrawn
        /\ \/ /\ Waiting(q) /\ step'[q] = "done"
              /\ result'[q] = IF step[q] = "token" /\ committed[q] THEN "indeterminate"
                             ELSE "cancelled"
           \/ ~Waiting(q) /\ step'[q] = step[q] /\ result'[q] = result[q]
    BY <1>0, <1>9 DEF Shape, Waiting, Api!Waits, Api!Held, Api!Running, Api!To, Api!Ends, Api!AbortCategory, Api!Outcome, Api!Abort,
        Api!CallerAborts
  <2>1. Sound(q)'
    BY <1>0, <1>s, <2>0, LifecyclesAssumption
    DEF Api!ApiAssumption, Sound, Placed, Rejected, Told, Waiting, Posted, Tokened, Api!Waits, ApiInv
  <2>2. \A r \in Api!Requests \ {q} :
          /\ step'[r] = step[r] /\ aborted'[r] = aborted[r] /\ committed'[r] = committed[r]
          /\ used'[r] = used[r] /\ posts'[r] = posts[r] /\ result'[r] = result[r]
          /\ (r \in withdrawn' <=> r \in withdrawn)
    BY <1>0, <1>9 DEF Api!To, Api!Ends, Api!AbortCategory, Api!GivesUp, Shape, Api!CallerAborts, Api!Abort, Api!Outcome
  <2>3. tokens <= tokens'
    BY <1>0, <1>9 DEF Api!CallerAborts, Api!Abort, Api!Outcome
  <2> QED
    BY <1>0, <2>1, <2>2, <2>3, OthersStaySound
<1>10. ASSUME NEW q \in Api!Requests, Api!TimesOut(q)
       PROVE  \A r \in Api!Requests : Sound(r)'
  <2>0. /\ step[q] \notin {"done", "new"} /\ aborted[q] = Nothing /\ aborted'[q] = "timeout"
        /\ posts'[q] = posts[q] /\ committed'[q] = committed[q] /\ used'[q] = used[q]
        /\ tokens' = tokens /\ withdrawn' = withdrawn
        /\ \/ /\ Waiting(q) /\ step'[q] = "done"
              /\ result'[q] = IF step[q] = "token" /\ committed[q] THEN "indeterminate"
                             ELSE "timeout"
           \/ ~Waiting(q) /\ step'[q] = step[q] /\ result'[q] = result[q]
    BY <1>0, <1>10 DEF Shape, Waiting, Api!Waits, Api!Held, Api!Running, Api!To, Api!Ends, Api!AbortCategory, Api!Outcome, Api!Abort,
        Api!TimesOut
  <2>1. Sound(q)'
    BY <1>0, <1>s, <2>0, LifecyclesAssumption
    DEF Api!ApiAssumption, Sound, Placed, Rejected, Told, Waiting, Posted, Tokened, Api!Waits, ApiInv
  <2>2. \A r \in Api!Requests \ {q} :
          /\ step'[r] = step[r] /\ aborted'[r] = aborted[r] /\ committed'[r] = committed[r]
          /\ used'[r] = used[r] /\ posts'[r] = posts[r] /\ result'[r] = result[r]
          /\ (r \in withdrawn' <=> r \in withdrawn)
    BY <1>0, <1>10 DEF Api!To, Api!Ends, Api!AbortCategory, Api!GivesUp, Shape, Api!TimesOut, Api!Running, Api!Abort, Api!Outcome
  <2>3. tokens <= tokens'
    BY <1>0, <1>10 DEF Api!TimesOut, Api!Running, Api!Abort, Api!Outcome
  <2> QED
    BY <1>0, <2>1, <2>2, <2>3, OthersStaySound
<1>11. ASSUME NEW q \in Api!Requests, Api!CommitStarts(q)
       PROVE  \A r \in Api!Requests : Sound(r)'
  <2>1. Sound(q)'
    BY <1>0, <1>s, <1>11, LifecyclesAssumption
    DEF Api!ApiAssumption, Sound, Placed, Rejected, Told, Waiting, Posted, Tokened, Api!Waits, Api!Held,
        Shape, Api!To, Api!Ends, Api!AbortCategory, Api!GivesUp,
        Api!CommitStarts
  <2>2. \A r \in Api!Requests \ {q} :
          /\ step'[r] = step[r] /\ aborted'[r] = aborted[r] /\ committed'[r] = committed[r]
          /\ used'[r] = used[r] /\ posts'[r] = posts[r] /\ result'[r] = result[r]
          /\ (r \in withdrawn' <=> r \in withdrawn)
    BY <1>0, <1>11 DEF Api!To, Api!Ends, Api!AbortCategory, Api!GivesUp, Shape, Api!CommitStarts
  <2>3. tokens <= tokens'
    BY <1>0, <1>11 DEF Api!CommitStarts
  <2> QED
    BY <1>0, <2>1, <2>2, <2>3, OthersStaySound
<1>12. ASSUME NEW q \in Api!Requests, Api!Stores(q)
       PROVE  \A r \in Api!Requests : Sound(r)'
  <2>0. /\ step'[q] = step[q] /\ posts'[q] = posts[q] /\ aborted'[q] = aborted[q]
        /\ committed'[q] = committed[q] /\ used'[q] = used[q] /\ result'[q] = result[q]
        /\ tokens' = tokens + 1 /\ withdrawn' = withdrawn
    BY <1>0, <1>12 DEF Api!Stores
  <2>1. Sound(q)'
    BY <1>0, <1>s, <2>0, LifecyclesAssumption
    DEF Api!ApiAssumption, Sound, Placed, Rejected, Told, Waiting, Posted, Tokened, Api!Waits, ApiInv
  <2>2. \A r \in Api!Requests \ {q} :
          /\ step'[r] = step[r] /\ aborted'[r] = aborted[r] /\ committed'[r] = committed[r]
          /\ used'[r] = used[r] /\ posts'[r] = posts[r] /\ result'[r] = result[r]
          /\ (r \in withdrawn' <=> r \in withdrawn)
    BY <1>0, <1>12 DEF Api!To, Api!Ends, Api!AbortCategory, Api!GivesUp, Shape, Api!Stores
  <2>3. tokens <= tokens'
    BY <1>0, <1>12 DEF Api!Stores
  <2> QED
    BY <1>0, <2>1, <2>2, <2>3, OthersStaySound
<1>13. ASSUME NEW q \in Api!Requests, Api!TokenAnswered(q)
       PROVE  \A r \in Api!Requests : Sound(r)'
  <2>0. /\ step[q] = "token" /\ step'[q] = "token_held" /\ used'[q] = token /\ token # 0
        /\ posts'[q] = posts[q] /\ aborted'[q] = aborted[q] /\ committed'[q] = committed[q]
        /\ result'[q] = result[q] /\ tokens' = tokens /\ withdrawn' = withdrawn
    BY <1>0, <1>13 DEF Shape, Api!To, Api!TokenAnswered, Api!Answered, Api!HeldOf
  <2>1. Sound(q)'
    BY <1>0, <1>s, <2>0, LifecyclesAssumption
    DEF Api!ApiAssumption, Sound, Placed, Rejected, Told, Waiting, Posted, Tokened, Api!Waits, ApiInv
  <2>2. \A r \in Api!Requests \ {q} :
          /\ step'[r] = step[r] /\ aborted'[r] = aborted[r] /\ committed'[r] = committed[r]
          /\ used'[r] = used[r] /\ posts'[r] = posts[r] /\ result'[r] = result[r]
          /\ (r \in withdrawn' <=> r \in withdrawn)
    BY <1>0, <1>13 DEF Api!To, Api!Ends, Api!AbortCategory, Api!GivesUp, Shape, Api!TokenAnswered, Api!Answered, Api!HeldOf
  <2>3. tokens <= tokens'
    BY <1>0, <1>13 DEF Api!TokenAnswered, Api!Answered, Api!HeldOf
  <2> QED
    BY <1>0, <2>1, <2>2, <2>3, OthersStaySound
<1>14. ASSUME NEW q \in Api!Requests, Api!Settles(q)
       PROVE  \A r \in Api!Requests : Sound(r)'
  <2>1. Sound(q)'
    BY <1>0, <1>s, <1>14, LifecyclesAssumption
    DEF Api!ApiAssumption, Sound, Placed, Rejected, Told, Waiting, Posted, Tokened, Api!Waits, Api!Held,
        Shape, Api!To, Api!Ends, Api!AbortCategory, Api!GivesUp,
        Api!Settles, Api!Answered, Api!HeldOf
  <2>2. \A r \in Api!Requests \ {q} :
          /\ step'[r] = step[r] /\ aborted'[r] = aborted[r] /\ committed'[r] = committed[r]
          /\ used'[r] = used[r] /\ posts'[r] = posts[r] /\ result'[r] = result[r]
          /\ (r \in withdrawn' <=> r \in withdrawn)
    BY <1>0, <1>14 DEF Api!To, Api!Ends, Api!AbortCategory, Api!GivesUp, Shape, Api!Settles, Api!Answered, Api!HeldOf
  <2>3. tokens <= tokens'
    BY <1>0, <1>14 DEF Api!Settles, Api!Answered, Api!HeldOf
  <2> QED
    BY <1>0, <2>1, <2>2, <2>3, OthersStaySound
<1>15. ASSUME NEW q \in Api!Requests, Api!Fails(q)
       PROVE  \A r \in Api!Requests : Sound(r)'
  <2>0. PICK e \in Api!Rejections(step[q]) :
            /\ result' = [result EXCEPT ![q] = e]
            /\ withdrawn' = IF e = "cancelled" THEN withdrawn \cup {q} ELSE withdrawn
    BY <1>15 DEF Api!Fails
  <2>1. Sound(q)'
    <3>1. /\ step[q] \in Api!Waits /\ step'[q] = "rejected" /\ result'[q] = e
          /\ posts'[q] = posts[q] /\ used'[q] = used[q] /\ aborted'[q] = aborted[q]
          /\ committed'[q] = committed[q] /\ tokens' = tokens
      BY <1>0, <1>15, <2>0 DEF Shape, Api!To, Api!Fails
    <3>2. /\ e = "cancelled" => step[q] = "token"
          /\ e = "service" => step[q] = "token"
          /\ e = "error" => step[q] = "post"
          /\ e \in {"cancelled", "network", "service", "invalid_response", "error"}
      BY <3>1 DEF Api!Rejections, Api!Waits
    <3>3. /\ q \notin withdrawn
          /\ step[q] = "token" => posts[q] = 0 /\ used[q] = 0
          /\ step[q] = "post" => used[q] # 0
      BY <1>s, <3>1 DEF Sound, Placed, Rejected, Posted, Tokened, Api!Waits
    <3>4. Placed(q)'
      BY <1>s, <3>1 DEF Sound, Placed, Waiting, Posted, Tokened, Api!Waits
    <3>5. Rejected(q)'
      BY <2>0, <3>1, <3>2, <3>3 DEF Rejected
    <3>6. Told(q)' /\ (used[q] <= tokens)'
      BY <1>s, <3>1 DEF Told, Sound
    <3> QED
      BY <3>4, <3>5, <3>6 DEF Sound
  <2>2. \A r \in Api!Requests \ {q} :
          /\ step'[r] = step[r] /\ aborted'[r] = aborted[r] /\ committed'[r] = committed[r]
          /\ used'[r] = used[r] /\ posts'[r] = posts[r] /\ result'[r] = result[r]
          /\ (r \in withdrawn' <=> r \in withdrawn)
    BY <1>0, <1>15, <2>0 DEF Api!To, Shape, Api!Fails
  <2>3. tokens <= tokens'
    BY <1>0, <1>15 DEF Api!Fails
  <2> QED
    BY <1>0, <2>1, <2>2, <2>3, OthersStaySound
<1>16. ASSUME NEW q \in Api!Requests, Api!Rethrow(q)
       PROVE  \A r \in Api!Requests : Sound(r)'
  <2>0. /\ step[q] = "rejected" /\ step'[q] = "done" /\ result'[q] = Api!Rethrown(q)
        /\ posts'[q] = posts[q] /\ used'[q] = used[q] /\ aborted'[q] = aborted[q]
        /\ committed'[q] = committed[q] /\ tokens' = tokens /\ withdrawn' = withdrawn
    BY <1>0, <1>16 DEF Shape, Api!To, Api!Ends, Api!Rethrow
  <2>1. Sound(q)'
    <3>1. Placed(q)' /\ Rejected(q)' /\ (used[q] <= tokens)'
      BY <1>s, <2>0 DEF Sound, Placed, Rejected, Waiting, Posted, Tokened, Api!Waits
    <3>2. aborted[q] \in {Nothing, "caller", "timeout"}
      BY <1>s DEF Sound, Placed
    <3>3. CASE Api!GivenUp(q)
      <4>1. /\ aborted[q] # Nothing
            /\ result[q] = "error" => used[q] # 0
            /\ result[q] = "cancelled" => q \in withdrawn /\ posts[q] = 0
            /\ result[q] \in {"error", "cancelled"}
        BY <1>s, <2>0, <3>3 DEF Api!GivenUp, Sound, Rejected
      <4>2. result'[q] = IF aborted[q] = "timeout" THEN "timeout" ELSE "cancelled"
        BY <2>0, <3>3 DEF Api!Rethrown, Api!AbortCategory
      <4> QED
        BY <2>0, <3>1, <3>2, <4>1, <4>2 DEF Told, Sound
    <3>4. CASE ~Api!GivenUp(q)
      <4>1. result'[q] = IF result[q] = "error" THEN "network" ELSE result[q]
        BY <2>0, <3>4 DEF Api!Rethrown
      <4>2. /\ result[q] \in {"cancelled", "network", "service", "invalid_response", "error"}
            /\ result[q] = "cancelled" => q \in withdrawn /\ posts[q] = 0
            /\ result[q] = "service" => posts[q] = 0 /\ used[q] = 0
        BY <1>s, <2>0 DEF Sound, Rejected
      <4> QED
        BY <2>0, <3>1, <4>1, <4>2 DEF Told, Sound
    <3> QED
      BY <3>3, <3>4
  <2>2. \A r \in Api!Requests \ {q} :
          /\ step'[r] = step[r] /\ aborted'[r] = aborted[r] /\ committed'[r] = committed[r]
          /\ used'[r] = used[r] /\ posts'[r] = posts[r] /\ result'[r] = result[r]
          /\ (r \in withdrawn' <=> r \in withdrawn)
    BY <1>0, <1>16 DEF Api!To, Api!Ends, Shape, Api!Rethrow
  <2>3. tokens <= tokens'
    BY <1>0, <1>16 DEF Api!Rethrow
  <2> QED
    BY <1>0, <2>1, <2>2, <2>3, OthersStaySound
<1>17. CASE Api!Invalidated
  BY <1>s, <1>17 DEF Api!Invalidated, Sound, Placed, Rejected, Told, Waiting, Posted, Tokened
<1>18. CASE UNCHANGED apiVars
  BY <1>s, <1>18 DEF apiVars, Sound, Placed, Rejected, Told, Waiting, Posted, Tokened
<1> QED
  BY <1>1, <1>2, <1>3, <1>4, <1>5, <1>6, <1>7, <1>8, <1>9, <1>10, <1>11, <1>12, <1>13, <1>14, <1>15, <1>17, <1>18, <1>16
  DEF Api!Next, Api!Continues

LEMMA ApiInvStep == ApiInv /\ [Api!Next]_apiVars => ApiInv'
BY ApiTypesKept, SoundKept DEF ApiInv

LEMMA ApiInvTold == ApiInv => ToldTruth
BY DEF ApiInv, Sound, Told, ToldTruth, Api!ToldTruth

LEMMA OnlyWantedIsSent ==
    ApiInv /\ [Api!Next]_apiVars
        => [\A q \in Api!Requests :
              posts'[q] > posts[q] =>
                aborted[q] = Nothing /\ used[q] # 0 /\ posts[q] = 0]_apiVars
<1> SUFFICES ASSUME ApiInv, Api!Next, NEW q \in Api!Requests, posts'[q] > posts[q]
             PROVE  aborted[q] = Nothing /\ used[q] # 0 /\ posts[q] = 0
  BY DEF apiVars
<1>0. Api!TypeOK /\ \A r \in Api!Requests : Sound(r)
  BY DEF ApiInv
<1>1. posts' # posts
  BY <1>0 DEF Api!TypeOK
<1>2. PICK r \in Api!Requests : Api!Post(r)
  BY <1>1
  DEF Api!Next, Api!Continues, Api!Begin, Api!AskAccount, Api!PostUnwanted, Api!ReadBody,
      Api!Succeeds, Api!ServiceFails, Api!Refused, Api!CallerAborts, Api!TimesOut, Api!Abort,
      Api!CommitStarts, Api!Stores, Api!TokenAnswered, Api!Settles, Api!Fails, Api!Rethrow,
      Api!Invalidated
<1>3. r = q
  BY <1>0, <1>2 DEF Api!Post, Api!TypeOK
<1> QED
  BY <1>0, <1>2, <1>3 DEF Api!Post, Api!MayPost, Sound, Placed, Posted, Tokened

LEMMA ApiSteps ==
    /\ LifecyclesInit => Api!Init
    /\ [LifecyclesNext]_lifecyclesVars => [Api!Next]_apiVars
BY DEF LifecyclesInit, LifecyclesNext, lifecyclesVars

\* What the caller of a request is told is what happened to it, whoever aborts
\* or answers when.
THEOREM CallersAreToldTheTruth == LifecyclesSpec => []ToldTruth
BY ApiInvTold, ApiInvInit, ApiInvStep, ApiSteps, PTL DEF LifecyclesSpec

\* A request is posted once at most, with a token, and never when nobody waits
\* for it any more.
THEOREM UnwantedStaysHome == LifecyclesSpec => NothingSentUnwanted
<1>1. LifecyclesSpec =>
        [][\A q \in Api!Requests :
             posts'[q] > posts[q] =>
               aborted[q] = Nothing /\ used[q] # 0 /\ posts[q] = 0]_apiVars
  BY ApiInvInit, ApiInvStep, ApiSteps, OnlyWantedIsSent, PTL DEF LifecyclesSpec
<1> QED
  BY <1>1, PTL DEF NothingSentUnwanted, Api!NothingSentUnwanted, Api!vars, apiVars

-----------------------------------------------------------------------------
(* HistoryController: the list that is shown is that of the repository.     *)
(* What a press captured is still true when its turn comes: a page is not   *)
(* asked for behind a deletion, a load makes what was asked before it stale,*)
(* and so does a save that is shown; a save that could not be shown leaves  *)
(* the list blind until the next load.                                      *)

\* The instance counts with a Cardinality of its own.
LEMMA SameCardinality == ASSUME NEW S PROVE History!Cardinality(S) = Cardinality(S)
BY Zenon DEF History!Cardinality, Cardinality

(* Finite sets of numbers have a least subset with a property, a least     *)
(* element and an ascending enumeration.                                   *)

LEMMA LeastSubset ==
    ASSUME NEW S, IsFiniteSet(S), NEW Bad \in SUBSET SUBSET S, Bad # {}
    PROVE  \E T \in Bad : \A U \in SUBSET T : U # T => U \notin Bad
<1>1. IsWellFoundedOn(StrictSubsetOrdering(S), SUBSET S)
  BY FS_StrictSubsetOrderingWellFounded, FS_FiniteSubsetsOfFinite, Zenon
<1>2. PICK T \in Bad : \A U \in Bad : ~(<<U, T>> \in StrictSubsetOrdering(S))
  BY <1>1, WFMin, Zenon
<1>3. ASSUME NEW U \in SUBSET T, U # T, U \in Bad
      PROVE  FALSE
  BY <1>2, <1>3 DEF StrictSubsetOrdering
<1> QED
  BY <1>3

\* The least element of a finite set of numbers is what the model calls Min.
LEMMA LeastNumber ==
    ASSUME NEW S \in SUBSET Nat, IsFiniteSet(S), S # {}
    PROVE  History!Min(S) \in S /\ \A y \in S : History!Min(S) <= y
<1> DEFINE Bad == {T \in SUBSET S : T # {} /\ ~ \E x \in T : \A y \in T : x <= y}
<1>1. Bad = {}
  <2>1. SUFFICES ASSUME Bad # {} PROVE FALSE
    OBVIOUS
  <2>2. PICK T \in Bad : \A U \in SUBSET T : U # T => U \notin Bad
    <3>1. Bad \in SUBSET SUBSET S
      OBVIOUS
    <3> HIDE DEF Bad
    <3> QED BY <2>1, <3>1, LeastSubset, Zenon
  <2>3. PICK x \in T : TRUE
    OBVIOUS
  <2>4. CASE T \ {x} = {}
    BY <2>3, <2>4
  <2>5. CASE T \ {x} # {}
    <3>1. PICK m \in T \ {x} : \A y \in T \ {x} : m <= y
      <4>1. T \ {x} \in SUBSET T /\ T \ {x} # T
        BY <2>3
      <4> QED BY <4>1, <2>2, <2>5
    <3> QED BY <3>1, <2>3
  <2> QED BY <2>4, <2>5
<1>2. \E x \in S : \A y \in S : x <= y
  BY <1>1
<1> QED
  BY <1>2 DEF History!Min

Ascends(s, S) ==
    s \in [1..Cardinality(S) -> S] /\ \A i, j \in DOMAIN s : i < j => s[i] < s[j]

LEMMA AscendingExists ==
    ASSUME NEW S \in SUBSET Nat, IsFiniteSet(S)
    PROVE  \E s : Ascends(s, S)
<1> DEFINE Bad == {T \in SUBSET S : ~ \E s : Ascends(s, T)}
<1>1. SUFFICES ASSUME Bad # {} PROVE FALSE
  OBVIOUS
<1>2. PICK T \in Bad : \A U \in SUBSET T : U # T => U \notin Bad
  <2>1. Bad \in SUBSET SUBSET S
    OBVIOUS
  <2> HIDE DEF Bad
  <2> QED BY <1>1, <2>1, LeastSubset, Zenon
<1>3. T \in SUBSET Nat /\ IsFiniteSet(T)
  BY FS_Subset
<1>4. CASE T = {}
  <2>1. Cardinality(T) = 0
    BY <1>4, FS_EmptySet
  <2>2. Ascends([i \in 1..0 |-> 0], T)
    BY <2>1 DEF Ascends
  <2> QED BY <2>2
<1>5. CASE T # {}
  <2> DEFINE m == History!Min(T)
             U == T \ {m}
             n == Cardinality(T)
  <2>1. m \in T /\ \A y \in T : m <= y
    BY <1>3, <1>5, LeastNumber
  <2>2. n \in Nat \ {0} /\ Cardinality(U) = n - 1
    BY <2>1, <1>3, <1>5, FS_CardinalityType, FS_RemoveElement, FS_EmptySet
  <2>3. PICK r : Ascends(r, U)
    <3>1. U \in SUBSET T /\ U # T
      BY <2>1
    <3> QED BY <3>1, <1>2
  <2> HIDE DEF m, n
  <2> DEFINE s == [k \in 1..n |-> IF k = 1 THEN m ELSE r[k - 1]]
  <2>4. r \in [1..(n - 1) -> U] /\ \A i, j \in 1..(n - 1) : i < j => r[i] < r[j]
    BY <2>2, <2>3 DEF Ascends
  <2>5. ASSUME NEW k \in 1..n PROVE s[k] \in T
    <3>1. CASE k = 1
      BY <3>1, <2>1
    <3>2. CASE k # 1
      BY <3>2, <2>2, <2>4
    <3> QED BY <3>1, <3>2
  <2>6. ASSUME NEW i \in 1..n, NEW j \in 1..n, i < j PROVE s[i] < s[j]
    <3>1. j - 1 \in 1..(n - 1) /\ s[j] = r[j - 1]
      BY <2>2, <2>6
    <3>2. CASE i = 1
      <4>1. r[j - 1] \in U
        BY <3>1, <2>4
      <4>2. m <= r[j - 1] /\ m # r[j - 1] /\ m \in Nat /\ r[j - 1] \in Nat
        BY <4>1, <2>1, <1>3
      <4> QED BY <4>2, <3>1, <3>2
    <3>3. CASE i # 1
      <4>1. i - 1 \in 1..(n - 1) /\ s[i] = r[i - 1] /\ i - 1 < j - 1
        BY <3>3, <2>2, <2>6
      <4> QED BY <4>1, <3>1, <2>4
    <3> QED BY <3>2, <3>3
  <2>7. s \in [1..n -> T]
    BY <2>5
  <2>8. Ascends(s, T)
    BY <2>6, <2>7 DEF Ascends, n
  <2> QED BY <2>8
<1> QED
  BY <1>4, <1>5

\* The model's enumeration of a set lists all of it, in order.
LEMMA AscendingLists ==
    ASSUME NEW S \in SUBSET Nat, IsFiniteSet(S)
    PROVE  /\ Cardinality(S) \in Nat
           /\ Ascends(History!Ascending(S), S)
           /\ \A x \in S : \E k \in 1..Cardinality(S) : History!Ascending(S)[k] = x
<1> DEFINE a == History!Ascending(S)
           n == Cardinality(S)
<1>1. n \in Nat
  BY FS_CardinalityType
<1>2. Ascends(a, S)
  BY AscendingExists, SameCardinality DEF Ascends, History!Ascending
<1> HIDE DEF a
<1>3. a \in Injection(1..n, S)
  <2>1. ASSUME NEW i \in 1..n, NEW j \in 1..n, a[i] = a[j] PROVE i = j
    <3>1. i \in DOMAIN a /\ j \in DOMAIN a /\ a[i] \in Nat /\ a[j] \in Nat
      BY <1>2 DEF Ascends
    <3>2. ~(i < j) /\ ~(j < i)
      BY <3>1, <1>2, <2>1 DEF Ascends
    <3> QED BY <3>2, <1>1
  <2> QED BY <2>1, <1>2 DEF Injection, IsInjective, Ascends
<1>4. Cardinality(1..n) = n
  BY <1>1, FS_Interval
<1>5. a \in Surjection(1..n, S)
  BY <1>3, <1>4, FS_Injection
<1> QED
  BY <1>1, <1>2, <1>5 DEF Surjection, a

\* The list of a page shows the reports of the page and no others.
LEMMA NewestFirstLists ==
    ASSUME NEW S \in SUBSET Nat, IsFiniteSet(S)
    PROVE  /\ History!NewestFirst(S) \in Seq(S)
           /\ History!ToSet(History!NewestFirst(S)) = S
<1> DEFINE a == History!Ascending(S)
           n == Cardinality(S)
           s == [k \in 1..n |-> a[n + 1 - k]]
<1>1. n \in Nat /\ a \in [1..n -> S] /\ \A x \in S : \E k \in 1..n : a[k] = x
  BY AscendingLists DEF Ascends
<1>2. History!NewestFirst(S) = s
  BY SameCardinality DEF History!NewestFirst
<1> HIDE DEF a, n
<1>3. s \in [1..n -> S]
  <2>1. ASSUME NEW k \in 1..n PROVE s[k] \in S
    <3>1. n + 1 - k \in 1..n
      BY <1>1
    <3> QED BY <3>1, <1>1
  <2> QED BY <2>1
<1>4. ASSUME NEW x \in S PROVE \E k \in 1..n : s[k] = x
  <2>1. PICK k \in 1..n : a[k] = x
    BY <1>1
  <2>2. n + 1 - k \in 1..n /\ n + 1 - (n + 1 - k) = k
    BY <1>1
  <2>3. s[n + 1 - k] = x
    BY <2>1, <2>2
  <2> QED BY <2>2, <2>3
<1>5. s \in Seq(S)
  BY <1>1, <1>3, SeqDef
<1>6. DOMAIN s = 1..n
  OBVIOUS
<1> HIDE DEF s
<1>7. History!ToSet(s) = S
  BY <1>3, <1>4, <1>6 DEF History!ToSet
<1> QED
  BY <1>2, <1>5, <1>7

\* Taking a report out of a list takes out nothing else.
LEMMA WithoutTakesOut ==
    ASSUME NEW T, NEW list \in Seq(T), NEW id
    PROVE  /\ History!Without(list, id) \in Seq(T)
           /\ History!ToSet(History!Without(list, id)) = History!ToSet(list) \ {id}
<1> DEFINE kept == {k \in DOMAIN list : list[k] # id}
           a == History!Ascending(kept)
           n == Cardinality(kept)
           s == [k \in 1..n |-> list[a[k]]]
<1>1. DOMAIN list = 1..Len(list) /\ Len(list) \in Nat /\ \A k \in DOMAIN list : list[k] \in T
  BY LenProperties
<1>2. kept \in SUBSET Nat /\ IsFiniteSet(kept)
  <2>1. IsFiniteSet(1..Len(list))
    BY <1>1, FS_Interval
  <2>2. kept \in SUBSET (1..Len(list))
    BY <1>1
  <2>3. IsFiniteSet(kept)
    BY <2>1, <2>2, FS_Subset, Zenon
  <2> QED BY <2>2, <2>3
<1>3. History!Without(list, id) = s
  BY SameCardinality DEF History!Without
<1>4. kept \subseteq DOMAIN list /\ \A k \in DOMAIN list : k \in kept <=> list[k] # id
  OBVIOUS
<1> HIDE DEF kept
<1>5. n \in Nat /\ a \in [1..n -> kept] /\ \A x \in kept : \E k \in 1..n : a[k] = x
  BY <1>2, AscendingLists DEF Ascends
<1> HIDE DEF a, n
<1>6. \A k \in 1..n : s[k] = list[a[k]] /\ a[k] \in kept
  BY <1>5
<1>7. DOMAIN s = 1..n
  OBVIOUS
<1>8. s \in [1..n -> T]
  <2>1. \A k \in 1..n : list[a[k]] \in T
    BY <1>1, <1>4, <1>5
  <2> QED BY <2>1
<1>9. s \in Seq(T)
  BY <1>5, <1>8, SeqDef
<1> HIDE DEF s
<1>10. ASSUME NEW x PROVE x \in History!ToSet(s) <=> x \in History!ToSet(list) \ {id}
  <2>1. ASSUME x \in History!ToSet(s) PROVE x \in History!ToSet(list) \ {id}
    <3>1. PICK k \in 1..n : x = s[k]
      BY <2>1, <1>7 DEF History!ToSet
    <3> QED BY <3>1, <1>4, <1>6 DEF History!ToSet
  <2>2. ASSUME x \in History!ToSet(list), x # id PROVE x \in History!ToSet(s)
    <3>1. PICK j \in DOMAIN list : x = list[j]
      BY <2>2 DEF History!ToSet
    <3>2. j \in kept
      BY <3>1, <2>2, <1>4
    <3>3. PICK k \in 1..n : a[k] = j
      BY <3>2, <1>5
    <3> QED BY <3>1, <3>3, <1>6, <1>7 DEF History!ToSet
  <2> QED BY <2>1, <2>2
<1> QED
  BY <1>3, <1>9, <1>10

\* A page is the newest of what is older than its cursor; the cursor it gives
\* is above all that it leaves out.
LEMMA PageCovers ==
    ASSUME NEW before \in Nat, rows \in SUBSET (1..newest), newest \in Nat,
           PageSize \in Nat \ {0}
    PROVE  /\ History!PageOf(before) \subseteq rows
           /\ History!PageOf(before) \in SUBSET Nat
           /\ IsFiniteSet(History!PageOf(before))
           /\ History!CursorOf(before) \in 0..newest
           /\ \A i \in rows : i < before \/ before = 0 =>
                i \in History!PageOf(before) \/ i < History!CursorOf(before)
<1> DEFINE O == History!Older(before)
           P == History!PageOf(before)
           N(i) == History!Newer(i, before)
<1>1. O \subseteq rows /\ O \in SUBSET Nat /\ IsFiniteSet(rows) /\ rows \in SUBSET Nat
  <2>1. rows \in SUBSET Nat
    OBVIOUS
  <2>2. IsFiniteSet(rows)
    <3>1. IsFiniteSet(1..newest)
      BY FS_Interval
    <3> QED BY <3>1, FS_Subset, Zenon
  <2> QED BY <2>1, <2>2 DEF History!Older
<1>2. IsFiniteSet(O)
  BY <1>1, FS_Subset, Zenon
<1>3. \A i : i \in P <=> i \in O /\ Cardinality(N(i)) < PageSize
  BY SameCardinality DEF History!PageOf
<1>4. \A i, j : j \in N(i) <=> j \in O /\ i < j
  BY DEF History!Newer
<1>5. \A i \in rows : i < before \/ before = 0 => i \in O
  BY DEF History!Older
<1>6. History!CursorOf(before) =
        IF Cardinality(O) > PageSize THEN History!Min(P) ELSE 0
  BY SameCardinality DEF History!CursorOf
<1> HIDE DEF O, P, N
<1>7. P \subseteq O
  BY <1>3
<1>8. P \in SUBSET Nat /\ P \subseteq rows /\ IsFiniteSet(P)
  <2>1. IsFiniteSet(P)
    BY <1>2, <1>7, FS_Subset, Zenon
  <2> QED BY <1>1, <1>7, <2>1
<1>9. \A i : N(i) \in SUBSET O /\ IsFiniteSet(N(i)) /\ Cardinality(N(i)) \in Nat
  <2>1. ASSUME NEW i PROVE N(i) \in SUBSET O
    BY <1>4
  <2>2. ASSUME NEW i PROVE IsFiniteSet(N(i))
    BY <2>1, <1>2, FS_Subset, Zenon
  <2> QED BY <2>1, <2>2, FS_CardinalityType
<1>10. ASSUME NEW i \in O, i \notin P
       PROVE  /\ Cardinality(O) > PageSize
              /\ \A p \in P : i < p
  <2>1. Cardinality(N(i)) >= PageSize
    BY <1>3, <1>9, <1>10
  <2>2. i \notin N(i) /\ i \in Nat
    BY <1>1, <1>4
  <2>3. Cardinality(N(i) \cup {i}) = Cardinality(N(i)) + 1
    BY <2>2, <1>9, FS_AddElement
  <2>4. N(i) \cup {i} \in SUBSET O
    BY <1>9
  <2>5. Cardinality(N(i) \cup {i}) <= Cardinality(O)
    BY <2>4, <1>2, FS_Subset
  <2>6. Cardinality(O) \in Nat
    BY <1>2, FS_CardinalityType
  <2>7. ASSUME NEW p \in P, ~(i < p) PROVE FALSE
    <3>1. p \in Nat /\ p < i
      BY <2>2, <2>7, <1>8, <1>10
    <3>2. N(i) \in SUBSET N(p)
      <4>1. ASSUME NEW j \in N(i) PROVE j \in N(p)
        <5>1. j \in O /\ i < j /\ j \in Nat
          BY <1>1, <1>4
        <5> QED BY <5>1, <3>1, <2>2, <1>4
      <4> QED BY <4>1
    <3>3. Cardinality(N(i)) <= Cardinality(N(p))
      BY <3>2, <1>9, FS_Subset
    <3> QED BY <3>3, <2>1, <1>3, <1>9
  <2> QED BY <2>1, <2>3, <2>5, <2>6, <2>7, <1>9
<1>11. ASSUME O # {} PROVE P # {}
  <2> DEFINE Bad == {T \in SUBSET O : \E i \in O : T = N(i)}
  <2>1. Bad \in SUBSET SUBSET O /\ Bad # {}
    BY <1>9, <1>11
  <2>2. PICK T \in Bad : \A U \in SUBSET T : U # T => U \notin Bad
    <3> HIDE DEF Bad
    <3> QED BY <2>1, <1>2, LeastSubset, Zenon
  <2>3. PICK i \in O : T = N(i)
    BY <2>2
  <2>4. N(i) = {}
    <3>1. SUFFICES ASSUME NEW j \in N(i) PROVE FALSE
      OBVIOUS
    <3>2. j \in O /\ i < j /\ j \in Nat /\ i \in Nat
      BY <1>1, <1>4
    <3>3. N(j) \in SUBSET N(i)
      <4>1. ASSUME NEW k \in N(j) PROVE k \in N(i)
        <5>1. k \in O /\ j < k /\ k \in Nat
          BY <1>1, <1>4
        <5> QED BY <5>1, <3>2, <1>4
      <4> QED BY <4>1
    <3>4. j \notin N(j)
      BY <3>2, <1>4
    <3>5. N(j) # N(i) /\ N(j) \in Bad
      BY <3>2, <3>4, <1>9
    <3> HIDE DEF Bad
    <3> QED BY <3>3, <3>5, <2>2, <2>3
  <2>5. Cardinality(N(i)) = 0
    BY <2>4, FS_EmptySet
  <2> QED BY <2>3, <2>5, <1>3
<1>12. ASSUME P # {} PROVE History!Min(P) \in P /\ \A p \in P : History!Min(P) <= p
  BY <1>8, <1>12, LeastNumber
<1>13. Cardinality(O) > PageSize => O # {}
  BY FS_EmptySet
<1>14. History!CursorOf(before) \in 0..newest
  <2>1. CASE Cardinality(O) > PageSize
    <3>1. History!Min(P) \in rows
      BY <2>1, <1>8, <1>11, <1>12, <1>13
    <3>2. History!CursorOf(before) = History!Min(P)
      BY <2>1, <1>6
    <3>3. 1..newest \subseteq 0..newest
      OBVIOUS
    <3> QED BY <3>1, <3>2, <3>3, Zenon
  <2>2. CASE ~(Cardinality(O) > PageSize)
    BY <2>2, <1>6
  <2> QED BY <2>1, <2>2
<1>15. ASSUME NEW i \in rows, i < before \/ before = 0, i \notin P
       PROVE  i < History!CursorOf(before)
  BY <1>5, <1>6, <1>10, <1>11, <1>12, <1>15
<1> QED
  BY <1>8, <1>14, <1>15 DEF P

HistoryKinds == {"load", "loadMore", "save", "delete", "deleteAll"}
HistoryOps ==
    [kind : HistoryKinds, id : Nat, generation : Nat, cursor : Nat, reports : Seq(History!Numbers)]

\* What the operation at the head has written, and not yet shown.
Doing(kind) == tail # <<>> /\ Head(tail).kind = kind /\ point = "done"

Current(i, kind) == tail[i].kind = kind /\ tail[i].generation = epoch

HistoryTypes ==
    /\ History!TypeOK
    /\ tail \in Seq(HistoryOps) /\ epoch \in Nat
    /\ point = "asked" => tail # <<>> /\ Head(tail).kind = "loadMore"
    /\ point = "done" => \E kind \in {"save", "delete", "deleteAll"} : Doing(kind)

\* At most one load will be shown, and no page that was asked for before it.
OneLoad ==
    /\ \A i \in DOMAIN tail : tail[i].generation <= epoch
    /\ \A i, j \in DOMAIN tail : Current(i, "load") /\ Current(j, "load") => i = j
    /\ \A i, j \in DOMAIN tail : Current(i, "load") => ~Current(j, "loadMore")

\* Until it is shown no page is asked for.
LoadsFirst ==
    \A i \in DOMAIN tail : Current(i, "load") => shown = "loading" \/ cursor = 0

\* No page is asked for behind a deletion.
PagesFirst ==
    \A i, j \in DOMAIN tail : i < j /\ tail[i].kind \in History!Deletes => tail[j].kind # "loadMore"

Counted ==
    /\ shown = "ready" => count # Nothing
    /\ \A i \in DOMAIN tail : tail[i].kind = "loadMore" => count # Nothing
    /\ ~blind /\ count # Nothing =>
         /\ Doing("save") => count + 1 = Cardinality(rows)
         /\ Doing("delete") => count = Cardinality(rows) + 1
         /\ point # "done" => count = Cardinality(rows)

\* Every report is in the list, or older than its cursor.
Covers(list, before) ==
    \A i \in rows : i \in History!ToSet(list) \/ i < before \/ (Doing("save") /\ i = newest)

LeavesNothing ==
    /\ Doing("delete") => Head(tail).id \notin rows
    /\ Doing("deleteAll") => rows = {}

Matches ==
    /\ \A i \in History!ToSet(reports) : i \in rows \/ (Doing("delete") /\ i = Head(tail).id) \/ Doing("deleteAll")
    /\ ~blind /\ ~hasNewer /\ count # Nothing => Covers(reports, cursor)

\* The list at a press is still of what is stored when its page comes.
Captured ==
    \A i \in DOMAIN tail : Current(i, "loadMore") =>
        /\ History!ToSet(tail[i].reports) \subseteq rows /\ tail[i].cursor # 0
        /\ ~blind /\ ~hasNewer => Covers(tail[i].reports, tail[i].cursor)

Removed ==
    /\ deleted \subseteq 1..newest /\ deleted \cap rows = {} /\ History!DeletedStaysOut
    /\ Doing("delete") => Head(tail).id \in 1..newest /\ Head(tail).id \notin deleted

HistoryInv ==
    /\ HistoryTypes /\ OneLoad /\ LoadsFirst /\ PagesFirst /\ Counted /\ LeavesNothing
    /\ Matches /\ Captured /\ Removed

\* The operation at the head ends.
LEMMA OpEnds ==
    ASSUME tail \in Seq(HistoryOps), tail # <<>>, History!Ends
    PROVE  /\ tail' \in Seq(HistoryOps) /\ point' = "called"
           /\ 1 \in DOMAIN tail /\ Head(tail) = tail[1] /\ Head(tail) \in HistoryOps
           /\ \A i \in DOMAIN tail' :
                i \in Nat \ {0} /\ i + 1 \in DOMAIN tail /\ tail'[i] = tail[i + 1]
           /\ \A kind : ~Doing(kind)'
<1>1. tail' = Tail(tail) /\ point' = "called"
  BY DEF History!Ends
<1>2. Len(tail) \in Nat \ {0} /\ DOMAIN tail = 1..Len(tail)
  BY LenProperties, EmptySeq
<1>3. /\ Head(tail) \in HistoryOps /\ Tail(tail) \in Seq(HistoryOps)
      /\ Len(Tail(tail)) = Len(tail) - 1
      /\ \A i \in 1..Len(Tail(tail)) : Tail(tail)[i] = tail[i + 1]
  BY HeadTailProperties
<1>4. DOMAIN Tail(tail) = 1..(Len(tail) - 1)
  BY <1>3, LenProperties
<1>5. ASSUME NEW i \in 1..(Len(tail) - 1)
      PROVE  i \in Nat \ {0} /\ i + 1 \in DOMAIN tail /\ tail'[i] = tail[i + 1]
  BY <1>1, <1>2, <1>3
<1>6. Head(tail) = tail[1] /\ 1 \in DOMAIN tail
  BY <1>2
<1> QED
  BY <1>1, <1>3, <1>4, <1>5, <1>6 DEF Doing

\* An operation is put behind the others.
LEMMA OpComes ==
    ASSUME HistoryTypes, NEW op \in HistoryOps, tail' = Append(tail, op), point' = point
    PROVE  /\ tail' \in Seq(HistoryOps) /\ tail' # <<>>
           /\ DOMAIN tail \subseteq DOMAIN tail'
           /\ \A i \in DOMAIN tail : tail'[i] = tail[i]
           /\ \A i \in DOMAIN tail' \ DOMAIN tail :
                tail'[i] = op /\ \A j \in DOMAIN tail : j < i /\ ~(i < j)
           /\ \A i, j \in DOMAIN tail' \ DOMAIN tail : i = j
           /\ point # "called" => tail # <<>> /\ Head(tail') = Head(tail)
           /\ \A kind : Doing(kind)' <=> Doing(kind)
<1>1. tail \in Seq(HistoryOps) /\ Len(tail) \in Nat /\ DOMAIN tail = 1..Len(tail)
  BY LenProperties DEF HistoryTypes
<1>2. /\ tail' \in Seq(HistoryOps) /\ Len(tail') = Len(tail) + 1
      /\ \A i \in 1..Len(tail) : tail'[i] = tail[i]
      /\ tail'[Len(tail) + 1] = op
  BY <1>1
<1>3. DOMAIN tail' = 1..(Len(tail) + 1) /\ tail' # <<>>
  BY <1>1, <1>2
<1>4. point # "called" => tail # <<>>
  BY DEF HistoryTypes, History!TypeOK, Doing
<1>5. tail # <<>> => Head(tail') = Head(tail)
  BY <1>1, <1>2, <1>3
<1>6. ASSUME NEW kind PROVE Doing(kind)' <=> Doing(kind)
  BY <1>3, <1>4, <1>5 DEF Doing
<1>7. \A i \in DOMAIN tail' \ DOMAIN tail : i = Len(tail) + 1
  BY <1>1, <1>3
<1> QED
  BY <1>1, <1>2, <1>3, <1>4, <1>5, <1>6, <1>7

\* A press changes nothing of what is stored and shown.
LEMMA PressKeeps ==
    ASSUME HistoryInv, NEW op \in HistoryOps, History!Press(op), epoch' \in Nat,
           shown' \in {"loading", "ready"} \/ shown' = shown
    PROVE  /\ HistoryTypes' /\ LeavesNothing' /\ Matches' /\ Removed'
           /\ \A list, before : Covers(list, before)' <=> Covers(list, before)
<1>1. /\ tail' = Append(tail, op) /\ point' = point /\ rows' = rows /\ newest' = newest
      /\ current' = current /\ reports' = reports /\ count' = count /\ cursor' = cursor
      /\ hasNewer' = hasNewer /\ loadingMore' = loadingMore /\ blind' = blind
      /\ deleted' = deleted
  BY DEF History!Press, History!rows, History!shown
<1>2. /\ tail' \in Seq(HistoryOps) /\ tail' # <<>>
      /\ point # "called" => tail # <<>> /\ Head(tail') = Head(tail)
      /\ \A kind : Doing(kind)' <=> Doing(kind)
  BY <1>1, OpComes DEF HistoryInv
<1>3. HistoryTypes'
  <2>1. \A i \in DOMAIN tail' : tail'[i] \in HistoryOps
    BY <1>2, LenProperties
  <2>2. \A i \in DOMAIN tail' : tail'[i].kind \in HistoryKinds
    BY <2>1 DEF HistoryOps
  <2>3. History!TypeOK'
    BY <1>1, <2>2 DEF HistoryInv, HistoryTypes, History!TypeOK, HistoryKinds, History!Deletes,
                     History!Numbers
  <2> QED BY <2>3, <1>1, <1>2 DEF HistoryInv, HistoryTypes
<1>4. \A kind : Doing(kind) => Head(tail') = Head(tail)
  BY <1>2 DEF Doing
<1>5. \A list, before : Covers(list, before)' <=> Covers(list, before)
  BY <1>1, <1>2 DEF Covers
<1>6. LeavesNothing'
  BY <1>1, <1>2, <1>4 DEF HistoryInv, LeavesNothing
<1>7. Matches'
  BY <1>1, <1>2, <1>4, <1>5 DEF HistoryInv, Matches
<1>8. Removed'
  BY <1>1, <1>2, <1>4 DEF HistoryInv, Removed, History!DeletedStaysOut, History!Listed
<1> QED
  BY <1>3, <1>5, <1>6, <1>7, <1>8

\* A press of anything but a load.
LEMMA OtherPress ==
    ASSUME HistoryInv, NEW op \in HistoryOps, History!Press(op),
           epoch' = epoch, shown' = shown, op.generation = epoch, op.kind # "load",
           op.kind = "loadMore" =>
             /\ shown = "ready" /\ cursor # 0 /\ op.cursor = cursor /\ op.reports = reports
             /\ \A i \in DOMAIN tail : tail[i].kind \notin History!Deletes
    PROVE  HistoryInv'
<1>0. epoch \in Nat
  BY DEF HistoryInv, HistoryTypes
<1>1. /\ HistoryTypes' /\ LeavesNothing' /\ Matches' /\ Removed'
      /\ \A list, before : Covers(list, before)' <=> Covers(list, before)
  BY <1>0, PressKeeps
<1>2. /\ tail' = Append(tail, op) /\ point' = point /\ rows' = rows /\ newest' = newest
      /\ reports' = reports /\ count' = count /\ cursor' = cursor
      /\ hasNewer' = hasNewer /\ blind' = blind
  BY DEF History!Press, History!rows, History!shown
<1>3. /\ DOMAIN tail \subseteq DOMAIN tail'
      /\ \A i \in DOMAIN tail : tail'[i] = tail[i]
      /\ \A i \in DOMAIN tail' \ DOMAIN tail :
           tail'[i] = op /\ \A j \in DOMAIN tail : j < i /\ ~(i < j)
      /\ \A i, j \in DOMAIN tail' \ DOMAIN tail : i = j
      /\ \A kind : Doing(kind)' <=> Doing(kind)
  BY <1>2, OpComes DEF HistoryInv
<1>4. ASSUME NEW i \in DOMAIN tail', NEW kind, Current(i, kind)'
      PROVE  (i \in DOMAIN tail /\ Current(i, kind)) \/ (i \notin DOMAIN tail /\ kind = op.kind)
  BY <1>3, <1>4 DEF Current
<1>5. op.kind = "loadMore" => \A i \in DOMAIN tail : ~Current(i, "load")
  BY DEF HistoryInv, LoadsFirst
<1>6. OneLoad'
  <2>1. \A i \in DOMAIN tail' : tail'[i].generation <= epoch
    BY <1>0, <1>3 DEF HistoryInv, OneLoad
  <2>2. \A i \in DOMAIN tail' : Current(i, "load")' => i \in DOMAIN tail /\ Current(i, "load")
    BY <1>4
  <2>3. \A i, j \in DOMAIN tail' : Current(i, "load")' => ~Current(j, "loadMore")'
    BY <2>2, <1>4, <1>5 DEF HistoryInv, OneLoad
  <2> QED BY <2>1, <2>2, <2>3 DEF HistoryInv, OneLoad
<1>7. LoadsFirst'
  BY <1>2, <1>4 DEF HistoryInv, LoadsFirst
<1>8. PagesFirst'
  <2>1. SUFFICES ASSUME NEW i \in DOMAIN tail', NEW j \in DOMAIN tail', i < j,
                        tail'[i].kind \in History!Deletes, tail'[j].kind = "loadMore"
                 PROVE  FALSE
    BY DEF PagesFirst
  <2>2. CASE j \notin DOMAIN tail
    <3>1. op.kind = "loadMore"
      BY <2>1, <2>2, <1>3
    <3>2. op.kind \notin History!Deletes
      BY <3>1 DEF History!Deletes
    <3> QED BY <3>1, <3>2, <2>1, <1>3
  <2>3. CASE j \in DOMAIN tail
    BY <2>1, <2>3, <1>3 DEF HistoryInv, PagesFirst
  <2> QED BY <2>2, <2>3
<1>9. Counted'
  <2>1. \A i \in DOMAIN tail' : tail'[i].kind = "loadMore" => count # Nothing
    BY <1>3 DEF HistoryInv, Counted
  <2> QED BY <2>1, <1>2, <1>3 DEF HistoryInv, Counted
<1>10. Captured'
  <2>1. SUFFICES ASSUME NEW i \in DOMAIN tail', Current(i, "loadMore")'
                 PROVE  /\ History!ToSet(tail'[i].reports) \subseteq rows /\ tail'[i].cursor # 0
                        /\ ~blind /\ ~hasNewer => Covers(tail'[i].reports, tail'[i].cursor)
    BY <1>1, <1>2 DEF Captured
  <2>2. CASE i \in DOMAIN tail
    BY <2>1, <2>2, <1>3, <1>4 DEF HistoryInv, Captured
  <2>3. CASE i \notin DOMAIN tail
    <3>1. op.kind = "loadMore" /\ tail'[i] = op
      BY <2>1, <2>3, <1>3, <1>4
    <3>2. ~Doing("delete") /\ ~Doing("deleteAll")
      <4>1. tail # <<>> => 1 \in DOMAIN tail /\ Head(tail) = tail[1]
        BY LenProperties, EmptySeq DEF HistoryInv, HistoryTypes
      <4> QED BY <4>1, <3>1 DEF Doing, History!Deletes
    <3>3. History!ToSet(reports) \subseteq rows
      BY <3>2 DEF HistoryInv, Matches
    <3>4. count # Nothing
      BY <3>1 DEF HistoryInv, Counted
    <3> QED BY <3>1, <3>3, <3>4 DEF HistoryInv, Matches
  <2> QED BY <2>2, <2>3
<1> QED
  BY <1>1, <1>6, <1>7, <1>8, <1>9, <1>10 DEF HistoryInv

\* A load is pressed: what was asked of the list before is stale.
LEMMA LoadPress == HistoryInv /\ History!Load => HistoryInv'
<1> SUFFICES ASSUME HistoryInv, History!Load PROVE HistoryInv'
  OBVIOUS
<1> DEFINE op == [History!Operation("load", 0) EXCEPT !.generation = epoch + 1]
<1>0. epoch \in Nat /\ cursor \in Nat /\ reports \in Seq(History!Numbers)
  BY DEF HistoryInv, HistoryTypes, History!TypeOK
<1>1. History!Press(op) /\ epoch' = epoch + 1 /\ shown' = "loading"
  BY DEF History!Load
<1>2. /\ op = [kind |-> "load", id |-> 0, generation |-> epoch + 1, cursor |-> cursor,
               reports |-> reports]
      /\ op.kind = "load" /\ op.generation = epoch + 1
  BY DEF History!Operation
<1>3. op \in HistoryOps
  BY <1>0, <1>2 DEF HistoryOps, HistoryKinds
<1> HIDE DEF op
<1>4. /\ HistoryTypes' /\ LeavesNothing' /\ Matches' /\ Removed'
      /\ \A list, before : Covers(list, before)' <=> Covers(list, before)
  BY <1>0, <1>1, <1>3, PressKeeps
<1>5. /\ tail' = Append(tail, op) /\ point' = point /\ rows' = rows /\ newest' = newest
      /\ reports' = reports /\ count' = count /\ cursor' = cursor
      /\ hasNewer' = hasNewer /\ blind' = blind
  BY <1>1 DEF History!Press, History!rows, History!shown
<1>6. /\ DOMAIN tail \subseteq DOMAIN tail'
      /\ \A i \in DOMAIN tail : tail'[i] = tail[i]
      /\ \A i \in DOMAIN tail' \ DOMAIN tail :
           tail'[i] = op /\ \A j \in DOMAIN tail : j < i /\ ~(i < j)
      /\ \A i, j \in DOMAIN tail' \ DOMAIN tail : i = j
      /\ \A kind : Doing(kind)' <=> Doing(kind)
  BY <1>3, <1>5, OpComes DEF HistoryInv
<1>7. ASSUME NEW i \in DOMAIN tail', NEW kind, Current(i, kind)'
      PROVE  i \notin DOMAIN tail /\ kind = "load"
  <2>1. i \notin DOMAIN tail
    <3>1. SUFFICES ASSUME i \in DOMAIN tail PROVE FALSE
      OBVIOUS
    <3>2. tail[i].generation = epoch + 1 /\ tail[i].generation <= epoch
      BY <3>1, <1>1, <1>6, <1>7 DEF Current, HistoryInv, OneLoad
    <3> QED BY <3>2, <1>0
  <2> QED BY <2>1, <1>2, <1>6, <1>7 DEF Current
<1>8. OneLoad'
  <2>0. \A i \in DOMAIN tail : tail[i] \in HistoryOps
    BY LenProperties DEF HistoryInv, HistoryTypes
  <2>1. ASSUME NEW i \in DOMAIN tail' PROVE tail'[i].generation <= epoch'
    <3>1. CASE i \in DOMAIN tail
      <4>1. tail'[i].generation <= epoch /\ tail'[i].generation \in Nat
        BY <3>1, <2>0, <1>6 DEF HistoryInv, OneLoad, HistoryOps
      <4> QED BY <4>1, <1>0, <1>1
    <3>2. CASE i \notin DOMAIN tail
      BY <3>2, <1>0, <1>1, <1>2, <1>6
    <3> QED BY <3>1, <3>2
  <2> QED BY <2>1, <1>6, <1>7 DEF OneLoad
<1>9. LoadsFirst'
  BY <1>1 DEF LoadsFirst
<1>10. PagesFirst'
  BY <1>2, <1>6 DEF HistoryInv, PagesFirst
<1>11. Counted'
  <2>1. \A i \in DOMAIN tail' : tail'[i].kind = "loadMore" => count # Nothing
    BY <1>2, <1>6 DEF HistoryInv, Counted
  <2> QED BY <2>1, <1>1, <1>5, <1>6 DEF HistoryInv, Counted
<1>12. Captured'
  BY <1>7 DEF Captured
<1> QED
  BY <1>4, <1>8, <1>9, <1>10, <1>11, <1>12 DEF HistoryInv

LEMMA PressesKeep == HistoryInv /\ History!Presses => HistoryInv'
<1> SUFFICES ASSUME HistoryInv, History!Presses PROVE HistoryInv'
  OBVIOUS
<1> DEFINE op(kind, id) == History!Operation(kind, id)
<1>0. epoch \in Nat /\ cursor \in Nat /\ reports \in Seq(History!Numbers)
  BY DEF HistoryInv, HistoryTypes, History!TypeOK
<1>1. ASSUME NEW kind \in HistoryKinds, NEW id \in Nat
      PROVE  /\ op(kind, id) \in HistoryOps
             /\ op(kind, id).kind = kind /\ op(kind, id).generation = epoch
             /\ op(kind, id).cursor = cursor /\ op(kind, id).reports = reports
  BY <1>0 DEF History!Operation, HistoryOps
<1> HIDE DEF op
<1>2. CASE History!LoadMore
  <2>1. /\ History!Press(op("loadMore", 0)) /\ epoch' = epoch /\ shown' = shown
        /\ shown = "ready" /\ cursor # 0
        /\ \A i \in DOMAIN tail : tail[i].kind \notin History!Deletes
    BY <1>2 DEF History!LoadMore, History!Pending, op
  <2> QED BY <2>1, <1>1, OtherPress DEF HistoryKinds
<1>3. CASE History!SaveCurrent
  <2>1. History!Press(op("save", 0)) /\ epoch' = epoch /\ shown' = shown
    BY <1>3 DEF History!SaveCurrent, op
  <2> QED BY <2>1, <1>1, OtherPress DEF HistoryKinds
<1>4. CASE History!DeleteAll
  <2>1. History!Press(op("deleteAll", 0)) /\ epoch' = epoch /\ shown' = shown
    BY <1>4 DEF History!DeleteAll, op
  <2> QED BY <2>1, <1>1, OtherPress DEF HistoryKinds
<1>5. ASSUME NEW id \in History!Numbers, History!Delete(id) PROVE HistoryInv'
  <2>1. History!Press(op("delete", id)) /\ epoch' = epoch /\ shown' = shown
    BY <1>5 DEF History!Delete, op
  <2>2. id \in Nat
    BY DEF History!Numbers
  <2> QED BY <2>1, <2>2, <1>1, OtherPress DEF HistoryKinds
<1> QED
  BY <1>2, <1>3, <1>4, <1>5, LoadPress DEF History!Presses

\* What waits behind an operation that ends.
LEMMA RestStays ==
    ASSUME HistoryInv, tail # <<>>, History!Ends
    PROVE  /\ tail' \in Seq(HistoryOps) /\ point' = "called" /\ \A kind : ~Doing(kind)'
           /\ \A i \in DOMAIN tail' : tail'[i].kind \in HistoryKinds
           /\ PagesFirst'
           /\ \A i \in DOMAIN tail' : tail'[i].kind = "loadMore" => count # Nothing
           /\ Head(tail).kind \in History!Deletes =>
                \A i \in DOMAIN tail' : tail'[i].kind # "loadMore"
           /\ epoch' = epoch =>
                /\ OneLoad'
                /\ \A i \in DOMAIN tail' : \A kind : Current(i, kind)' =>
                     i + 1 \in DOMAIN tail /\ Current(i + 1, kind)
                /\ Current(1, "load") => \A i \in DOMAIN tail' : ~Current(i, "load")' /\ ~Current(i, "loadMore")'
                /\ rows' = rows /\ newest' = newest
                     /\ (~blind' /\ ~hasNewer' => ~blind /\ ~hasNewer /\ ~Doing("save"))
                   => Captured'
<1>1. /\ tail' \in Seq(HistoryOps) /\ point' = "called"
      /\ 1 \in DOMAIN tail /\ Head(tail) = tail[1] /\ Head(tail) \in HistoryOps
      /\ \A i \in DOMAIN tail' :
           i \in Nat \ {0} /\ i + 1 \in DOMAIN tail /\ tail'[i] = tail[i + 1]
      /\ \A kind : ~Doing(kind)'
  BY OpEnds DEF HistoryInv, HistoryTypes
<1>2. \A i \in DOMAIN tail' : tail'[i].kind \in HistoryKinds
  <2>1. \A i \in DOMAIN tail' : tail'[i] \in HistoryOps
    BY <1>1, LenProperties
  <2> QED BY <2>1 DEF HistoryOps
<1>3. PagesFirst'
  <2>1. \A i, j \in DOMAIN tail' : i < j => i + 1 < j + 1
    BY <1>1
  <2> QED BY <1>1, <2>1 DEF HistoryInv, PagesFirst
<1>4. \A i \in DOMAIN tail' : tail'[i].kind = "loadMore" => count # Nothing
  BY <1>1 DEF HistoryInv, Counted
<1>5. Head(tail).kind \in History!Deletes =>
        \A i \in DOMAIN tail' : tail'[i].kind # "loadMore"
  <2>1. \A i \in DOMAIN tail' : 1 < i + 1
    BY <1>1
  <2> QED BY <1>1, <2>1 DEF HistoryInv, PagesFirst
<1>6. ASSUME epoch' = epoch
      PROVE  \A i \in DOMAIN tail' : \A kind : Current(i, kind)' =>
               i + 1 \in DOMAIN tail /\ Current(i + 1, kind)
  BY <1>1, <1>6 DEF Current
<1>7. ASSUME epoch' = epoch
      PROVE  OneLoad'
  <2>1. \A i, j \in DOMAIN tail' : i + 1 = j + 1 => i = j
    BY <1>1
  <2>2. \A i \in DOMAIN tail' : tail'[i].generation <= epoch'
    BY <1>1, <1>7 DEF HistoryInv, OneLoad
  <2>3. \A i, j \in DOMAIN tail' : Current(i, "load")' /\ Current(j, "load")' => i = j
    BY <2>1, <1>6, <1>7 DEF HistoryInv, OneLoad
  <2>4. \A i, j \in DOMAIN tail' : Current(i, "load")' => ~Current(j, "loadMore")'
    BY <1>6, <1>7 DEF HistoryInv, OneLoad
  <2> QED BY <2>2, <2>3, <2>4 DEF OneLoad
<1>8. ASSUME epoch' = epoch, Current(1, "load"), NEW i \in DOMAIN tail'
      PROVE  ~Current(i, "load")' /\ ~Current(i, "loadMore")'
  <2>1. i + 1 # 1
    BY <1>1
  <2> QED BY <2>1, <1>1, <1>6, <1>8 DEF HistoryInv, OneLoad
<1>9. ASSUME epoch' = epoch, rows' = rows, newest' = newest,
             ~blind' /\ ~hasNewer' => ~blind /\ ~hasNewer /\ ~Doing("save")
      PROVE  Captured'
  <2>1. SUFFICES ASSUME NEW i \in DOMAIN tail', Current(i, "loadMore")'
                 PROVE  /\ History!ToSet(tail'[i].reports) \subseteq rows /\ tail'[i].cursor # 0
                        /\ ~blind' /\ ~hasNewer' =>
                             \A k \in rows : k \in History!ToSet(tail'[i].reports) \/ k < tail'[i].cursor
    BY <1>1, <1>9 DEF Captured, Covers
  <2>2. i + 1 \in DOMAIN tail /\ Current(i + 1, "loadMore") /\ tail'[i] = tail[i + 1]
    BY <2>1, <1>1, <1>6, <1>9
  <2> QED BY <2>2, <1>9 DEF HistoryInv, Captured, Covers
<1> QED
  BY <1>1, <1>2, <1>3, <1>4, <1>5, <1>6, <1>7, <1>8, <1>9

\* An operation that ends and changes neither what is stored nor what is listed.
LEMMA QuietEnd ==
    ASSUME HistoryInv, tail # <<>>, History!Ends, epoch' = epoch,
           UNCHANGED <<rows, newest, current, reports, count, cursor, hasNewer, deleted>>,
           blind => blind', {blind', loadingMore'} \subseteq BOOLEAN,
           \/ shown' = shown
           \/ shown' = "error" /\ \A i \in DOMAIN tail' : ~Current(i, "load")',
           point = "done" => Doing("save") /\ blind'
    PROVE  HistoryInv'
<1>1. /\ tail' \in Seq(HistoryOps) /\ point' = "called" /\ \A kind : ~Doing(kind)'
      /\ \A i \in DOMAIN tail' : tail'[i].kind \in HistoryKinds
      /\ PagesFirst' /\ OneLoad'
      /\ \A i \in DOMAIN tail' : tail'[i].kind = "loadMore" => count # Nothing
      /\ \A i \in DOMAIN tail' : \A kind : Current(i, kind)' =>
           i + 1 \in DOMAIN tail /\ Current(i + 1, kind)
  BY RestStays
<1>2. Captured'
  <2>1. ~blind' => ~blind /\ ~Doing("save")
    BY DEF Doing
  <2> QED BY <2>1, RestStays
<1>3. ~Doing("delete") /\ ~Doing("deleteAll")
  BY DEF Doing
<1>4. HistoryTypes'
  <2>1. History!TypeOK'
    BY <1>1 DEF HistoryInv, HistoryTypes, History!TypeOK, HistoryKinds, History!Deletes,
                     History!Numbers
  <2> QED BY <2>1, <1>1 DEF HistoryInv, HistoryTypes
<1>5. LoadsFirst'
  BY <1>1 DEF HistoryInv, LoadsFirst
<1>6. Counted'
  <2>1. ~blind' => point # "done" /\ ~blind
    BY DEF Doing
  <2>2. point' # "done"
    BY <1>1
  <2> QED BY <1>1, <2>1 DEF HistoryInv, Counted
<1>7. LeavesNothing'
  BY <1>1 DEF LeavesNothing
<1>8. Matches'
  <2>1. ~blind' => ~blind /\ ~Doing("save")
    BY DEF Doing
  <2> QED BY <2>1, <1>1, <1>3 DEF HistoryInv, Matches, Covers
<1>9. Removed'
  BY <1>1 DEF HistoryInv, Removed, History!DeletedStaysOut, History!Listed
<1> QED
  BY <1>1, <1>2, <1>4, <1>5, <1>6, <1>7, <1>8, <1>9 DEF HistoryInv

LEMMA QuietEnds ==
    ASSUME HistoryInv,
           \/ History!LoadFails \/ History!LoadMoreFails \/ History!LoadMoreStale
           \/ History!SaveFails \/ History!DeleteFails
           \/ History!RunLoad /\ Head(tail).generation # epoch
    PROVE  HistoryInv'
<1> USE DEF History!AtHead, History!Op, History!rows, History!shown
<1>0. /\ {blind, loadingMore} \subseteq BOOLEAN /\ point \in {"called", "asked", "done"}
      /\ tail # <<>> => 1 \in DOMAIN tail /\ Head(tail) = tail[1]
      /\ point = "done" => Doing("save") \/ Doing("delete") \/ Doing("deleteAll")
  <2>1. tail # <<>> => 1 \in DOMAIN tail /\ Head(tail) = tail[1]
    BY LenProperties, EmptySeq DEF HistoryInv, HistoryTypes
  <2> QED BY <2>1 DEF HistoryInv, HistoryTypes, History!TypeOK
<1>1. CASE History!LoadFails
  <2>1. Current(1, "load") /\ epoch' = epoch /\ tail # <<>> /\ History!Ends
    BY <1>0, <1>1 DEF History!LoadFails, Current
  <2>2. \A i \in DOMAIN tail' : ~Current(i, "load")'
    BY <2>1, RestStays
  <2>3. point # "done" /\ shown' = "error"
    BY <1>1 DEF History!LoadFails
  <2>4. /\ UNCHANGED <<rows, newest, current, reports, count, cursor, hasNewer, deleted>>
        /\ blind' = blind /\ loadingMore' = loadingMore
    BY <1>1 DEF History!LoadFails
  <2> QED BY <2>1, <2>2, <2>3, <2>4, <1>0, QuietEnd
<1>2. CASE History!LoadMoreFails
  <2>1. /\ UNCHANGED <<rows, newest, current, reports, count, cursor, hasNewer, deleted>>
        /\ blind' = blind /\ loadingMore' = FALSE /\ epoch' = epoch /\ shown' = shown
        /\ point # "done" /\ History!Ends /\ tail # <<>>
    BY <1>2 DEF History!LoadMoreFails, History!FooterRests
  <2> QED BY <2>1, <1>0, QuietEnd
<1>3. CASE History!LoadMoreStale
  <2>1. /\ UNCHANGED <<rows, newest, current, reports, count, cursor, hasNewer, deleted>>
        /\ blind' = blind /\ loadingMore' = loadingMore /\ epoch' = epoch /\ shown' = shown
        /\ History!Ends /\ tail # <<>>
    BY <1>3 DEF History!LoadMoreStale
  <2>2. point # "done"
    BY <1>0, <1>3 DEF History!LoadMoreStale, Doing
  <2> QED BY <2>1, <2>2, <1>0, QuietEnd
<1>4. CASE History!SaveFails
  <2>1. /\ UNCHANGED <<rows, newest, current, reports, count, cursor, hasNewer, deleted>>
        /\ blind' = (blind \/ point = "done") /\ loadingMore' = loadingMore /\ epoch' = epoch
        /\ shown' = shown /\ History!Ends /\ tail # <<>> /\ Head(tail).kind = "save"
    BY <1>4 DEF History!SaveFails
  <2>2. point = "done" => Doing("save") /\ blind'
    BY <2>1 DEF Doing
  <2>3. blind' \in BOOLEAN /\ (blind => blind')
    BY <2>1
  <2> QED BY <2>1, <2>2, <2>3, <1>0, QuietEnd
<1>5. CASE History!DeleteFails
  <2>1. /\ UNCHANGED <<rows, newest, current, reports, count, cursor, hasNewer, deleted>>
        /\ blind' = blind /\ loadingMore' = loadingMore /\ epoch' = epoch /\ shown' = shown
        /\ History!Ends /\ tail # <<>> /\ point # "done"
    BY <1>5 DEF History!DeleteFails
  <2> QED BY <2>1, <1>0, QuietEnd
<1>6. CASE History!RunLoad /\ Head(tail).generation # epoch
  <2>1. /\ UNCHANGED <<rows, newest, current, reports, count, cursor, hasNewer, deleted>>
        /\ blind' = blind /\ loadingMore' = loadingMore /\ epoch' = epoch /\ shown' = shown
        /\ History!Ends /\ tail # <<>> /\ point # "done"
    BY <1>6 DEF History!RunLoad
  <2> QED BY <2>1, <1>0, QuietEnd
<1> QED
  BY <1>1, <1>2, <1>3, <1>4, <1>5, <1>6

\* The constants that count.
LEMMA HistoryConstants ==
    /\ {MaxReport, PageSize, Window} \subseteq Nat \ {0} /\ PageSize <= Window /\ Nothing \notin Nat
BY LifecyclesAssumption DEF History!HistoryAssumption

\* The stored reports are numbered, and counted by a number.
LEMMA RowsCounted ==
    ASSUME HistoryInv
    PROVE  /\ newest \in 0..MaxReport /\ newest \in Nat /\ rows \in SUBSET (1..newest)
           /\ IsFiniteSet(rows) /\ Cardinality(rows) \in 0..MaxReport /\ rows \subseteq History!Numbers
<1>1. newest \in 0..MaxReport /\ newest \in Nat /\ rows \in SUBSET (1..newest) /\ MaxReport \in Nat
  BY HistoryConstants DEF HistoryInv, HistoryTypes, History!TypeOK
<1>2. IsFiniteSet(1..newest) /\ Cardinality(1..newest) <= newest
  BY <1>1, FS_Interval
<1>3. IsFiniteSet(rows) /\ Cardinality(rows) <= Cardinality(1..newest)
  BY <1>1, <1>2, FS_Subset, Zenon
<1>4. Cardinality(rows) \in Nat /\ Cardinality(1..newest) \in Nat
  BY <1>2, <1>3, FS_CardinalityType
<1>5. rows \subseteq History!Numbers
  BY <1>1 DEF History!Numbers
<1> QED
  BY <1>1, <1>2, <1>3, <1>4, <1>5

\* The list is made anew of the newest page.
LEMMA ShowsNewest ==
    ASSUME HistoryInv, History!ShowNewest
    PROVE  /\ reports' \in Seq(History!Numbers) /\ History!ToSet(reports') \subseteq rows
           /\ \A i \in rows : i \in History!ToSet(reports') \/ i < cursor'
           /\ cursor' \in 0..MaxReport
           /\ count' = Cardinality(rows) /\ count' \in 0..MaxReport /\ count' # Nothing
           /\ hasNewer' = FALSE
<1> DEFINE P == History!PageOf(0)
<1>1. /\ reports' = History!NewestFirst(P) /\ cursor' = History!CursorOf(0)
      /\ count' = Cardinality(rows) /\ hasNewer' = FALSE
  BY SameCardinality DEF History!ShowNewest
<1>2. /\ newest \in 0..MaxReport /\ newest \in Nat /\ rows \in SUBSET (1..newest)
      /\ IsFiniteSet(rows) /\ Cardinality(rows) \in 0..MaxReport /\ rows \subseteq History!Numbers
  BY RowsCounted
<1>3. /\ P \subseteq rows /\ P \in SUBSET Nat /\ IsFiniteSet(P)
      /\ History!CursorOf(0) \in 0..newest
      /\ \A i \in rows : i \in P \/ i < History!CursorOf(0)
  BY <1>2, PageCovers, HistoryConstants
<1> HIDE DEF P
<1>4. History!NewestFirst(P) \in Seq(P) /\ History!ToSet(History!NewestFirst(P)) = P
  BY <1>3, NewestFirstLists
<1>5. P \subseteq History!Numbers
  BY <1>2, <1>3
<1>6. History!NewestFirst(P) \in Seq(History!Numbers)
  BY <1>4, <1>5, SeqMonotonic
<1>7. cursor' \in 0..MaxReport
  BY <1>1, <1>2, <1>3, HistoryConstants
<1>8. count' \in 0..MaxReport /\ count' # Nothing
  BY <1>1, <1>2, HistoryConstants
<1> QED
  BY <1>1, <1>3, <1>4, <1>6, <1>7, <1>8

\* A load and a save show the newest page.
LEMMA NewestShown ==
    ASSUME HistoryInv, tail # <<>>, History!Ends, History!ShowNewest,
           UNCHANGED <<rows, newest, current, deleted>>, shown' = "ready", blind' = FALSE,
           loadingMore' \in BOOLEAN, epoch' \in Nat,
           \/ epoch' = epoch /\ Head(tail).kind = "load" /\ Head(tail).generation = epoch
           \/ epoch' = epoch + 1
    PROVE  HistoryInv'
<1>1. /\ tail' \in Seq(HistoryOps) /\ point' = "called" /\ \A kind : ~Doing(kind)'
      /\ \A i \in DOMAIN tail' : tail'[i].kind \in HistoryKinds
      /\ PagesFirst'
  BY RestStays
<1>2. /\ reports' \in Seq(History!Numbers) /\ History!ToSet(reports') \subseteq rows
      /\ \A i \in rows : i \in History!ToSet(reports') \/ i < cursor'
      /\ cursor' \in 0..MaxReport
      /\ count' = Cardinality(rows) /\ count' \in 0..MaxReport /\ count' # Nothing
      /\ hasNewer' = FALSE
  BY ShowsNewest
<1>3. tail \in Seq(HistoryOps) /\ epoch \in Nat /\ 1 \in DOMAIN tail /\ Head(tail) = tail[1]
  BY OpEnds DEF HistoryInv, HistoryTypes
<1>4. /\ OneLoad'
      /\ \A i \in DOMAIN tail' : ~Current(i, "load")' /\ ~Current(i, "loadMore")'
  <2>1. CASE epoch' = epoch /\ Head(tail).kind = "load" /\ Head(tail).generation = epoch
    <3>1. Current(1, "load")
      BY <2>1, <1>3 DEF Current
    <3> QED BY <2>1, <3>1, RestStays
  <2>2. CASE epoch' = epoch + 1
    <3>1. \A i \in DOMAIN tail' : i + 1 \in DOMAIN tail /\ tail'[i] = tail[i + 1]
      BY <1>3, OpEnds
    <3>2. \A i \in DOMAIN tail' : tail'[i] \in HistoryOps
      BY <1>1, LenProperties
    <3>3. \A i \in DOMAIN tail' : tail'[i].generation \in Nat /\ tail'[i].generation <= epoch
      BY <3>1, <3>2 DEF HistoryOps, HistoryInv, OneLoad
    <3>4. \A i \in DOMAIN tail' : tail'[i].generation # epoch' /\ tail'[i].generation <= epoch'
      BY <2>2, <3>3, <1>3
    <3> QED BY <3>4 DEF Current, OneLoad
  <2> QED BY <2>1, <2>2
<1>5. HistoryTypes'
  <2>1. History!TypeOK'
    BY <1>1, <1>2 DEF HistoryInv, HistoryTypes, History!TypeOK, HistoryKinds, History!Deletes,
                     History!Numbers
  <2> QED BY <2>1, <1>1 DEF HistoryTypes
<1>6. LoadsFirst' /\ Captured'
  BY <1>4 DEF LoadsFirst, Captured
<1>7. Counted'
  BY <1>1, <1>2 DEF Counted
<1>8. LeavesNothing'
  BY <1>1 DEF LeavesNothing
<1>9. Matches'
  BY <1>2 DEF Matches, Covers
<1>10. Removed'
  BY <1>1, <1>2 DEF HistoryInv, Removed, History!DeletedStaysOut, History!Listed
<1> QED
  BY <1>1, <1>4, <1>5, <1>6, <1>7, <1>8, <1>9, <1>10 DEF HistoryInv

LEMMA NewestKeeps ==
    ASSUME HistoryInv,
           \/ History!RunLoad /\ Head(tail).generation = epoch
           \/ History!SaveShows
    PROVE  HistoryInv'
<1> USE DEF History!AtHead, History!Op, History!rows
<1>0. {blind, loadingMore} \subseteq BOOLEAN /\ epoch \in Nat
  BY DEF HistoryInv, HistoryTypes, History!TypeOK
<1>1. CASE History!RunLoad /\ Head(tail).generation = epoch
  <2>1. /\ tail # <<>> /\ Head(tail).kind = "load" /\ History!Ends /\ History!ShowNewest
        /\ loadingMore' = FALSE /\ shown' = "ready" /\ blind' = FALSE /\ epoch' = epoch
        /\ UNCHANGED <<rows, newest, current, deleted>>
    BY <1>1 DEF History!RunLoad
  <2> QED BY <2>1, <1>0, <1>1, NewestShown
<1>2. CASE History!SaveShows
  <2>1. /\ tail # <<>> /\ History!Ends /\ History!ShowNewest
        /\ loadingMore' = loadingMore /\ shown' = "ready" /\ blind' = FALSE /\ epoch' = epoch + 1
        /\ UNCHANGED <<rows, newest, current, deleted>>
    BY <1>2 DEF History!SaveShows, History!Supersede
  <2>2. epoch + 1 \in Nat
    BY <1>0
  <2> QED BY <2>1, <2>2, <1>0, NewestShown
<1> QED
  BY <1>1, <1>2

\* What a list shows that is two lists, or the end of a list.
LEMMA JoinedLists ==
    ASSUME NEW T, NEW s \in Seq(T), NEW t \in Seq(T)
    PROVE  s \o t \in Seq(T) /\ History!ToSet(s \o t) = History!ToSet(s) \cup History!ToSet(t)
<1>1. /\ s \o t \in Seq(T) /\ Len(s \o t) = Len(s) + Len(t)
      /\ \A i \in 1..Len(s) + Len(t) : (s \o t)[i] = IF i <= Len(s) THEN s[i] ELSE t[i - Len(s)]
  BY ConcatProperties
<1>2. /\ DOMAIN (s \o t) = 1..(Len(s) + Len(t)) /\ DOMAIN s = 1..Len(s) /\ DOMAIN t = 1..Len(t)
      /\ Len(s) \in Nat /\ Len(t) \in Nat
  BY <1>1, LenProperties
<1>3. ASSUME NEW i \in DOMAIN (s \o t)
      PROVE  (s \o t)[i] \in History!ToSet(s) \cup History!ToSet(t)
  <2>1. CASE i <= Len(s)
    BY <2>1, <1>1, <1>2 DEF History!ToSet
  <2>2. CASE ~(i <= Len(s))
    <3>1. i - Len(s) \in DOMAIN t /\ (s \o t)[i] = t[i - Len(s)]
      BY <2>2, <1>1, <1>2
    <3> QED BY <3>1 DEF History!ToSet
  <2> QED BY <2>1, <2>2
<1>4. ASSUME NEW i \in DOMAIN s PROVE s[i] \in History!ToSet(s \o t)
  <2>1. i \in DOMAIN (s \o t) /\ (s \o t)[i] = s[i]
    BY <1>1, <1>2
  <2> QED BY <2>1 DEF History!ToSet
<1>5. ASSUME NEW i \in DOMAIN t PROVE t[i] \in History!ToSet(s \o t)
  <2>1. i + Len(s) \in DOMAIN (s \o t) /\ (s \o t)[i + Len(s)] = t[i]
    BY <1>1, <1>2
  <2> QED BY <2>1 DEF History!ToSet
<1>6. /\ \A x \in History!ToSet(s \o t) : x \in History!ToSet(s) \cup History!ToSet(t)
      /\ \A x \in History!ToSet(s) \cup History!ToSet(t) : x \in History!ToSet(s \o t)
  <2>1. \A x : x \in History!ToSet(s \o t) <=> \E i \in DOMAIN (s \o t) : x = (s \o t)[i]
    BY DEF History!ToSet
  <2>2. \A x : x \in History!ToSet(s) <=> \E i \in DOMAIN s : x = s[i]
    BY DEF History!ToSet
  <2>3. \A x : x \in History!ToSet(t) <=> \E i \in DOMAIN t : x = t[i]
    BY DEF History!ToSet
  <2> QED BY <2>1, <2>2, <2>3, <1>3, <1>4, <1>5, Zenon
<1> QED
  BY <1>1, <1>6

LEMMA EndOfList ==
    ASSUME NEW T, NEW s \in Seq(T), NEW k \in Nat, k <= Len(s)
    PROVE  /\ SubSeq(s, k + 1, Len(s)) \in Seq(T)
           /\ History!ToSet(SubSeq(s, k + 1, Len(s))) \subseteq History!ToSet(s)
           /\ k = 0 => SubSeq(s, k + 1, Len(s)) = s
<1> DEFINE e == SubSeq(s, k + 1, Len(s))
<1>1. Len(s) \in Nat /\ DOMAIN s = 1..Len(s) /\ \A i \in DOMAIN s : s[i] \in T
  BY LenProperties
<1>2. \A i \in (k + 1)..Len(s) : s[i] \in T
  BY <1>1
<1>3. /\ e \in Seq(T) /\ Len(e) = IF k + 1 <= Len(s) THEN Len(s) - (k + 1) + 1 ELSE 0
      /\ \A i \in 1..(Len(s) - (k + 1) + 1) : e[i] = s[k + 1 + i - 1]
  BY <1>1, <1>2, SubSeqProperties
<1> HIDE DEF e
<1>4. DOMAIN e = 1..(Len(s) - k)
  <2>1. Len(e) = Len(s) - k
    <3> DEFINE n == Len(s)
    <3>1. n \in Nat /\ k <= n /\ Len(e) = IF k + 1 <= n THEN n - (k + 1) + 1 ELSE 0
      BY <1>1, <1>3
    <3> HIDE DEF n
    <3>2. Len(e) = n - k
      BY <3>1
    <3> QED BY <3>2 DEF n
  <2> QED BY <1>3, <2>1, LenProperties
<1>5. ASSUME NEW i \in DOMAIN e
      PROVE  k + i \in DOMAIN s /\ e[i] = s[k + i]
  <2>1. i \in 1..(Len(s) - (k + 1) + 1) /\ k + 1 + i - 1 = k + i /\ k + i \in 1..Len(s)
    BY <1>1, <1>4
  <2> QED BY <2>1, <1>1, <1>3
<1>6. History!ToSet(e) \subseteq History!ToSet(s)
  BY <1>5 DEF History!ToSet
<1>7. k = 0 => e = s
  BY SubSeqFull DEF e
<1> QED
  BY <1>3, <1>6, <1>7 DEF e

\* A page that comes is added to the list of its press.
LEMMA PageArrives == HistoryInv /\ History!EndLoadMore => HistoryInv'
<1> SUFFICES ASSUME HistoryInv, History!EndLoadMore PROVE HistoryInv'
  OBVIOUS
<1> DEFINE op == Head(tail)
           page == History!PageOf(op.cursor) \ History!ToSet(op.reports)
           merged == op.reports \o History!NewestFirst(page)
           excess == IF Len(merged) > Window THEN Len(merged) - Window ELSE 0
<1>1. /\ tail # <<>> /\ op.kind = "loadMore" /\ point = "asked" /\ History!Ends
      /\ op.generation = epoch
      /\ reports' = SubSeq(merged, excess + 1, Len(merged))
      /\ hasNewer' = (hasNewer \/ excess > 0)
      /\ cursor' = History!CursorOf(op.cursor)
      /\ loadingMore' = FALSE /\ shown' = "ready"
      /\ rows' = rows /\ newest' = newest /\ current' = current /\ count' = count
      /\ epoch' = epoch /\ blind' = blind /\ deleted' = deleted
  BY DEF History!EndLoadMore, History!AtHead, History!Op, History!FooterRests, History!rows
<1>2. /\ tail' \in Seq(HistoryOps) /\ point' = "called" /\ \A kind : ~Doing(kind)'
      /\ \A i \in DOMAIN tail' : tail'[i].kind \in HistoryKinds
      /\ PagesFirst' /\ OneLoad'
      /\ \A i \in DOMAIN tail' : tail'[i].kind = "loadMore" => count # Nothing
      /\ \A i \in DOMAIN tail' : \A kind : Current(i, kind)' =>
           i + 1 \in DOMAIN tail /\ Current(i + 1, kind)
  BY <1>1, RestStays
<1>3. 1 \in DOMAIN tail /\ op = tail[1] /\ op \in HistoryOps
  BY <1>1, OpEnds DEF HistoryInv, HistoryTypes
<1>4. Current(1, "loadMore")
  BY <1>1, <1>3 DEF Current
<1>5. /\ History!ToSet(op.reports) \subseteq rows /\ op.cursor # 0
      /\ ~blind /\ ~hasNewer => Covers(op.reports, op.cursor)
  BY <1>3, <1>4 DEF HistoryInv, Captured
<1>6. op.cursor \in Nat /\ op.reports \in Seq(History!Numbers)
  BY <1>3 DEF HistoryOps
<1>7. /\ newest \in 0..MaxReport /\ newest \in Nat /\ rows \in SUBSET (1..newest)
      /\ rows \subseteq History!Numbers /\ MaxReport \in Nat
  BY RowsCounted, HistoryConstants
<1> HIDE DEF op
<1>8. /\ History!PageOf(op.cursor) \subseteq rows /\ History!PageOf(op.cursor) \in SUBSET Nat
      /\ IsFiniteSet(History!PageOf(op.cursor))
      /\ History!CursorOf(op.cursor) \in 0..newest
      /\ \A i \in rows : i < op.cursor \/ op.cursor = 0 =>
           i \in History!PageOf(op.cursor) \/ i < History!CursorOf(op.cursor)
  BY <1>6, <1>7, PageCovers, HistoryConstants
<1>9. page \in SUBSET Nat /\ IsFiniteSet(page) /\ page \subseteq rows
  <2>1. page \in SUBSET History!PageOf(op.cursor)
    OBVIOUS
  <2>2. IsFiniteSet(page)
    BY <2>1, <1>8, FS_Subset, Zenon
  <2> QED BY <2>1, <2>2, <1>8
<1>10. \A i : i \in page <=> i \in History!PageOf(op.cursor) /\ i \notin History!ToSet(op.reports)
  OBVIOUS
<1> HIDE DEF page
<1>11. History!NewestFirst(page) \in Seq(History!Numbers)
       /\ History!ToSet(History!NewestFirst(page)) = page
  <2>1. page \subseteq History!Numbers
    BY <1>7, <1>9
  <2>2. History!NewestFirst(page) \in Seq(page)
        /\ History!ToSet(History!NewestFirst(page)) = page
    BY <1>9, NewestFirstLists
  <2> QED BY <2>1, <2>2, SeqMonotonic
<1>12. merged \in Seq(History!Numbers)
       /\ History!ToSet(merged) = History!ToSet(op.reports) \cup page
  BY <1>6, <1>11, JoinedLists
<1> HIDE DEF merged
<1>13. excess \in Nat /\ excess <= Len(merged)
  <2>1. Len(merged) \in Nat
    BY <1>12, LenProperties
  <2> QED BY <2>1, HistoryConstants
<1>14. (excess > 0) \in BOOLEAN /\ (~(excess > 0) => excess = 0)
  BY <1>13
<1> HIDE DEF excess
<1>15. /\ reports' \in Seq(History!Numbers)
       /\ History!ToSet(reports') \subseteq rows
       /\ excess = 0 => History!ToSet(reports') = History!ToSet(op.reports) \cup page
  BY <1>1, <1>5, <1>9, <1>12, <1>13, EndOfList
<1>16. cursor' \in 0..MaxReport
  BY <1>1, <1>7, <1>8
<1>17. HistoryTypes'
  <2>1. hasNewer' \in BOOLEAN
    BY <1>1, <1>14 DEF HistoryInv, HistoryTypes, History!TypeOK
  <2>2. History!TypeOK'
    BY <2>1, <1>1, <1>2, <1>15, <1>16
       DEF HistoryInv, HistoryTypes, History!TypeOK, HistoryKinds, History!Deletes, History!Numbers
  <2> QED BY <2>2, <1>1, <1>2 DEF HistoryInv, HistoryTypes
<1>18. LoadsFirst'
  BY <1>2, <1>3, <1>4 DEF LoadsFirst, HistoryInv, OneLoad
<1>19. Counted'
  <2>1. count # Nothing
    BY <1>1, <1>3 DEF HistoryInv, Counted
  <2>2. ~blind => count = Cardinality(rows)
    BY <1>1, <2>1 DEF HistoryInv, Counted
  <2> QED BY <2>1, <2>2, <1>1, <1>2 DEF Counted
<1>20. LeavesNothing'
  BY <1>2 DEF LeavesNothing
<1>21. Matches'
  <2>1. SUFFICES ASSUME ~blind, ~hasNewer', NEW i \in rows, i \notin History!ToSet(reports')
                 PROVE  i < cursor'
    BY <1>1, <1>15 DEF Matches, Covers
  <2>2. ~hasNewer /\ excess = 0
    BY <2>1, <1>1, <1>14
  <2>3. i \notin History!ToSet(op.reports) /\ i \notin page
    BY <2>1, <2>2, <1>15
  <2>4. ~Doing("save")
    BY <1>1 DEF Doing
  <2>5. i < op.cursor
    BY <2>1, <2>2, <2>3, <2>4, <1>5 DEF Covers
  <2>6. i \notin History!PageOf(op.cursor)
    BY <2>3, <1>10
  <2> QED BY <2>5, <2>6, <1>1, <1>8
<1>22. Captured'
  <2>1. ~blind' /\ ~hasNewer' => ~blind /\ ~hasNewer /\ ~Doing("save")
    BY <1>1 DEF Doing
  <2> QED BY <2>1, <1>1, RestStays
<1>23. Removed'
  BY <1>1, <1>2, <1>15 DEF HistoryInv, Removed, History!DeletedStaysOut, History!Listed
<1> QED
  BY <1>2, <1>17, <1>18, <1>19, <1>20, <1>21, <1>22, <1>23 DEF HistoryInv

\* A save finds the report stored, and a deletion is shown.
LEMMA SaveIsListed == HistoryInv /\ History!SaveFinds => HistoryInv'
<1> SUFFICES ASSUME HistoryInv, History!SaveFinds PROVE HistoryInv'
  OBVIOUS
<1>1. /\ tail # <<>> /\ point = "called" /\ History!Ends /\ current \in rows
      /\ reports' = IF current \in History!ToSet(reports) THEN reports ELSE <<current>> \o reports
      /\ rows' = rows /\ newest' = newest /\ current' = current /\ count' = count
      /\ cursor' = cursor /\ hasNewer' = hasNewer /\ loadingMore' = loadingMore /\ shown' = shown
      /\ epoch' = epoch /\ blind' = blind /\ deleted' = deleted
  BY DEF History!SaveFinds, History!AtHead, History!rows, History!Listed
<1>2. /\ tail' \in Seq(HistoryOps) /\ point' = "called" /\ \A kind : ~Doing(kind)'
      /\ \A i \in DOMAIN tail' : tail'[i].kind \in HistoryKinds
      /\ PagesFirst' /\ OneLoad'
      /\ \A i \in DOMAIN tail' : tail'[i].kind = "loadMore" => count # Nothing
      /\ \A i \in DOMAIN tail' : \A kind : Current(i, kind)' =>
           i + 1 \in DOMAIN tail /\ Current(i + 1, kind)
  BY <1>1, RestStays
<1>3. \A kind : ~Doing(kind)
  BY <1>1 DEF Doing
<1>4. reports \in Seq(History!Numbers) /\ current \in History!Numbers
  BY <1>1, RowsCounted DEF HistoryInv, HistoryTypes, History!TypeOK
<1>5. /\ reports' \in Seq(History!Numbers)
      /\ History!ToSet(reports) \subseteq History!ToSet(reports')
      /\ History!ToSet(reports') \subseteq History!ToSet(reports) \cup {current}
  <2>1. CASE current \in History!ToSet(reports)
    BY <2>1, <1>1, <1>4
  <2>2. CASE current \notin History!ToSet(reports)
    <3>1. reports' = <<current>> \o reports
      BY <2>2, <1>1
    <3> DEFINE one == <<current>>
    <3>2. one \in Seq(History!Numbers) /\ History!ToSet(one) = {current}
      BY <1>4 DEF History!ToSet
    <3> HIDE DEF one
    <3>3. /\ one \o reports \in Seq(History!Numbers)
          /\ History!ToSet(one \o reports) = History!ToSet(one) \cup History!ToSet(reports)
      BY <3>2, <1>4, JoinedLists
    <3> QED BY <3>1, <3>2, <3>3 DEF one
  <2> QED BY <2>1, <2>2
<1>6. HistoryTypes'
  <2>1. History!TypeOK'
    BY <1>1, <1>2, <1>5 DEF HistoryInv, HistoryTypes, History!TypeOK, HistoryKinds, History!Deletes,
                     History!Numbers
  <2> QED BY <2>1, <1>1, <1>2 DEF HistoryInv, HistoryTypes
<1>7. LoadsFirst' /\ Counted' /\ LeavesNothing'
  BY <1>1, <1>2, <1>3 DEF HistoryInv, LoadsFirst, Counted, LeavesNothing
<1>8. Matches'
  BY <1>1, <1>2, <1>3, <1>5 DEF HistoryInv, Matches, Covers
<1>9. Captured'
  BY <1>1, <1>3, RestStays
<1>10. Removed'
  BY <1>1, <1>2, <1>5 DEF HistoryInv, Removed, History!DeletedStaysOut, History!Listed
<1> QED
  BY <1>2, <1>6, <1>7, <1>8, <1>9, <1>10 DEF HistoryInv

LEMMA DeletionIsShown == HistoryInv /\ History!DeleteShows => HistoryInv'
<1> SUFFICES ASSUME HistoryInv, History!DeleteShows PROVE HistoryInv'
  OBVIOUS
<1> DEFINE id == Head(tail).id
<1>1. /\ tail # <<>> /\ Head(tail).kind = "delete" /\ point = "done" /\ History!Ends
      /\ reports' = History!Without(reports, id)
      /\ count' = IF count \in {Nothing, 0} THEN count ELSE count - 1
      /\ deleted' = deleted \cup {id}
      /\ rows' = rows /\ newest' = newest /\ current' = current
      /\ cursor' = cursor /\ hasNewer' = hasNewer /\ loadingMore' = loadingMore /\ shown' = shown
      /\ epoch' = epoch /\ blind' = blind
  BY DEF History!DeleteShows, History!AtHead, History!Op, History!rows
<1>2. /\ tail' \in Seq(HistoryOps) /\ point' = "called" /\ \A kind : ~Doing(kind)'
      /\ \A i \in DOMAIN tail' : tail'[i].kind \in HistoryKinds
      /\ PagesFirst' /\ OneLoad'
      /\ \A i \in DOMAIN tail' : tail'[i].kind # "loadMore"
      /\ \A i \in DOMAIN tail' : \A kind : Current(i, kind)' =>
           i + 1 \in DOMAIN tail /\ Current(i + 1, kind)
  BY <1>1, RestStays DEF History!Deletes
<1>3. Doing("delete") /\ ~Doing("deleteAll") /\ ~Doing("save")
  BY <1>1 DEF Doing
<1> HIDE DEF id
<1>4. id \notin rows /\ id \notin deleted /\ id \in 1..newest
  BY <1>3 DEF HistoryInv, LeavesNothing, Removed, id
<1>5. /\ reports' \in Seq(History!Numbers)
      /\ History!ToSet(reports') = History!ToSet(reports) \ {id}
  BY <1>1, WithoutTakesOut DEF HistoryInv, HistoryTypes, History!TypeOK
<1>6. HistoryTypes'
  <2>1. newest \in 0..MaxReport /\ MaxReport \in Nat
    BY RowsCounted, HistoryConstants
  <2>2. deleted' \subseteq History!Numbers
    BY <1>1, <1>4, <2>1 DEF HistoryInv, HistoryTypes, History!TypeOK, History!Numbers
  <2>3. count' \in 0..MaxReport \cup {Nothing}
    BY <1>1, <2>1, HistoryConstants DEF HistoryInv, HistoryTypes, History!TypeOK
  <2>4. History!TypeOK'
    BY <1>1, <1>2, <1>5, <2>2, <2>3 DEF HistoryInv, HistoryTypes, History!TypeOK, HistoryKinds,
                                        History!Deletes, History!Numbers
  <2> QED BY <2>4, <1>1, <1>2 DEF HistoryInv, HistoryTypes
<1>7. LoadsFirst' /\ LeavesNothing' /\ Captured'
  BY <1>1, <1>2 DEF HistoryInv, LoadsFirst, LeavesNothing, Captured, Current
<1>8. Counted'
  <2>1. count' # Nothing <=> count # Nothing
    BY <1>1, HistoryConstants DEF HistoryInv, HistoryTypes, History!TypeOK
  <2>2. ASSUME ~blind, count # Nothing PROVE count' = Cardinality(rows)
    <3>1. count = Cardinality(rows) + 1
      BY <2>2, <1>3 DEF HistoryInv, Counted
    <3>2. Cardinality(rows) \in Nat
      BY RowsCounted
    <3> QED BY <3>1, <3>2, <2>2, <1>1
  <2> QED BY <2>1, <2>2, <1>1, <1>2 DEF HistoryInv, Counted
<1>9. Matches'
  BY <1>1, <1>2, <1>3, <1>4, <1>5 DEF HistoryInv, Matches, Covers, id
<1>10. Removed'
  BY <1>1, <1>2, <1>4, <1>5 DEF HistoryInv, Removed, History!DeletedStaysOut, History!Listed
<1> QED
  BY <1>2, <1>6, <1>7, <1>8, <1>9, <1>10 DEF HistoryInv

LEMMA ErasureIsShown == HistoryInv /\ History!DeleteAllShows => HistoryInv'
<1> SUFFICES ASSUME HistoryInv, History!DeleteAllShows PROVE HistoryInv'
  OBVIOUS
<1>1. /\ tail # <<>> /\ Head(tail).kind = "deleteAll" /\ point = "done" /\ History!Ends
      /\ reports' = <<>> /\ count' = 0 /\ cursor' = 0 /\ hasNewer' = FALSE /\ shown' = "ready"
      /\ deleted' = 1..newest /\ blind' = FALSE
      /\ rows' = rows /\ newest' = newest /\ current' = current
      /\ loadingMore' = loadingMore /\ epoch' = epoch
  BY DEF History!DeleteAllShows, History!AtHead, History!Op, History!rows
<1>2. /\ tail' \in Seq(HistoryOps) /\ point' = "called" /\ \A kind : ~Doing(kind)'
      /\ \A i \in DOMAIN tail' : tail'[i].kind \in HistoryKinds
      /\ PagesFirst' /\ OneLoad'
      /\ \A i \in DOMAIN tail' : tail'[i].kind # "loadMore"
  BY <1>1, RestStays DEF History!Deletes
<1>3. rows = {}
  BY <1>1 DEF HistoryInv, LeavesNothing, Doing
<1>4. History!ToSet(reports') = {} /\ reports' \in Seq(History!Numbers)
  BY <1>1 DEF History!ToSet
<1>5. Cardinality(rows) = 0
  BY <1>3, FS_EmptySet
<1>6. HistoryTypes'
  <2>1. newest \in 0..MaxReport /\ MaxReport \in Nat /\ 1..newest \subseteq History!Numbers
    BY RowsCounted, HistoryConstants DEF History!Numbers
  <2>2. History!TypeOK'
    <3>1. 0 \in 0..MaxReport /\ deleted' \subseteq History!Numbers
      BY <1>1, <2>1
    <3> QED BY <1>1, <1>2, <1>4, <3>1 DEF HistoryInv, HistoryTypes, History!TypeOK, HistoryKinds,
                                          History!Deletes
  <2> QED BY <2>2, <1>1, <1>2 DEF HistoryInv, HistoryTypes
<1>7. LoadsFirst' /\ LeavesNothing' /\ Captured'
  BY <1>1, <1>2 DEF HistoryInv, LoadsFirst, LeavesNothing, Captured, Current
<1>8. Counted'
  BY <1>1, <1>2, <1>5, HistoryConstants DEF Counted
<1>9. Matches' /\ Removed'
  BY <1>1, <1>2, <1>3, <1>4 DEF Matches, Covers, Removed, History!DeletedStaysOut, History!Listed
<1> QED
  BY <1>2, <1>6, <1>7, <1>8, <1>9 DEF HistoryInv

\* A step within an operation: only what it writes changes.
LEMMA HeadGoes ==
    ASSUME HistoryInv, tail # <<>>, NEW s, History!Goes(s)
    PROVE  /\ tail' = tail /\ point' = s /\ epoch' = epoch /\ shown' = shown /\ reports' = reports
           /\ count' = count /\ cursor' = cursor /\ hasNewer' = hasNewer /\ blind' = blind
           /\ deleted' = deleted
           /\ 1 \in DOMAIN tail /\ Head(tail) = tail[1] /\ Head(tail) \in HistoryOps
           /\ OneLoad' /\ LoadsFirst' /\ PagesFirst'
<1>1. /\ tail' = tail /\ point' = s /\ epoch' = epoch /\ shown' = shown /\ reports' = reports
      /\ count' = count /\ cursor' = cursor /\ hasNewer' = hasNewer /\ blind' = blind
      /\ deleted' = deleted
  BY DEF History!Goes, History!shown
<1>2. 1 \in DOMAIN tail /\ Head(tail) = tail[1] /\ Head(tail) \in HistoryOps
  BY LenProperties, EmptySeq, HeadTailProperties DEF HistoryInv, HistoryTypes
<1>3. OneLoad' /\ LoadsFirst' /\ PagesFirst'
  BY <1>1 DEF HistoryInv, OneLoad, LoadsFirst, PagesFirst, Current
<1> QED
  BY <1>1, <1>2, <1>3

LEMMA PageIsAsked == HistoryInv /\ History!BeginLoadMore => HistoryInv'
<1> SUFFICES ASSUME HistoryInv, History!BeginLoadMore PROVE HistoryInv'
  OBVIOUS
<1>1. /\ tail # <<>> /\ Head(tail).kind = "loadMore" /\ point = "called" /\ History!Goes("asked")
      /\ loadingMore' = TRUE /\ rows' = rows /\ newest' = newest /\ current' = current
  BY DEF History!BeginLoadMore, History!AtHead, History!Op, History!rows
<1>2. /\ tail' = tail /\ point' = "asked" /\ epoch' = epoch /\ shown' = shown /\ reports' = reports
      /\ count' = count /\ cursor' = cursor /\ hasNewer' = hasNewer /\ blind' = blind
      /\ deleted' = deleted
      /\ OneLoad' /\ LoadsFirst' /\ PagesFirst'
  BY <1>1, HeadGoes
<1>3. \A kind : ~Doing(kind) /\ ~Doing(kind)'
  BY <1>1, <1>2 DEF Doing
<1>4. HistoryTypes'
  <2>1. History!TypeOK'
    BY <1>1, <1>2 DEF HistoryInv, HistoryTypes, History!TypeOK, History!Numbers
  <2> QED BY <2>1, <1>1, <1>2 DEF HistoryInv, HistoryTypes
<1>5. Counted' /\ LeavesNothing'
  BY <1>1, <1>2, <1>3 DEF HistoryInv, Counted, LeavesNothing
<1>6. Matches' /\ Captured'
  BY <1>1, <1>2, <1>3 DEF HistoryInv, Matches, Covers, Captured, Current
<1>7. Removed'
  BY <1>1, <1>2, <1>3 DEF HistoryInv, Removed, History!DeletedStaysOut, History!Listed
<1> QED
  BY <1>2, <1>4, <1>5, <1>6, <1>7 DEF HistoryInv

LEMMA ReportIsStored == HistoryInv /\ History!SaveWrites => HistoryInv'
<1> SUFFICES ASSUME HistoryInv, History!SaveWrites PROVE HistoryInv'
  OBVIOUS
<1>1. /\ tail # <<>> /\ Head(tail).kind = "save" /\ point = "called" /\ History!Goes("done")
      /\ newest < MaxReport /\ newest' = newest + 1 /\ current' = newest'
      /\ rows' = rows \cup {newest'} /\ loadingMore' = loadingMore
  BY DEF History!SaveWrites, History!AtHead, History!Op, History!rows
<1>2. /\ tail' = tail /\ point' = "done" /\ epoch' = epoch /\ shown' = shown /\ reports' = reports
      /\ count' = count /\ cursor' = cursor /\ hasNewer' = hasNewer /\ blind' = blind
      /\ deleted' = deleted
      /\ OneLoad' /\ LoadsFirst' /\ PagesFirst'
  BY <1>1, HeadGoes
<1>3. /\ \A kind : ~Doing(kind)
      /\ Doing("save")' /\ ~Doing("delete")' /\ ~Doing("deleteAll")'
  BY <1>1, <1>2 DEF Doing
<1>4. /\ newest \in Nat /\ rows \in SUBSET (1..newest) /\ IsFiniteSet(rows) /\ MaxReport \in Nat
      /\ Cardinality(rows) \in Nat
  BY RowsCounted, HistoryConstants
<1>5. /\ newest' \in 0..MaxReport /\ newest' \in 1..newest' /\ newest' \notin 1..newest
      /\ 1..newest \subseteq 1..newest'
  BY <1>1, <1>4
<1>6. newest' \notin rows /\ rows' \subseteq 1..newest'
  BY <1>1, <1>4, <1>5
<1>7. Cardinality(rows') = Cardinality(rows) + 1
  BY <1>1, <1>4, <1>6, FS_AddElement
<1>8. HistoryTypes'
  <2>1. current' \in 0..newest'
    BY <1>1, <1>5
  <2>2. History!TypeOK'
    BY <2>1, <1>1, <1>2, <1>5, <1>6 DEF HistoryInv, HistoryTypes, History!TypeOK, History!Numbers
  <2> QED BY <2>2, <1>1, <1>2, <1>3 DEF HistoryInv, HistoryTypes
<1>9. Counted'
  BY <1>1, <1>2, <1>3, <1>4, <1>7 DEF HistoryInv, Counted
<1>10. LeavesNothing'
  BY <1>3 DEF LeavesNothing
<1>11. \A list, before : Covers(list, before) => Covers(list, before)'
  BY <1>1, <1>3 DEF Covers
<1>12. Matches'
  BY <1>1, <1>2, <1>3, <1>11 DEF HistoryInv, Matches
<1>13. Captured'
  BY <1>1, <1>2, <1>11 DEF HistoryInv, Captured, Current
<1>14. Removed'
  BY <1>1, <1>2, <1>3, <1>5 DEF HistoryInv, Removed, History!DeletedStaysOut, History!Listed
<1> QED
  BY <1>2, <1>8, <1>9, <1>10, <1>12, <1>13, <1>14 DEF HistoryInv

\* No page was asked for behind what is deleted.
LEMMA DeletionsWrite ==
    ASSUME HistoryInv, History!DeleteWrites \/ History!DeleteAllWrites
    PROVE  HistoryInv'
<1>1. /\ tail # <<>> /\ Head(tail).kind \in History!Deletes /\ point = "called"
      /\ History!Goes("done") /\ newest' = newest /\ current' = current
      /\ loadingMore' = loadingMore
      /\ \/ /\ Head(tail).kind = "delete" /\ Head(tail).id \in rows
            /\ rows' = rows \ {Head(tail).id}
         \/ Head(tail).kind = "deleteAll" /\ rows' = {}
  BY DEF History!DeleteWrites, History!DeleteAllWrites, History!AtHead, History!Op, History!Deletes
<1>2. /\ tail' = tail /\ point' = "done" /\ epoch' = epoch /\ shown' = shown /\ reports' = reports
      /\ count' = count /\ cursor' = cursor /\ hasNewer' = hasNewer /\ blind' = blind
      /\ deleted' = deleted
      /\ 1 \in DOMAIN tail /\ Head(tail) = tail[1]
      /\ OneLoad' /\ LoadsFirst' /\ PagesFirst'
  BY <1>1, HeadGoes
<1>3. /\ \A kind : ~Doing(kind)
      /\ \A kind : Doing(kind)' <=> kind = Head(tail).kind
  BY <1>1, <1>2 DEF Doing
<1>4. rows' \subseteq rows
  BY <1>1
<1>5. /\ newest \in Nat /\ rows \in SUBSET (1..newest) /\ IsFiniteSet(rows)
      /\ Cardinality(rows) \in Nat
  BY RowsCounted
<1>6. \A i \in DOMAIN tail : tail[i].kind # "loadMore"
  <2>1. SUFFICES ASSUME NEW i \in DOMAIN tail, tail[i].kind = "loadMore" PROVE FALSE
    OBVIOUS
  <2>2. i # 1
    BY <2>1, <1>1, <1>2 DEF History!Deletes
  <2>3. 1 < i
    <3>1. DOMAIN tail = 1..Len(tail) /\ Len(tail) \in Nat
      BY LenProperties DEF HistoryInv, HistoryTypes
    <3> QED BY <3>1, <2>2
  <2> QED BY <2>1, <2>3, <1>1, <1>2 DEF HistoryInv, PagesFirst
<1>7. HistoryTypes'
  <2>1. History!TypeOK'
    BY <1>1, <1>2, <1>4 DEF HistoryInv, HistoryTypes, History!TypeOK, History!Numbers
  <2>2. \E kind \in {"save", "delete", "deleteAll"} : Doing(kind)'
    BY <1>1, <1>3 DEF History!Deletes
  <2> QED BY <2>1, <2>2, <1>1, <1>2 DEF HistoryInv, HistoryTypes
<1>8. Counted'
  <2>1. Head(tail).kind = "delete" => Cardinality(rows) = Cardinality(rows') + 1
    <3>1. ASSUME Head(tail).kind = "delete"
          PROVE  rows' = rows \ {Head(tail).id} /\ Head(tail).id \in rows
      BY <1>1, <3>1
    <3>2. ASSUME Head(tail).kind = "delete"
          PROVE  Cardinality(rows') = Cardinality(rows) - 1
      BY <3>1, <3>2, <1>5, FS_RemoveElement
    <3> QED BY <3>2, <1>5
  <2>2. ~blind /\ count # Nothing => count = Cardinality(rows)
    BY <1>1 DEF HistoryInv, Counted
  <2>3. ~Doing("save")'
    BY <1>1, <1>3 DEF History!Deletes
  <2> QED BY <2>1, <2>2, <2>3, <1>2, <1>3, <1>6 DEF HistoryInv, Counted
<1>9. LeavesNothing'
  BY <1>1, <1>2, <1>3 DEF LeavesNothing
<1>10. Matches'
  BY <1>1, <1>2, <1>3, <1>4 DEF HistoryInv, Matches, Covers
<1>11. Captured'
  BY <1>2, <1>6 DEF Captured, Current
<1>12. Removed'
  <2>1. Doing("delete")' => Head(tail).id \in rows
    BY <1>1, <1>3
  <2>2. Doing("delete")' => Head(tail).id \in 1..newest /\ Head(tail).id \notin deleted
    BY <2>1, <1>5 DEF HistoryInv, Removed
  <2> QED BY <2>2, <1>1, <1>2, <1>4
          DEF HistoryInv, Removed, History!DeletedStaysOut, History!Listed
<1> QED
  BY <1>2, <1>7, <1>8, <1>9, <1>10, <1>11, <1>12 DEF HistoryInv

LEMMA HistoryInvInit == History!Init => HistoryInv
<1> SUFFICES ASSUME History!Init PROVE HistoryInv
  OBVIOUS
<1> DEFINE op == [kind |-> "load", id |-> 0, generation |-> 1, cursor |-> 0, reports |-> <<>>]
<1>1. /\ newest \in 0..(MaxReport - 1) /\ rows = 1..newest /\ current = 0
      /\ reports = <<>> /\ count = Nothing /\ cursor = 0 /\ hasNewer = FALSE /\ loadingMore = FALSE
      /\ shown = "loading" /\ epoch = 1 /\ tail = <<op>> /\ point = "called"
      /\ blind = FALSE /\ deleted = {}
  BY DEF History!Init
<1>2. op.kind = "load" /\ op.generation = 1 /\ op \in HistoryOps
  BY DEF HistoryOps, HistoryKinds
<1> HIDE DEF op
<1>3. /\ tail \in Seq(HistoryOps) /\ DOMAIN tail = {1} /\ tail[1] = op
  BY <1>1, <1>2
<1>4. \A kind : ~Doing(kind)
  BY <1>1 DEF Doing
<1>5. HistoryTypes
  <2>1. /\ newest \in 0..MaxReport /\ 0 \in 0..newest /\ cursor \in 0..MaxReport
        /\ {reports, <<>>} \subseteq Seq(History!Numbers)
    BY <1>1, HistoryConstants
  <2>2. \A i \in DOMAIN tail : tail[i].kind \in History!Deletes \cup {"load", "loadMore", "save"}
    BY <1>2, <1>3
  <2>3. History!TypeOK
    BY <1>1, <2>1, <2>2 DEF History!TypeOK
  <2> QED BY <2>3, <1>1, <1>3 DEF HistoryTypes
<1>6. OneLoad /\ LoadsFirst /\ PagesFirst
  BY <1>1, <1>2, <1>3 DEF OneLoad, LoadsFirst, PagesFirst, Current
<1>7. Counted /\ LeavesNothing
  BY <1>1, <1>2, <1>3, <1>4 DEF Counted, LeavesNothing
<1>8. History!ToSet(reports) = {}
  BY <1>1 DEF History!ToSet
<1>9. Matches /\ Captured /\ Removed
  BY <1>1, <1>2, <1>3, <1>4, <1>8
     DEF Matches, Captured, Removed, Current, History!DeletedStaysOut, History!Listed
<1> QED
  BY <1>5, <1>6, <1>7, <1>9 DEF HistoryInv

LEMMA HistoryInvStep == HistoryInv /\ [History!Next]_historyVars => HistoryInv'
<1>1. ASSUME HistoryInv, History!Next PROVE HistoryInv'
  <2>1. ASSUME History!RunLoad PROVE HistoryInv'
    BY <1>1, <2>1, QuietEnds, NewestKeeps
  <2> QED
    BY <1>1, <2>1, PressesKeep, QuietEnds, NewestKeeps, PageIsAsked, PageArrives, SaveIsListed,
       ReportIsStored, DeletionsWrite, DeletionIsShown, ErasureIsShown
       DEF History!Next, History!Runs
<1>2. ASSUME HistoryInv, UNCHANGED historyVars PROVE HistoryInv'
  BY <1>2
     DEF historyVars, HistoryInv, HistoryTypes, History!TypeOK, OneLoad, LoadsFirst, PagesFirst,
         Counted, LeavesNothing, Matches, Captured, Removed, Covers, Current, Doing,
         History!DeletedStaysOut, History!Listed
<1> QED
  BY <1>1, <1>2

LEMMA HistoryInvHonest == HistoryInv => HistoryHonest /\ History!DeletedStaysOut
<1> SUFFICES ASSUME HistoryInv PROVE HistoryHonest /\ History!DeletedStaysOut
  OBVIOUS
<1>1. \A kind : tail = <<>> => ~Doing(kind) /\ point # "done"
  BY DEF HistoryInv, HistoryTypes, Doing
<1>2. shown = "ready" => count # Nothing
  BY DEF HistoryInv, Counted
<1>3. History!ListMatchesStore
  BY <1>1, <1>2
     DEF HistoryInv, Matches, Covers, History!ListMatchesStore, History!Settled, History!Listed
<1>4. History!CountHonest
  BY <1>1, <1>2, SameCardinality DEF HistoryInv, Counted, History!CountHonest, History!Settled
<1> QED
  BY <1>3, <1>4 DEF HistoryHonest, HistoryInv, Removed

LEMMA HistorySteps == LifecyclesSpec => []HistoryInv
<1>1. LifecyclesInit => HistoryInv
  BY HistoryInvInit DEF LifecyclesInit
<1>2. HistoryInv /\ [LifecyclesNext]_lifecyclesVars => HistoryInv'
  BY HistoryInvStep DEF LifecyclesNext, lifecyclesVars
<1> QED
  BY <1>1, <1>2, PTL DEF LifecyclesSpec

\* When nothing runs the list and its number are those of the repository: no
\* report is lost between two pages or listed that is not stored.
THEOREM HistoryIsHonest == LifecyclesSpec => []HistoryHonest
BY HistorySteps, HistoryInvHonest, PTL

\* A deleted report does not come back while no page is asked for during a
\* deletion.
THEOREM DeletedStaysGone == LifecyclesSpec => []History!DeletedStaysOut
BY HistorySteps, HistoryInvHonest, PTL
-----------------------------------------------------------------------------
(* ReportStore: a repository at work has a call at the head of its queue,   *)
(* and one with a transaction a snapshot, from the call's first statement   *)
(* to its last; so what it commits is a file.                               *)

Files == [user : 0 .. 3, table : 0 .. 3, meta : 0 .. 3, index : BOOLEAN, rowv : 0 .. 3,
          rows : SUBSET Reports]
Asked == Repository!Operations \cup {Repository!Initialize, Repository!Op("close", Nothing, 0)}

\* A repository at work has a call at the head of its queue, and one with a
\* transaction a snapshot.
StoreInv ==
    /\ disk \in Files
    /\ work \in [Repos -> Files \cup {Nothing}]
    /\ queue \in [Repos -> Seq(Asked)]
    /\ stage \in [Repos -> {"idle", "begin", "joined", "lock", "counted", "written", "cleaning"}]
    /\ handle \in [Repos -> {"none", "open", "ready", "closed"}]
    /\ closing \in [Repos -> BOOLEAN] /\ sweeping \in BOOLEAN
    /\ flight \in Repos \cup {Nothing} /\ files \subseteq TempFiles
    /\ \A r \in Repos :
         /\ stage[r] # "idle" => queue[r] # <<>>
         /\ stage[r] \in {"lock", "counted", "written", "cleaning"} => work[r] \in Files

LEMMA FileWithRows ==
    ASSUME NEW d \in Files, NEW s \in SUBSET Reports
    PROVE  [d EXCEPT !.rows = s] \in Files
BY DEF Files

LEMMA FileOfVersion ==
    ASSUME NEW n \in 0 .. 3, NEW s \in SUBSET Reports
    PROVE  Repository!Schema(n, s) \in Files
BY DEF Files, Repository!Schema

LEMMA StoreInvInit == Repository!Init => StoreInv
<1> SUFFICES ASSUME Repository!Init
             PROVE  StoreInv
  OBVIOUS
<1>1. ASSUME NEW d \in Repository!Met
      PROVE  d \in Files
  <2>1. ASSUME NEW e \in Files, NEW n \in {0, 3}
        PROVE  [e EXCEPT !.user = n] \in Files
    BY DEF Files
  <2>2. ASSUME NEW e \in Files
        PROVE  [e EXCEPT !.index = TRUE] \in Files
    BY DEF Files
  <2>3. /\ Repository!Schema(0, {}) \in Files
        /\ Repository!Schema(1, Reports) \in Files /\ Repository!Schema(2, Reports) \in Files
        /\ \A i \in Reports : Repository!Schema(1, {i}) \in Files /\ Repository!Schema(2, {i}) \in Files
    <3>1. {} \in SUBSET Reports /\ Reports \in SUBSET Reports
          /\ \A i \in Reports : {i} \in SUBSET Reports
      OBVIOUS
    <3> QED
      BY <3>1, FileOfVersion
  <2>4. /\ [Repository!Schema(2, Reports) EXCEPT !.user = 3] \in Files
        /\ [Repository!Schema(1, Reports) EXCEPT !.user = 0] \in Files
        /\ [Repository!Schema(1, Reports) EXCEPT !.index = TRUE] \in Files
    BY <2>1, <2>2, <2>3
  <2> QED
    BY <2>3, <2>4 DEF Repository!Met
<1>2. <<>> \in Seq(Asked)
  OBVIOUS
<1> QED
  BY <1>1, <1>2 DEF Repository!Init, StoreInv

LEMMA HeadAndTail ==
    ASSUME NEW q \in Seq(Asked), q # <<>>
    PROVE  Head(q) \in Asked /\ Tail(q) \in Seq(Asked)
OBVIOUS

\* A step of one repository.
LEMMA StepOfOne ==
    ASSUME StoreInv, NEW r \in Repos, disk' \in Files,
           NEW w \in Files \cup {Nothing}, work' = [work EXCEPT ![r] = w],
           NEW q \in Seq(Asked), queue' = [queue EXCEPT ![r] = q],
           NEW s \in {"idle", "begin", "joined", "lock", "counted", "written", "cleaning"},
           stage' = [stage EXCEPT ![r] = s],
           handle' \in [Repos -> {"none", "open", "ready", "closed"}],
           closing' \in [Repos -> BOOLEAN], sweeping' \in BOOLEAN,
           flight' \in Repos \cup {Nothing}, files' \subseteq TempFiles,
           s # "idle" => q # <<>>,
           s \in {"lock", "counted", "written", "cleaning"} => w \in Files
    PROVE  StoreInv'
BY DEF StoreInv

LEMMA CalledSound ==
    ASSUME StoreInv, NEW r \in Repos,
           \/ Repository!Close(r) \/ Repository!CallInitialize(r)
           \/ \E op \in Repository!Operations : Repository!Call(r, op)
    PROVE  StoreInv'
<1>1. PICK op \in Asked : /\ queue' = [queue EXCEPT ![r] = Append(@, op)]
                          /\ UNCHANGED <<disk, work, stage, handle, flight, files, sweeping>>
                          /\ closing' \in [Repos -> BOOLEAN]
  BY DEF Repository!Close, Repository!CallInitialize, Repository!Call, Asked, StoreInv
<1>2. queue[r] \in Seq(Asked)
  BY DEF StoreInv
<1>3. Append(queue[r], op) \in Seq(Asked) /\ Append(queue[r], op) # <<>>
  BY <1>2
<1> QED
  BY <1>1, <1>3 DEF StoreInv

LEMMA AnsweredSound ==
    ASSUME StoreInv, NEW r \in Repos, Repository!Answered(r), queue[r] # <<>>,
           disk' \in Files,
           handle' \in [Repos -> {"none", "open", "ready", "closed"}],
           sweeping' \in BOOLEAN, UNCHANGED <<closing, flight, files>>
    PROVE  StoreInv'
<1>1. Tail(queue[r]) \in Seq(Asked)
  BY HeadAndTail DEF StoreInv
<1>2. /\ queue' = [queue EXCEPT ![r] = Tail(queue[r])]
      /\ stage' = [stage EXCEPT ![r] = "idle"] /\ work' = [work EXCEPT ![r] = Nothing]
  BY DEF Repository!Answered
<1>3. /\ closing' \in [Repos -> BOOLEAN] /\ flight' \in Repos \cup {Nothing}
      /\ files' \subseteq TempFiles
  BY DEF StoreInv
<1> QED
  BY <1>1, <1>2, <1>3, StepOfOne

LEMMA MovesSound ==
    ASSUME StoreInv, NEW r \in Repos, NEW s, NEW w, Repository!Moves(r, s, w), queue[r] # <<>>,
           \/ s \in {"begin", "joined"} /\ w = Nothing
           \/ s \in {"lock", "counted", "written", "cleaning"} /\ w \in Files,
           sweeping' \in BOOLEAN, flight' \in Repos \cup {Nothing}
    PROVE  StoreInv'
<1>1. /\ stage' = [stage EXCEPT ![r] = s] /\ work' = [work EXCEPT ![r] = w]
      /\ UNCHANGED <<disk, queue, handle, closing, files>>
  BY DEF Repository!Moves
<1>2. s \in {"begin", "joined", "lock", "counted", "written", "cleaning"} /\ w \in Files \cup {Nothing}
  OBVIOUS
<1> QED
  BY <1>1, <1>2 DEF StoreInv

LEMMA FlightEndsSound ==
    ASSUME StoreInv, NEW r \in Repos, NEW ok \in BOOLEAN, Repository!FlightEnds(r, ok),
           queue[r] # <<>>, disk' \in Files
    PROVE  StoreInv'
<1> DEFINE crew == {r} \cup {q \in Repos : stage[q] = "joined"}
<1>1. /\ queue' = [q \in Repos |-> IF q \in crew THEN Tail(queue[q]) ELSE queue[q]]
      /\ stage' = [q \in Repos |-> IF q \in crew THEN "idle" ELSE stage[q]]
      /\ handle' = [q \in Repos |-> IF q \in crew /\ ok THEN "ready" ELSE handle[q]]
      /\ work' = [work EXCEPT ![r] = Nothing]
      /\ flight' = Nothing /\ UNCHANGED <<closing, files, sweeping>>
  BY DEF Repository!FlightEnds
<1>2. \A q \in crew : queue[q] \in Seq(Asked) /\ queue[q] # <<>>
  BY DEF StoreInv
<1>3. \A q \in crew : Tail(queue[q]) \in Seq(Asked)
  BY <1>2, HeadAndTail
<1>4. queue' \in [Repos -> Seq(Asked)]
  BY <1>1, <1>3 DEF StoreInv
<1>5. /\ stage' \in [Repos -> {"idle", "begin", "joined", "lock", "counted", "written", "cleaning"}]
      /\ handle' \in [Repos -> {"none", "open", "ready", "closed"}]
      /\ work' \in [Repos -> Files \cup {Nothing}]
  BY <1>1 DEF StoreInv
<1>6. \A q \in Repos : stage'[q] # "idle" =>
          /\ stage'[q] = stage[q] /\ queue'[q] = queue[q] /\ work'[q] = work[q]
  BY <1>1 DEF StoreInv
<1> QED
  BY <1>1, <1>4, <1>5, <1>6 DEF StoreInv

LEMMA InitializeSound ==
    ASSUME StoreInv, NEW r \in Repos,
           \/ Repository!CloseHandle(r) \/ Repository!Open(r) \/ Repository!Join(r)
           \/ Repository!Lock(r) \/ Repository!Migrate(r) \/ Repository!MigrationFails(r)
    PROVE  StoreInv'
<1> USE DEF Repository!AtHead
<1>1. disk \in Files /\ sweeping \in BOOLEAN /\ flight \in Repos \cup {Nothing}
  BY DEF StoreInv
<1>2. CASE Repository!CloseHandle(r)
  <2>1. handle' \in [Repos -> {"none", "open", "ready", "closed"}] /\ disk' \in Files
        /\ sweeping' \in BOOLEAN /\ UNCHANGED <<closing, flight, files>>
        /\ Repository!Answered(r) /\ queue[r] # <<>>
    BY <1>1, <1>2 DEF Repository!CloseHandle, StoreInv
  <2> QED
    BY <2>1, AnsweredSound
<1>3. CASE Repository!Open(r)
  BY <1>3 DEF Repository!Open, StoreInv
<1>4. CASE Repository!Join(r)
  <2>1. PICK s \in {"begin", "joined"} : Repository!Moves(r, s, Nothing)
    BY <1>4 DEF Repository!Join
  <2>2. sweeping' \in BOOLEAN /\ flight' \in Repos \cup {Nothing} /\ queue[r] # <<>>
    BY <1>1, <1>4 DEF Repository!Join
  <2> QED
    BY <2>1, <2>2, MovesSound
<1>5. CASE Repository!Lock(r)
  <2>1. sweeping' \in BOOLEAN /\ flight' \in Repos \cup {Nothing} /\ queue[r] # <<>>
        /\ Repository!Moves(r, "lock", disk)
    BY <1>1, <1>5 DEF Repository!Lock
  <2> QED
    BY <1>1, <2>1, MovesSound
<1>6. CASE Repository!Migrate(r)
  <2>1. work[r] \in Files /\ queue[r] # <<>>
    BY <1>6 DEF Repository!Migrate, StoreInv
  <2>2. Repository!Migrated(work[r]) \in Files \cup {Nothing}
    <3>1. Repository!Schema(2, work[r].rows) \in Files
      BY <2>1, FileOfVersion DEF Files
    <3> QED
      BY <2>1, <3>1 DEF Repository!Migrated
  <2>3. disk' \in Files /\ Repository!FlightEnds(r, TRUE)
    BY <1>6, <2>2 DEF Repository!Migrate
  <2> QED
    BY <2>1, <2>3, FlightEndsSound
<1>7. CASE Repository!MigrationFails(r)
  <2>1. disk' \in Files /\ Repository!FlightEnds(r, FALSE) /\ queue[r] # <<>>
    BY <1>1, <1>7 DEF Repository!MigrationFails
  <2> QED
    BY <2>1, FlightEndsSound
<1> QED
  BY <1>2, <1>3, <1>4, <1>5, <1>6, <1>7

LEMMA OperationSound ==
    ASSUME StoreInv, NEW r \in Repos,
           \/ Repository!Read(r) \/ Repository!Fails(r) \/ Repository!Count(r)
           \/ Repository!Insert(r) \/ Repository!Commit(r) \/ Repository!Delete(r)
           \/ Repository!DeleteRows(r) \/ Repository!CleanupTimesOut(r)
           \/ Repository!CleanupVerified(r) \/ Repository!CleanupUnverified(r)
    PROVE  StoreInv'
<1> USE DEF Repository!AtHead, Repository!Head1
<1>1. /\ disk \in Files /\ sweeping \in BOOLEAN /\ flight \in Repos \cup {Nothing}
      /\ handle \in [Repos -> {"none", "open", "ready", "closed"}]
  BY DEF StoreInv
<1>2. queue[r] # <<>>
  BY DEF Repository!Read, Repository!Fails, Repository!Count, Repository!Insert,
         Repository!Commit, Repository!Delete, Repository!DeleteRows,
         Repository!CleanupTimesOut, Repository!CleanupVerified, Repository!CleanupUnverified
<1>3. disk.rows \in SUBSET Reports
  BY <1>1 DEF Files
<1>4. Head(queue[r]) \in Asked
  BY <1>2, HeadAndTail DEF StoreInv
<1>5. Head(queue[r]).kind = "save" => Head(queue[r]).id \in Reports
  BY <1>4 DEF Asked, Repository!Operations, Repository!Initialize, Repository!Op
<1>6. CASE Repository!Read(r) \/ Repository!Fails(r) \/ Repository!CleanupTimesOut(r)
  <2>1. /\ Repository!Answered(r) /\ UNCHANGED <<disk, handle, closing, flight, files, sweeping>>
    BY <1>6 DEF Repository!Read, Repository!Fails, Repository!CleanupTimesOut, Repository!Refused
  <2> QED
    BY <1>1, <1>2, <2>1, AnsweredSound
<1>7. CASE Repository!Count(r)
  BY <1>1, <1>2, <1>7, MovesSound DEF Repository!Count
<1>8. CASE Repository!Insert(r)
  <2>1. disk.rows \cup {Head(queue[r]).id} \in SUBSET Reports
    BY <1>3, <1>5, <1>8 DEF Repository!Insert
  <2>2. [disk EXCEPT !.rows = @ \cup {Head(queue[r]).id}] \in Files
    BY <1>1, <2>1, FileWithRows
  <2> QED
    BY <1>1, <1>2, <1>8, <2>2, MovesSound DEF Repository!Insert
<1>9. CASE Repository!DeleteRows(r)
  <2>1. [disk EXCEPT !.rows = {}] \in Files
    BY <1>1, FileWithRows
  <2> QED
    BY <1>1, <1>2, <1>9, <2>1, MovesSound DEF Repository!DeleteRows
<1>10. CASE Repository!Commit(r) \/ Repository!CleanupVerified(r)
  <2>1. disk' = work[r] /\ work[r] \in Files
    BY <1>10 DEF Repository!Commit, Repository!CleanupVerified, StoreInv
  <2>2. /\ Repository!Answered(r) /\ sweeping' \in BOOLEAN
        /\ UNCHANGED <<handle, closing, flight, files>>
    BY <1>1, <1>10 DEF Repository!Commit, Repository!CleanupVerified
  <2> QED
    BY <1>1, <1>2, <2>1, <2>2, AnsweredSound
<1>11. CASE Repository!Delete(r)
  <2>1. disk' \in Files
    BY <1>1, <1>3, <1>11, FileWithRows DEF Repository!Delete
  <2>2. Repository!Answered(r) /\ UNCHANGED <<handle, closing, flight, files, sweeping>>
    BY <1>11 DEF Repository!Delete
  <2> QED
    BY <1>1, <1>2, <2>1, <2>2, AnsweredSound
<1>12. CASE Repository!CleanupUnverified(r)
  <2>1. /\ disk' = disk /\ sweeping' = FALSE
        /\ Repository!Answered(r) /\ UNCHANGED <<handle, closing, flight, files>>
    BY <1>12 DEF Repository!CleanupUnverified, Repository!RolledBack
  <2> QED
    BY <1>1, <1>2, <2>1, AnsweredSound
<1> QED
  BY <1>6, <1>7, <1>8, <1>9, <1>10, <1>11, <1>12

LEMMA StoreInvStep == StoreInv /\ [Repository!Next]_reportVars => StoreInv'
<1> SUFFICES ASSUME StoreInv, [Repository!Next]_reportVars
             PROVE  StoreInv'
  OBVIOUS
<1>1. CASE UNCHANGED reportVars
  BY <1>1 DEF StoreInv, reportVars
<1>2. CASE Repository!Sweep
  BY <1>2 DEF Repository!Sweep, StoreInv
<1>3. CASE Repository!Kill
  <2>1. <<>> \in Seq(Asked)
    OBVIOUS
  <2> QED
    BY <1>3, <2>1 DEF Repository!Kill, StoreInv
<1> QED
  BY <1>1, <1>2, <1>3, CalledSound, InitializeSound, OperationSound
     DEF Repository!Next, Repository!Step

LEMMA StoreInvTypes == StoreInv => Repository!TypeOK
<1> SUFFICES ASSUME StoreInv
             PROVE  Repository!TypeOK
  OBVIOUS
<1>1. \A r \in Repos : \A i \in DOMAIN queue[r] : queue[r][i] \in Asked
  <2>1. \A q \in Seq(Asked) : \A i \in DOMAIN q : q[i] \in Asked
    OBVIOUS
  <2> QED
    BY <2>1 DEF StoreInv
<1>2. disk.rows \subseteq Reports /\ {disk.user, disk.table, disk.meta, disk.rowv} \subseteq 0 .. 3
  BY DEF StoreInv, Files
<1>3. \A r \in Repos : work[r] # Nothing => work[r].rows \subseteq Reports
  BY DEF StoreInv, Files
<1> QED
  BY <1>1, <1>2, <1>3 DEF StoreInv, Asked, Repository!TypeOK

LEMMA StoresKept == LifecyclesSpec => []StoreInv
<1>1. LifecyclesInit => StoreInv
  BY StoreInvInit DEF LifecyclesInit
<1>2. StoreInv /\ [LifecyclesNext]_lifecyclesVars => StoreInv'
  BY StoreInvStep DEF LifecyclesNext, lifecyclesVars
<1> QED
  BY <1>1, <1>2, PTL DEF LifecyclesSpec

-----------------------------------------------------------------------------
(* PlanCache: its own proofs, about the variables it has here.              *)

Verification == INSTANCE PlanCacheProofs

LEMMA VerificationConstants ==
    Verification!BoundsAssumption /\ Verification!NothingAssumption
BY LifecyclesAssumption
DEF Plans!BoundsAssumption, Plans!NothingAssumption, Verification!BoundsAssumption,
    Verification!NothingAssumption, Plans!Versions, Plans!Entry, Plans!Times,
    Plans!Generations, Plans!Task, Verification!Versions, Verification!Entry,
    Verification!Times, Verification!Generations, Verification!Task

\* An instance has symbols of its own for what its module extends.
LEMMA SamePlans == Plans!Next <=> Verification!Next
BY Zenon
DEF Plans!Next, Verification!Next, Plans!Change, Plans!Claim, Plans!DuplicateEvent,
    Plans!Read, Plans!ReturnCached, Plans!StartFetch, Plans!Fetch, Plans!Observe, Plans!Put,
    Plans!ReturnFetched, Plans!Fail, Plans!Tick, Plans!CacheExpire, Plans!GenerationExpire,
    Plans!Return, Plans!AtStep, Plans!Idle, Plans!GenerationMatches, Plans!ObservedLater,
    Plans!Invalidated, Plans!Latest, Plans!Versions, Plans!billing, Verification!Change,
    Verification!Claim, Verification!DuplicateEvent, Verification!Read,
    Verification!ReturnCached, Verification!StartFetch, Verification!Fetch,
    Verification!Observe, Verification!Put, Verification!ReturnFetched, Verification!Fail,
    Verification!Tick, Verification!CacheExpire, Verification!GenerationExpire,
    Verification!Return, Verification!AtStep, Verification!Idle,
    Verification!GenerationMatches, Verification!ObservedLater, Verification!Invalidated,
    Verification!Latest, Verification!Versions, Verification!billing

LEMMA PlanSteps ==
    [LifecyclesNext]_lifecyclesVars => [Verification!Next]_Verification!vars
BY SamePlans DEF LifecyclesNext, lifecyclesVars, planVars, Verification!vars, Verification!billing

LEMMA PlansKept == LifecyclesSpec => []Verification!CacheInv
<1>1. Verification!BoundsAssumption /\ Verification!NothingAssumption
  BY VerificationConstants
<1>2. LifecyclesInit => Verification!CacheInv
  <2>1. Plans!Init => Verification!Init
    BY DEF Plans!Init, Verification!Init, Plans!Versions, Verification!Versions
  <2> QED
    BY <1>1, <2>1, Verification!CacheInvInit DEF LifecyclesInit
<1>3. Verification!CacheInv /\ [LifecyclesNext]_lifecyclesVars => Verification!CacheInv'
  BY <1>1, PlanSteps, Verification!CacheInvStep
<1> QED
  BY <1>2, <1>3, PTL DEF LifecyclesSpec

LEMMA SameFreshness == Verification!CacheInv => CacheFresh
BY DEF Verification!CacheInv, Verification!CacheFresh, CacheFresh, Plans!CacheFresh

\* No fill of the cache brings back a plan that a claimed webhook announced the
\* end of, except by a verification whose generation key expired under it
\* (put_verified_if_generation, claim_webhook_event).
THEOREM PlansStayFresh == LifecyclesSpec => []CacheFresh
BY PlansKept, SameFreshness, PTL

\* verify returns no plan from before a change whose webhook was claimed, with
\* the same exception, and the cache keeps the observation that was made last.
THEOREM PlansAnsweredInOrder == LifecyclesSpec => AnswersInOrder
<1>1. LifecyclesSpec => Verification!Spec
  <2>1. LifecyclesInit => Verification!Init
    BY DEF LifecyclesInit, Plans!Init, Verification!Init, Plans!Versions, Verification!Versions
  <2>2. [LifecyclesNext]_lifecyclesVars => [Verification!Next]_Verification!vars
    BY PlanSteps
  <2> QED
    BY <2>1, <2>2, PTL DEF LifecyclesSpec, Verification!Spec
<1>2. Verification!Spec => Verification!AnswersInOrder
  BY VerificationConstants, Verification!VerifyAnswersInOrder
<1>3. Verification!AnswersInOrder => AnswersInOrder
  BY PTL
  DEF AnswersInOrder, Plans!AnswersInOrder, Plans!AnswerFresh, Plans!NewestObservationWins,
      Verification!AnswersInOrder, Verification!AnswerFresh,
      Verification!NewestObservationWins, Plans!vars, Verification!vars, Plans!billing,
      Verification!billing
<1> QED
  BY <1>1, <1>2, <1>3, PTL

LEMMA PlansTyped == Verification!CacheInv => Plans!TypeOK
BY DEF Verification!CacheInv, Verification!TypeOK, Plans!TypeOK, Plans!Versions, Plans!Entry,
       Plans!Times, Plans!Generations, Plans!Task, Verification!Versions,
       Verification!Entry, Verification!Times, Verification!Generations, Verification!Task

-----------------------------------------------------------------------------
(* The types of all of them.                                                *)

\* Every variable of the six components keeps its type, whatever they do.
THEOREM AllTypesKept == LifecyclesSpec => []LifecyclesTypeOK
<1>1. LifecyclesSpec => [](ErasureInv /\ ApiInv)
  BY ErasureInvInit, ErasureInvStep, ErasureSteps, ApiInvInit, ApiInvStep, ApiSteps, PTL
     DEF LifecyclesSpec
<1>2. OwnerInv /\ ErasureInv /\ ApiInv /\ HistoryInv /\ StoreInv /\ Verification!CacheInv
        => LifecyclesTypeOK
  BY StoreInvTypes, PlansTyped DEF LifecyclesTypeOK, OwnerInv, ErasureInv, ApiInv, HistoryInv, HistoryTypes
<1> QED
  BY <1>1, <1>2, OwnersKept, HistorySteps, StoresKept, PlansKept, PTL
=============================================================================
