---------------------- MODULE AnalysisCoordinatorProofs ----------------------
(***************************************************************************)
(* That the analysis coordinator loses track of no copy of a resume, for   *)
(* any number of PDFs, activations and commands.                           *)
(*                                                                         *)
(* The argument is about who answers for a copy.  A claim of a PDF is its  *)
(* lease (Leases).  It is being deleted, or it is the committed source, or *)
(* a selection in the mutation chain is about to commit it (Owners); and   *)
(* whoever could leave it behind has privacy blocked first (Privacy).      *)
(* Each task that waits for a cleanup hears how it ended, whether the      *)
(* registry answers or the deadline passes (Answers, Waits).  A mutation   *)
(* that will commit has verified its PDF and released the one before       *)
(* (MutationAt); an activation that will upload is the current one, of the *)
(* source on the screen (ActAt); and while privacy is not blocked whatever *)
(* the screen shows in progress has its task (Extracting, Progress).       *)
(*                                                                         *)
(* The parts need each other, so they are one invariant.  A step is proved *)
(* by the kind of step it is: an effect is named (MutationGoes, ActGoes,   *)
(* ActStops, VisionGoes, Hears, ...), shown to keep the invariant, and     *)
(* each action is shown to be a case of it.                                *)
(***************************************************************************)
EXTENDS AnalysisCoordinator, FiniteSetTheorems, SequenceTheorems, TLAPS

-----------------------------------------------------------------------------
(* The invariant: types                                                    *)


Apps ==
    [status : {"idle", "ready", "consentRequired", "analyzing", "succeeded", "failed", "cancelled"},
     readiness : {"checking", "ready", "blocked"}, source : Sources \cup {None},
     review : BOOLEAN, cleanupPending : BOOLEAN,
     mutation : {"none", "selecting", "editing", "extracting", "resetting", "consent"}]

PortCalls == [kind : {"exact"}, pdf : Pdfs, late : BOOLEAN] \cup [kind : {"initialize", "sweep"}, late : BOOLEAN]

Sweeps == [epoch : Nat, at : {"prior", "fence", "port"}, fence : Int, shown : BOOLEAN]

Picks == {"idle", "open", "waiting", "staged", "selected", "discarded", "ended"}

\* The types that the arguments need.
TaskTypes ==
    /\ app \in Apps /\ gen \in Nat
    /\ active \in Activations \cup {None} /\ acts \in [Activations -> Acts \cup {None}]
    /\ vision \in Extractions \cup {None} /\ queue \in Seq(Mutations)
    /\ disposal \in Disposals

CopyTypes ==
    /\ claims \in Seq(Pdfs) /\ IsInjective(claims) /\ committed \in Pdfs \cup {None}
    /\ running \subseteq Pdfs /\ port \in Seq(PortCalls)
    /\ disk \subseteq Pdfs \cup {Leftover} /\ leased \subseteq Pdfs
    /\ pick \in [Pdfs -> Picks]

SweepTypes ==
    /\ epochs \in Nat /\ owed \in {0, epochs} /\ fence \in Int
    /\ sweeps \in Seq(Sweeps)
    /\ \A i \in DOMAIN sweeps : sweeps[i].shown => ~Mounted
    /\ recoveries # {} => epochs # 0

-----------------------------------------------------------------------------
(* The invariant: copies, leases and who answers for them                  *)

\* The PDFs that were handed to the coordinator.
Handed  == {p \in Pdfs : pick[p] \in {"selected", "discarded"}}

Claimed == ToSet(claims)

\* A claimed copy is leased and in place, and so is one that is being staged;
\* the committed one is claimed.
Leases ==
    /\ Claimed \subseteq leased /\ leased \subseteq disk /\ Staged \subseteq leased
    /\ Claimed \subseteq Handed
    /\ committed # None => committed \in Claimed /\ pick[committed] = "selected"

Exact(i) == port[i].kind = "exact"

\* A call that somebody waits for is that of a cleanup that runs, the only one;
\* a call that came too late is for a copy that is claimed no more.
Answers ==
    /\ \A i \in DOMAIN port : Exact(i) =>
          /\ port[i].pdf \in Handed
          /\ IF port[i].late THEN port[i].pdf \notin Claimed ELSE port[i].pdf \in running
    /\ \A i, j \in DOMAIN port :
          Exact(i) /\ Exact(j) /\ ~port[i].late /\ ~port[j].late /\ port[i].pdf = port[j].pdf
             => i = j

\* The startup call is the first until it is over; a sweep's call is that of
\* the first of the sweeps, and the only one.
RegistryCalls ==
    /\ starting => port # <<>> /\ port[1].kind = "initialize" /\ ~port[1].late
    /\ \A i \in DOMAIN port : port[i].kind = "sweep" /\ ~port[i].late =>
          /\ sweeps # <<>> /\ sweeps[1].at = "port"
          /\ \A j \in DOMAIN port : port[j].kind = "sweep" /\ ~port[j].late => i = j

\* The task that waits for the cleanup of p.
Waiter(p) ==
    \/ \E i \in DOMAIN queue : queue[i].on = p
    \/ \E a \in Activations : acts[a] # None /\ acts[a].on = p
    \/ vision # None /\ vision.on = p
    \/ disposal.on = p
    \/ pick[p] = "discarded"

Waits == \A p \in running : Waiter(p)

\* A disposal cleans up after the tasks.
Ending ==
    /\ disposal.at \in {"owned", "sweep", "disposed"} => queue = <<>> /\ active = None /\ vision = None
    /\ disposal.at # "owned" => disposal.on = None
    /\ disposal.at \in {"mounted", "tasks"} => disposal.todo = <<>>
    /\ ToSet(disposal.todo) \subseteq Handed

ToCommit(p) == \E i \in DOMAIN queue : queue[i].kind = "selecting" /\ queue[i].next = p

\* A claimed copy is being deleted, is committed, or is about to be.
Owners ==
    /\ \A p \in Claimed : p \in running \/ p = committed \/ ToCommit(p)
    /\ disposal.at = "owned" => Claimed \subseteq running \cup ToSet(disposal.todo)
    /\ disposal.at \in {"sweep", "disposed"} => Claimed \subseteq running

\* Unless privacy is blocked nothing is owed, and unless something is owed every
\* copy has an owner; a startup that has not ended has committed nothing.
Privacy ==
    /\ app.readiness # "blocked" => owed = 0
    /\ owed = 0 => disk \subseteq Claimed \cup Staged \cup {Leftover}
    /\ owed = 0 /\ Leftover \in disk =>
          epochs = 0 /\ app.readiness # "ready" /\ (Mounted \/ disposal.readiness # "ready")
    /\ Mounted /\ app.readiness # "ready" /\ owed = 0 => Claimed \subseteq running
    /\ Mounted /\ app.readiness = "checking" => committed = None /\ starting

-----------------------------------------------------------------------------
(* The invariant: the mutation chain                                       *)

\* The mutation whose outcome the screen will show.
Busy(m) == Mounted /\ m.gen = gen /\ app.mutation # "none"

Commits(m) == m.at = "end" /\ m.end = "committed"

\* What a mutation took along when it was asked for.
Requested(m) ==
    /\ m.kind = "selecting" => m.next \in Sources \cup {None}
    /\ m.kind = "consent" => m.next \in {"declined", "cancelled"}
    /\ m.claim # None => m.source = m.claim /\ m.claim \in Handed
    /\ ToSet(m.todo) \subseteq Handed

\* What a mutation has seen to once its outcome is decided.
Concluded(m) ==
    /\ m.end # None
    /\ m.end = "reset" => m.kind = "resetting" /\ ~Owned(m.claim)
    /\ m.end = "committed" =>
          /\ m.kind = "selecting" /\ m.next # None /\ m.on = None
          /\ Busy(m) /\ app.readiness = "ready"
          /\ ~Owned(m.claim)
          /\ m.next \in Pdfs => Owned(m.next)
    /\ m.end = "dropped" /\ Busy(m) => app.readiness = "blocked"
    /\ m.kind = "selecting" /\ m.next \in Pdfs /\ m.end # "committed" /\ Owned(m.next) => m.on = m.next

\* A mutation, by the place it is at.
MutationAt(m) ==
    /\ Requested(m)
    /\ m.at \in {"queued", "verify"} => m.on = None
    /\ m.used => ~Owned(m.claim)
    /\ m.at = "previous" /\ Owned(m.claim) => m.on = m.claim
    /\ m.at = "verify" => m.kind = "selecting" /\ m.next \in Pdfs /\ ~Owned(m.claim)
    /\ m.kind = "resetting" /\ m.at = "others" /\ Owned(m.claim) => m.claim \in ToSet(m.todo) \/ m.on = m.claim
    /\ m.at = "end" => Concluded(m)
    /\ m.kind = "selecting" /\ m.at \notin {"queued", "end"} /\ Busy(m) => app.readiness = "ready"
    /\ Busy(m) =>
        /\ active \in {m.act, None} /\ (m.at # "queued" => active = None)
        /\ vision # None => m.vision /\ m.at = "queued"
        /\ committed \in {m.claim, None}
        /\ app.mutation # "extracting"

Chain == \A i \in DOMAIN queue : MutationAt(queue[i])

\* Only the first mutation is under way, and they are in the order of their
\* generations.
Order ==
    /\ \A i \in DOMAIN queue : i # 1 => queue[i].at = "queued"
    /\ \A i, j \in DOMAIN queue : i < j => queue[i].gen < queue[j].gen
    /\ \A i \in DOMAIN queue : queue[i].gen <= gen

\* The PDF to select is nobody's yet.
FreshAt(m) == m.kind = "selecting" /\ m.next \in Pdfs =>
          /\ committed # m.next
          /\ \A a \in Activations : acts[a] # None => acts[a].claim # m.next
          /\ pick[m.next] = "selected"

Fresh == \A i \in DOMAIN queue : FreshAt(queue[i])

-----------------------------------------------------------------------------
(* The invariant: activations, extractions and what the screen shows       *)

\* ActivationIsCurrent, of an activation that is there.
IsCurrent(a) == Mounted /\ active = a /\ acts[a].gen = gen /\ app.mutation = "none"

\* An activation: only the current one goes on to upload, with the source that
\* is shown and committed, and it deletes its copy in the end.
ActAt(a) ==
    /\ acts[a].gen <= gen
    /\ acts[a].claim # None => acts[a].claim = acts[a].source /\ acts[a].claim \in Handed
    /\ acts[a].on \in {None, acts[a].claim}
    /\ acts[a].at # "terminal" => acts[a].on = None
    /\ acts[a].at = "terminal" =>
         acts[a].out # None /\ (Owned(acts[a].claim) => acts[a].on = acts[a].claim)
    /\ Mounted /\ active = a /\ acts[a].gen = gen => app.mutation = "none"
    /\ IsCurrent(a) =>
         /\ app.readiness = "ready" /\ acts[a].source = app.source
         /\ ~ReviewFirst(acts[a].source)
         /\ committed \in {acts[a].claim, None}
         /\ acts[a].at # "terminal" /\ acts[a].claim # None =>
                committed = acts[a].claim /\ acts[a].claim \notin running
    /\ acts[a].at = "call" /\ ~acts[a].aborted => IsCurrent(a)
    /\ acts[a].claim # None /\ acts[a].claim = committed => active = a

Activity ==
    /\ active # None => acts[active] # None
    /\ \A a \in Activations : acts[a] # None => ActAt(a)

\* An extraction deletes its copy in the end.
Extraction ==
    vision # None =>
      /\ vision.gen <= gen /\ vision.claim \in Handed
      /\ vision.on \in {None, vision.claim}
      /\ vision.at # "clean" => vision.on = None
      /\ vision.at = "clean" /\ Owned(vision.claim) => vision.on = vision.claim

\* The extraction that is shown is the current one, and no mutation supersedes it.
Extracting ==
    Mounted /\ app.mutation = "extracting" =>
          /\ vision # None /\ vision.gen = gen /\ ~vision.aborted /\ vision.clean
          /\ committed \in {vision.claim, None}
          /\ \A i \in DOMAIN queue : queue[i].gen < gen

\* What is shown in progress has its task.
Progress ==
    /\ Mounted /\ app.mutation \notin {"none", "extracting"} /\ app.readiness # "blocked" =>
          queue # <<>> /\ queue[Len(queue)].gen = gen
    /\ Mounted /\ app.status = "analyzing" => active # None /\ IsCurrent(active)
    /\ app.status \in {"consentRequired", "analyzing"} => app.readiness = "ready" /\ ~ReviewFirst(app.source)

\* What is committed is what the screen shows.
Shown ==
    /\ Mounted /\ committed # None => app.source = committed
    /\ Mounted /\ app.readiness = "ready" /\ app.mutation = "none" /\ committed # None =>
          /\ queue = <<>> /\ vision = None
          /\ active # None => acts[active].gen = gen

-----------------------------------------------------------------------------
(* Sequences, as the coordinator changes them                              *)

\* Sequences, as the coordinator changes them.
LEMMA QueueChanges ==
    ASSUME NEW S, NEW q \in Seq(S), NEW x \in S
    PROVE  /\ Append(q, x) \in Seq(S) /\ Append(q, x) # <<>>
           /\ Len(Append(q, x)) = Len(q) + 1 /\ DOMAIN Append(q, x) = 1 .. Len(q) + 1
           /\ \A i \in DOMAIN q : Append(q, x)[i] = q[i]
           /\ Append(q, x)[Len(q) + 1] = x
           /\ DOMAIN q = 1 .. Len(q) /\ Len(q) \in Nat
           /\ q # <<>> =>
                /\ 1 \in DOMAIN q /\ Head(q) = q[1] /\ Head(q) \in S
                /\ <<x>> \o Tail(q) \in Seq(S) /\ <<x>> \o Tail(q) # <<>>
                /\ DOMAIN (<<x>> \o Tail(q)) = DOMAIN q
                /\ Len(<<x>> \o Tail(q)) = Len(q)
                /\ (<<x>> \o Tail(q))[1] = x
                /\ \A i \in DOMAIN q \ {1} : (<<x>> \o Tail(q))[i] = q[i]
<1>1. /\ Append(q, x) \in Seq(S) /\ Append(q, x) # <<>>
      /\ Len(Append(q, x)) = Len(q) + 1 /\ DOMAIN Append(q, x) = 1 .. Len(q) + 1
      /\ \A i \in DOMAIN q : Append(q, x)[i] = q[i]
      /\ Append(q, x)[Len(q) + 1] = x
      /\ DOMAIN q = 1 .. Len(q) /\ Len(q) \in Nat
  OBVIOUS
<1>2. ASSUME q # <<>>
      PROVE  /\ 1 \in DOMAIN q /\ Head(q) = q[1] /\ Head(q) \in S
             /\ Tail(q) \in Seq(S) /\ Len(Tail(q)) = Len(q) - 1
             /\ \A i \in 1 .. Len(Tail(q)) : Tail(q)[i] = q[i + 1]
  BY <1>2
<1>3. ASSUME NEW t \in Seq(S)
      PROVE  /\ <<x>> \o t \in Seq(S) /\ Len(<<x>> \o t) = Len(t) + 1
             /\ DOMAIN (<<x>> \o t) = 1 .. Len(t) + 1
             /\ (<<x>> \o t)[1] = x
             /\ \A i \in 2 .. Len(t) + 1 : (<<x>> \o t)[i] = t[i - 1]
  BY <1>3
<1>4. ASSUME q # <<>>
      PROVE  /\ <<x>> \o Tail(q) \in Seq(S) /\ <<x>> \o Tail(q) # <<>>
             /\ DOMAIN (<<x>> \o Tail(q)) = DOMAIN q
             /\ Len(<<x>> \o Tail(q)) = Len(q)
             /\ (<<x>> \o Tail(q))[1] = x
             /\ \A i \in DOMAIN q \ {1} : (<<x>> \o Tail(q))[i] = q[i]
  <2>1. Tail(q) \in Seq(S) /\ Len(Tail(q)) = Len(q) - 1 /\ Len(q) \in Nat
    BY <1>1, <1>2, <1>4
  <2> DEFINE h == <<x>> \o Tail(q)
  <2>2. /\ h \in Seq(S) /\ Len(h) = Len(q) /\ DOMAIN h = 1 .. Len(q) /\ h[1] = x
        /\ \A i \in 2 .. Len(q) : h[i] = Tail(q)[i - 1]
    BY <1>3, <2>1
  <2>3. h # <<>>
    BY <2>2, <1>1, <1>2, <1>4
  <2>4. \A i \in DOMAIN q \ {1} : h[i] = q[i]
    BY <2>2, <2>1, <1>1, <1>2, <1>4
  <2> QED BY <2>2, <2>3, <2>4, <1>1
<1> QED
  BY <1>1, <1>2, <1>4

LEMMA QueueEnds ==
    ASSUME NEW S, NEW q \in Seq(S), q # <<>>
    PROVE  /\ 1 \in DOMAIN q /\ Head(q) = q[1] /\ Head(q) \in S
           /\ Tail(q) \in Seq(S) /\ Len(Tail(q)) = Len(q) - 1
           /\ DOMAIN q = 1 .. Len(q) /\ Len(q) \in Nat \ {0}
           /\ DOMAIN Tail(q) = 1 .. Len(q) - 1
           /\ \A i \in DOMAIN Tail(q) : i + 1 \in DOMAIN q /\ i + 1 > 1 /\ Tail(q)[i] = q[i + 1]
           /\ \A i \in DOMAIN q \ {1} : i - 1 \in DOMAIN Tail(q) /\ Tail(q)[i - 1] = q[i]
           /\ Tail(q) # <<>> => Len(Tail(q)) + 1 = Len(q) /\ Tail(q)[Len(Tail(q))] = q[Len(q)]
<1>1. /\ 1 \in DOMAIN q /\ Head(q) = q[1] /\ Head(q) \in S
      /\ Tail(q) \in Seq(S) /\ Len(Tail(q)) = Len(q) - 1
      /\ DOMAIN q = 1 .. Len(q) /\ Len(q) \in Nat \ {0}
      /\ DOMAIN Tail(q) = 1 .. Len(q) - 1
      /\ \A i \in DOMAIN Tail(q) : i + 1 \in DOMAIN q /\ i + 1 > 1 /\ Tail(q)[i] = q[i + 1]
  OBVIOUS
<1>2. \A i \in DOMAIN q \ {1} : i - 1 \in DOMAIN Tail(q) /\ Tail(q)[i - 1] = q[i]
  BY <1>1
<1>3. Tail(q) # <<>> => Len(Tail(q)) + 1 = Len(q) /\ Tail(q)[Len(Tail(q))] = q[Len(q)]
  <2>1. Tail(q) # <<>> => Len(Tail(q)) > 0
    BY <1>1, EmptySeq
  <2> QED BY <1>1, <2>1
<1> QED BY <1>1, <1>2, <1>3

LEMMA QueueMapped ==
    ASSUME NEW S, NEW q \in Seq(S), NEW f, DOMAIN f = DOMAIN q, f = [i \in DOMAIN q |-> f[i]],
           \A i \in DOMAIN q : f[i] \in S
    PROVE  f \in Seq(S) /\ Len(f) = Len(q) /\ (f = <<>> <=> q = <<>>)
           /\ DOMAIN q = 1 .. Len(q) /\ Len(q) \in Nat
<1>1. DOMAIN q = 1 .. Len(q) /\ Len(q) \in Nat
  OBVIOUS
<1>2. f \in [1 .. Len(q) -> S]
  BY <1>1
<1>3. f \in Seq(S)
  BY <1>1, <1>2, SeqDef
<1>4. Len(f) = Len(q)
  BY <1>1, <1>2, <1>3
<1>5. f = <<>> <=> Len(f) = 0
  BY <1>3, EmptySeq
<1>6. q = <<>> <=> Len(q) = 0
  BY EmptySeq
<1> QED BY <1>1, <1>3, <1>4, <1>5, <1>6

\* A finite set of integers has a least element, and a greatest.
LEMMA Extremes ==
    ASSUME NEW n \in Nat, NEW S \in SUBSET (1 .. n), S # {}
    PROVE  /\ \E x \in S : \A y \in S : x =< y
           /\ \E x \in S : \A y \in S : y <= x
<1>1. IsFiniteSet(1 .. n)
  BY FS_Interval
<1>2. IsFiniteSet(S)
  BY <1>1, FS_Subset
<1>3. IsWellFoundedOn(StrictSubsetOrdering(S), SUBSET S)
  BY <1>2, FS_StrictSubsetOrderingWellFounded, FS_FiniteSubsetsOfFinite, Zenon
<1> DEFINE Above(x) == {y \in S : y > x}
           Below(x) == {y \in S : y < x}
<1>4. S \subseteq Int
  OBVIOUS
<1>5. \E x \in S : \A y \in S : y <= x
  <2> DEFINE A == {Above(x) : x \in S}
  <2>1. A \in SUBSET SUBSET S /\ A # {}
    OBVIOUS
  <2>2. PICK T \in A : \A U \in A : ~(<<U, T>> \in StrictSubsetOrdering(S))
    <3> HIDE DEF A
    <3> QED BY <1>3, <2>1, WFMin, Zenon
  <2>3. PICK x \in S : T = Above(x)
    OBVIOUS
  <2>4. ASSUME NEW y \in S, y > x PROVE FALSE
    <3>0. x \in Int /\ y \in Int /\ \A z \in S : z \in Int
      BY <1>4
    <3>1. Above(y) \subseteq T
      <4>1. ASSUME NEW z \in S, z > y PROVE z > x
        BY <4>1, <3>0, <2>4
      <4> QED BY <4>1, <2>3
    <3>3. y \in T /\ y \notin Above(y)
      BY <3>0, <2>3, <2>4
    <3>2. Above(y) \in A
      OBVIOUS
    <3> QED BY <3>1, <3>2, <3>3, <2>2, <2>1 DEF StrictSubsetOrdering
  <2> QED BY <2>4, <1>4
<1>6. \E x \in S : \A y \in S : x =< y
  <2> DEFINE A == {Below(x) : x \in S}
  <2>1. A \in SUBSET SUBSET S /\ A # {}
    OBVIOUS
  <2>2. PICK T \in A : \A U \in A : ~(<<U, T>> \in StrictSubsetOrdering(S))
    <3> HIDE DEF A
    <3> QED BY <1>3, <2>1, WFMin, Zenon
  <2>3. PICK x \in S : T = Below(x)
    OBVIOUS
  <2>4. ASSUME NEW y \in S, y < x PROVE FALSE
    <3>0. x \in Int /\ y \in Int /\ \A z \in S : z \in Int
      BY <1>4
    <3>1. Below(y) \subseteq T
      <4>1. ASSUME NEW z \in S, z < y PROVE z < x
        BY <4>1, <3>0, <2>4
      <4> QED BY <4>1, <2>3
    <3>3. y \in T /\ y \notin Below(y)
      BY <3>0, <2>3, <2>4
    <3>2. Below(y) \in A
      OBVIOUS
    <3> QED BY <3>1, <3>2, <3>3, <2>2, <2>1 DEF StrictSubsetOrdering
  <2> QED BY <2>4, <1>4
<1> QED BY <1>5, <1>6

\* RetireClaim removes p from the claims, and nothing else.
LEMMA Retired ==
    ASSUME NEW S, NEW s \in Seq(S), IsInjective(s), NEW p
    PROVE  /\ RemoveFirst(s, p) \in Seq(S) /\ IsInjective(RemoveFirst(s, p))
           /\ ToSet(RemoveFirst(s, p)) = ToSet(s) \ {p}
<1>0. DOMAIN s = 1 .. Len(s) /\ Len(s) \in Nat
  OBVIOUS
<1>1. CASE ~ \E i \in 1 .. Len(s) : s[i] = p
  <2>1. RemoveFirst(s, p) = s
    BY <1>1 DEF RemoveFirst
  <2> QED BY <2>1, <1>1, <1>0 DEF ToSet
<1>2. CASE \E i \in 1 .. Len(s) : s[i] = p
  <2>1. PICK k \in 1 .. Len(s) : s[k] = p
    BY <1>2
  <2>2. {i \in 1 .. Len(s) : s[i] = p} = {k}
    BY <2>1, <1>0 DEF IsInjective
  <2>3. Min({k}) = k
    BY <2>1 DEF Min
  <2>4. SelectInSeq(s, LAMBDA v : v = p) = k
    BY <2>2, <2>3 DEF SelectInSeq
  <2>5. RemoveFirst(s, p) = SubSeq(s, 1, k - 1) \o SubSeq(s, k + 1, Len(s))
    BY <2>4, <1>2 DEF RemoveFirst, RemoveAt
  <2> DEFINE a == SubSeq(s, 1, k - 1)
             b == SubSeq(s, k + 1, Len(s))
             r == a \o b
  <2>6. /\ a \in Seq(S) /\ Len(a) = k - 1 /\ \A i \in 1 .. k - 1 : a[i] = s[i]
        /\ b \in Seq(S) /\ Len(b) = Len(s) - k /\ \A i \in 1 .. Len(s) - k : b[i] = s[k + i]
    <3>0. \A i \in 1 .. Len(s) : s[i] \in S
      OBVIOUS
    <3>1. a \in Seq(S) /\ Len(a) = k - 1 /\ \A i \in 1 .. k - 1 : a[i] = s[i]
      BY <3>0, <2>1, <1>0, SubSeqProperties
    <3>2. b \in Seq(S) /\ Len(b) = Len(s) - k /\ \A i \in 1 .. Len(s) - k : b[i] = s[k + i]
      <4>1. k + 1 \in Int /\ Len(s) \in Int /\ \A i \in k + 1 .. Len(s) : s[i] \in S
        BY <3>0, <2>1, <1>0
      <4>2. /\ b \in Seq(S) /\ Len(b) = IF k + 1 <= Len(s) THEN Len(s) - (k + 1) + 1 ELSE 0
            /\ \A i \in 1 .. Len(s) - (k + 1) + 1 : b[i] = s[(k + 1) + i - 1]
        BY <4>1, SubSeqProperties
      <4> HIDE DEF b
      <4>3. Len(s) - (k + 1) + 1 = Len(s) - k
        BY <2>1, <1>0
      <4>4. \A i \in 1 .. Len(s) - k : (k + 1) + i - 1 = k + i
        BY <2>1, <1>0
      <4>5. \A i \in 1 .. Len(s) - k : b[i] = s[k + i]
        BY <4>2, <4>3, <4>4
      <4>6. Len(b) = Len(s) - k
        <5>1. Len(s) \in Nat /\ k \in 1 .. Len(s)
          BY <2>1, <1>0
        <5>2. CASE k + 1 <= Len(s)
          <6>1. Len(b) = Len(s) - (k + 1) + 1
            BY <4>2, <5>2
          <6> QED BY <6>1, <5>1
        <5>3. CASE ~(k + 1 <= Len(s))
          <6>1. Len(b) = 0
            BY <4>2, <5>3
          <6> QED BY <6>1, <5>1, <5>3
        <5> QED BY <5>2, <5>3
      <4> QED BY <4>2, <4>5, <4>6
    <3> QED BY <3>1, <3>2
  <2>7. /\ r \in Seq(S) /\ DOMAIN r = 1 .. Len(s) - 1
        /\ \A i \in 1 .. Len(s) - 1 : r[i] = IF i < k THEN s[i] ELSE s[i + 1]
    <3> HIDE DEF a, b
    <3>1. r \in Seq(S) /\ Len(r) = (k - 1) + (Len(s) - k)
          /\ \A i \in 1 .. Len(s) - 1 : r[i] = IF i <= k - 1 THEN a[i] ELSE b[i - (k - 1)]
      <4>1. /\ r \in Seq(S) /\ Len(r) = Len(a) + Len(b)
            /\ \A i \in 1 .. Len(a) + Len(b) : r[i] = IF i <= Len(a) THEN a[i] ELSE b[i - Len(a)]
        BY <2>6, ConcatProperties
      <4> HIDE DEF r
      <4> QED BY <4>1, <2>6, <2>1, <1>0
    <3> HIDE DEF r
    <3>2. DOMAIN r = 1 .. Len(s) - 1
      BY <3>1, <2>1, <1>0
    <3>3. ASSUME NEW i \in 1 .. Len(s) - 1
          PROVE  r[i] = IF i < k THEN s[i] ELSE s[i + 1]
      <4>1. CASE i < k
        <5>1. i <= k - 1 /\ i \in 1 .. k - 1
          BY <4>1, <2>1, <1>0
        <5>2. r[i] = a[i] /\ a[i] = s[i]
          BY <5>1, <3>1, <2>6
        <5> QED BY <4>1, <5>2
      <4>2. CASE ~(i < k)
        <5>1. r[i] = b[i - (k - 1)] /\ i - (k - 1) \in 1 .. Len(s) - k
          BY <4>2, <3>1, <2>1, <1>0
        <5>2. b[i - (k - 1)] = s[k + (i - (k - 1))] /\ k + (i - (k - 1)) = i + 1
          BY <5>1, <2>6, <2>1, <1>0
        <5> QED BY <4>2, <5>1, <5>2
      <4> QED BY <4>1, <4>2
    <3> QED BY <3>1, <3>2, <3>3
  <2> HIDE DEF r
  <2>8. IsInjective(r)
    <3>1. ASSUME NEW i \in 1 .. Len(s) - 1, NEW j \in 1 .. Len(s) - 1, r[i] = r[j]
          PROVE  i = j
      <4> DEFINE u == IF i < k THEN i ELSE i + 1
                 v == IF j < k THEN j ELSE j + 1
      <4>1. r[i] = s[u] /\ r[j] = s[v] /\ u \in DOMAIN s /\ v \in DOMAIN s
        BY <2>7, <2>1, <1>0
      <4>2. u = v
        BY <4>1, <3>1 DEF IsInjective
      <4> QED BY <4>2, <2>1, <1>0
    <3> QED BY <3>1, <2>7 DEF IsInjective
  <2>9. ToSet(r) \subseteq ToSet(s) \ {p}
    BY <2>7, <2>1, <1>0 DEF IsInjective, ToSet
  <2>10. ASSUME NEW i \in 1 .. Len(s), s[i] # p PROVE s[i] \in ToSet(r)
    <3>1. CASE i < k
      <4>1. i \in DOMAIN r /\ r[i] = s[i]
        BY <3>1, <2>7, <2>1, <1>0
      <4> QED BY <4>1 DEF ToSet
    <3>2. CASE i > k
      <4>1. i - 1 \in DOMAIN r /\ r[i - 1] = s[i]
        BY <3>2, <2>7, <2>1, <1>0
      <4> QED BY <4>1 DEF ToSet
    <3> QED BY <3>1, <3>2, <2>1, <2>10, <1>0
  <2>11. ToSet(s) \ {p} \subseteq ToSet(r)
    BY <2>10, <1>0 DEF ToSet
  <2> QED BY <2>5, <2>7, <2>8, <2>9, <2>11 DEF r
<1> QED BY <1>1, <1>2

\* What a mutation, an activation or an extraction keeps while it goes on.
SameMutation(n, m) ==
    /\ n.kind = m.kind /\ n.next = m.next /\ n.gen = m.gen /\ n.act = m.act
    /\ n.vision = m.vision /\ n.source = m.source /\ n.claim = m.claim

-----------------------------------------------------------------------------
(* The fields of the records, and what the reducer makes of the app        *)

LEMMA MutationFields ==
    ASSUME NEW m \in Mutations
    PROVE  /\ m.kind \in Kinds /\ m.next \in Sources \cup {None, "declined", "cancelled"}
           /\ m.gen \in Nat /\ m.act \in Activations \cup {None} /\ m.vision \in BOOLEAN
           /\ m.source \in Sources \cup {None} /\ m.claim \in Pdfs \cup {None}
           /\ m.at \in Places /\ m.todo \in Seq(Pdfs) /\ m.on \in Pdfs \cup {None}
           /\ m.clean \in BOOLEAN /\ m.used \in BOOLEAN /\ m.end \in Ends \cup {None}
BY DEF Mutations

LEMMA MutationEndSet ==
    ASSUME NEW x \in Mutations, NEW v \in Ends, NEW n, n = [x EXCEPT !.end = v]
    PROVE  /\ n \in Mutations /\ SameMutation(n, x)
           /\ n.at = x.at /\ n.on = x.on /\ n.todo = x.todo /\ n.clean = x.clean /\ n.used = x.used /\ n.end = v
<1>1. n \in Mutations
  BY DEF Mutations, Places
<1>2. SameMutation(n, x) /\ n.at = x.at /\ n.on = x.on /\ n.todo = x.todo /\ n.clean = x.clean /\ n.used = x.used /\ n.end = v
  BY DEF Mutations, SameMutation
<1> QED BY <1>1, <1>2

LEMMA MutationMoves ==
    ASSUME NEW x \in Mutations, NEW v \in Places, NEW n, n = [x EXCEPT !.at = v]
    PROVE  /\ n \in Mutations /\ SameMutation(n, x)
           /\ n.at = v /\ n.on = x.on /\ n.todo = x.todo /\ n.clean = x.clean /\ n.used = x.used /\ n.end = x.end
<1>1. n \in Mutations
  BY DEF Mutations, Places
<1>2. SameMutation(n, x) /\ n.at = v /\ n.on = x.on /\ n.todo = x.todo /\ n.clean = x.clean /\ n.used = x.used /\ n.end = x.end
  BY DEF Mutations, SameMutation
<1> QED BY <1>1, <1>2

SameAct(n, x) == n.gen = x.gen /\ n.source = x.source /\ n.claim = x.claim

LEMMA ActFields ==
    ASSUME NEW x \in Acts
    PROVE  /\ x.gen \in Nat /\ x.source \in Sources /\ x.claim \in Pdfs \cup {None}
           /\ x.at \in {"read", "write", "call", "api", "terminal"} /\ x.aborted \in BOOLEAN
           /\ x.out \in {None, "succeeded", "failed", "cancelled", "consentFailed"}
           /\ x.on \in Pdfs \cup {None} /\ x.clean \in BOOLEAN
BY DEF Acts

SameExtraction(n, x) == n.gen = x.gen /\ n.claim = x.claim

LEMMA ExtractionFields ==
    ASSUME NEW x \in Extractions
    PROVE  /\ x.gen \in Nat /\ x.claim \in Pdfs /\ x.at \in {"before", "native", "after", "clean"}
           /\ x.aborted \in BOOLEAN /\ x.ok \in BOOLEAN /\ x.on \in Pdfs \cup {None}
           /\ x.clean \in BOOLEAN
BY DEF Extractions

LEMMA DisposalFields ==
    ASSUME NEW x \in Disposals
    PROVE  /\ x.at \in {"mounted", "tasks", "owned", "sweep", "disposed"} /\ x.todo \in Seq(Pdfs)
           /\ x.on \in Pdfs \cup {None} /\ x.clean \in BOOLEAN /\ x.epoch \in Nat
           /\ x.readiness \in {"checking", "ready", "blocked"}
BY DEF Disposals

LEMMA DisposalEnds ==
    ASSUME NEW x \in Disposals, NEW n, n = [x EXCEPT !.at = "disposed"]
    PROVE  /\ n \in Disposals
           /\ n.at = "disposed" /\ n.todo = x.todo /\ n.on = x.on /\ n.clean = x.clean /\ n.epoch = x.epoch /\ n.readiness = x.readiness
<1>1. n \in Disposals
  BY DEF Disposals
<1>2. n.at = "disposed" /\ n.todo = x.todo /\ n.on = x.on /\ n.clean = x.clean /\ n.epoch = x.epoch /\ n.readiness = x.readiness
  BY DEF Disposals
<1> QED BY <1>1, <1>2

LEMMA AppFields ==
    ASSUME NEW x \in Apps
    PROVE  /\ x.readiness \in {"checking", "ready", "blocked"} /\ x.source \in Sources \cup {None}
           /\ x.review \in BOOLEAN /\ x.cleanupPending \in BOOLEAN
           /\ x.status \in {"idle", "ready", "consentRequired", "analyzing", "succeeded", "failed", "cancelled"}
           /\ x.mutation \in {"none", "selecting", "editing", "extracting", "resetting", "consent"}
BY DEF Apps

\* What each case of the reducer leaves.
Becomes(x, status, readiness, source, mutation) ==
    /\ x \in Apps /\ x.status = status /\ x.readiness = readiness /\ x.source = source
    /\ x.mutation = mutation

LEMMA FailedIs ==
    ASSUME app \in Apps, NEW c \in BOOLEAN, NEW r \in BOOLEAN, NEW d \in BOOLEAN
    PROVE  Becomes(Failed(c, r, d), "failed", app.readiness, Unless(c, app.source), "none")
BY DEF Apps, Becomes, Failed, Unless

LEMMA EndedIs ==
    ASSUME app \in Apps, NEW c \in BOOLEAN, NEW s \in {"idle", "ready", "succeeded", "cancelled"}
    PROVE  Becomes(Ended(s, c), s, app.readiness, Unless(c, app.source), "none")
BY DEF Apps, Becomes, Ended, Unless

LEMMA StartedIs ==
    ASSUME app \in Apps, NEW k \in Kinds \cup {"extracting"}
    PROVE  Becomes(MutationStarted(k), IF app.readiness = "blocked" THEN app.status ELSE "idle",
                   app.readiness, app.source, k)
BY DEF Apps, Becomes, MutationStarted, Kinds

LEMMA SourceReadyIs ==
    ASSUME app \in Apps, NEW s \in Sources
    PROVE  Becomes(SourceReady(s), "ready", app.readiness, s, "none")
BY DEF Apps, Becomes, SourceReady

LEMMA JobUpdatedIs ==
    ASSUME app \in Apps, NEW c \in BOOLEAN
    PROVE  Becomes(JobUpdated(c), StatusOf(Unless(c, app.source)), app.readiness,
                   Unless(c, app.source), "none")
BY DEF Apps, Becomes, JobUpdated, Unless, StatusOf

LEMMA PrivacyBlockedIs ==
    ASSUME app \in Apps, NEW c \in BOOLEAN
    PROVE  Becomes(PrivacyBlocked(c), "failed", "blocked", Unless(c, app.source), "none")
BY DEF Apps, Becomes, PrivacyBlocked, Failed, Unless

LEMMA PrivacyRecoveredIs ==
    ASSUME app \in Apps
    PROVE  Becomes(PrivacyRecovered, StatusOf(app.source), "ready", app.source, "none")
BY DEF Apps, Becomes, PrivacyRecovered, Ended, Unless, StatusOf

LEMMA ResetAppIs ==
    ASSUME app \in Apps
    PROVE  Becomes(ResetApp, IF app.readiness = "blocked" THEN "failed" ELSE "idle",
                   app.readiness, None, "none")
BY DEF Apps, Becomes, ResetApp, InitialApp

LEMMA AppShows ==
    ASSUME app \in Apps, NEW s \in {"analyzing", "consentRequired"}
    PROVE  Becomes([app EXCEPT !.status = s, !.review = FALSE], s, app.readiness, app.source,
                   app.mutation)
BY DEF Apps, Becomes

LEMMA AppReady ==
    ASSUME app \in Apps
    PROVE  Becomes([app EXCEPT !.readiness = "ready"], app.status, "ready", app.source, app.mutation)
BY DEF Apps, Becomes

LEMMA DisposedAppIs ==
    ASSUME disposal \in Disposals, NEW e
    PROVE  /\ DisposedApp(e) \in Apps
           /\ DisposedApp(e).readiness = IF e # 0 THEN "blocked" ELSE disposal.readiness
           /\ DisposedApp(e).status \in {"failed", "idle"} /\ DisposedApp(e).mutation = "none"
<1> DEFINE r == IF e # 0 THEN "blocked" ELSE disposal.readiness
<1>1. r \in {"checking", "ready", "blocked"}
  BY DisposalFields
<1>2. DisposedApp(e) = [InitialApp EXCEPT !.readiness = r,
            !.status = IF r = "blocked" THEN "failed" ELSE "idle",
            !.cleanupPending = r = "blocked"]
  BY DEF DisposedApp
<1> HIDE DEF r
<1>3. /\ DisposedApp(e) \in Apps /\ DisposedApp(e).readiness = r
      /\ DisposedApp(e).status \in {"failed", "idle"} /\ DisposedApp(e).mutation = "none"
  BY <1>1, <1>2 DEF InitialApp, Apps
<1> QED BY <1>3 DEF r

LEMMA PortCallChanges ==
    ASSUME NEW c \in PortCalls
    PROVE  /\ c.kind \in {"exact", "initialize", "sweep"} /\ c.late \in BOOLEAN
           /\ c.kind = "exact" => c.pdf \in Pdfs
           /\ LET n == [c EXCEPT !.late = TRUE]
              IN  /\ n \in PortCalls /\ n.kind = c.kind /\ n.late = TRUE
                  /\ c.kind = "exact" => n.pdf = c.pdf
           /\ \A p \in Pdfs : [kind |-> "exact", pdf |-> p, late |-> FALSE] \in PortCalls
           /\ [kind |-> "initialize", late |-> FALSE] \in PortCalls
           /\ [kind |-> "sweep", late |-> FALSE] \in PortCalls
BY DEF PortCalls

-----------------------------------------------------------------------------
(* A cleanup begins, or none does                                          *)

CoordInv ==
    /\ TaskTypes /\ CopyTypes /\ SweepTypes
    /\ Leases /\ Answers /\ RegistryCalls /\ Waits /\ Ending /\ Owners /\ Privacy
    /\ Chain /\ Order /\ Fresh
    /\ Activity /\ Extraction /\ Extracting /\ Progress /\ Shown

\* A cleanup of w begins, or none does.
Cleans(w) ==
    IF w = None THEN UNCHANGED cleanup ELSE w \in Handed' /\ CleanupClaim(w)

\* What was handed over stays so, and is not claimed a second time.
HandedGrows ==
    /\ Handed \subseteq Handed' /\ Claimed' \subseteq Pdfs
    /\ \A p \in Handed : p \in Claimed' => p \in Claimed

LEMMA CoordinatorConstants ==
    /\ None \notin Pdfs /\ "text" \notin Pdfs /\ None # "text" /\ Leftover \notin Pdfs
    /\ "declined" \notin Pdfs /\ "cancelled" \notin Pdfs
    /\ None \notin Activations /\ None \notin Acts /\ None \notin Extractions
    /\ None \notin Mutations /\ None \notin Disposals /\ None \notin Ends
BY CoordinatorAssumption

LEMMA OwnedIsClaimed ==
    /\ \A p : Owned(p) <=> p \in Claimed
    /\ \A p : Owned(p)' <=> p \in Claimed'
BY DEF Owned, Claimed

LEMMA ClaimedArePdfs == CopyTypes => Claimed \subseteq Pdfs /\ None \notin Claimed
BY CoordinatorConstants DEF CopyTypes, Claimed, ToSet

LEMMA CleansKeep ==
    ASSUME CopyTypes, Answers, pick' \in [Pdfs -> Picks], NEW w \in Pdfs \cup {None}, Cleans(w), HandedGrows
    PROVE  /\ running' = (IF w = None THEN running ELSE running \cup {w})
           /\ running' \subseteq Pdfs /\ port' \in Seq(PortCalls)
           /\ Answers'
<1>1. CASE port' = port /\ running \subseteq running'
  <2>1. running' = (IF w = None THEN running ELSE running \cup {w})
    BY CoordinatorConstants DEF Cleans, CleanupClaim, cleanup
  <2>2. Answers'
    BY <1>1 DEF Answers, HandedGrows, Exact, CopyTypes
  <2> QED BY <1>1, <2>1, <2>2 DEF CopyTypes
<1>2. CASE w # None /\ w \notin running
  <2> DEFINE c == [kind |-> "exact", pdf |-> w, late |-> FALSE]
  <2>1. /\ c \in PortCalls /\ port \in Seq(PortCalls) /\ port' = Append(port, c)
        /\ running' = running \cup {w} /\ w \in Handed'
        /\ c.kind = "exact" /\ c.pdf = w /\ c.late = FALSE
    BY <1>2 DEF PortCalls, CopyTypes, Cleans, CleanupClaim
  <2> HIDE DEF c
  <2>2. /\ port' \in Seq(PortCalls) /\ DOMAIN port' = DOMAIN port \cup {Len(port) + 1}
        /\ port'[Len(port) + 1] = c
        /\ \A i \in DOMAIN port : port'[i] = port[i] /\ i # Len(port) + 1
    BY <2>1
  <2>3. ASSUME NEW i \in DOMAIN port', Exact(i)'
        PROVE  /\ port'[i].pdf \in Handed'
               /\ IF port'[i].late THEN port'[i].pdf \notin Claimed' ELSE port'[i].pdf \in running'
    <3>1. CASE i = Len(port) + 1
      BY <3>1, <2>1, <2>2
    <3>2. CASE i \in DOMAIN port
      BY <3>2, <2>1, <2>2, <2>3 DEF Answers, HandedGrows, Exact
    <3> QED BY <3>1, <3>2, <2>2
  <2>4. ASSUME NEW i \in DOMAIN port', NEW j \in DOMAIN port', Exact(i)', Exact(j)',
               ~port'[i].late, ~port'[j].late, port'[i].pdf = port'[j].pdf
        PROVE  i = j
    <3>1. CASE i \in DOMAIN port /\ j \in DOMAIN port
      BY <3>1, <2>2, <2>4 DEF Answers, Exact
    <3>2. ASSUME NEW k \in DOMAIN port, Exact(k)', ~port'[k].late PROVE port'[k].pdf # w
      BY <3>2, <2>2, <1>2 DEF Answers, Exact
    <3> QED BY <3>1, <3>2, <2>1, <2>2, <2>4
  <2> QED BY <2>1, <2>2, <2>3, <2>4, <1>2 DEF Answers, CopyTypes
<1> QED BY <1>1, <1>2 DEF Cleans, CleanupClaim, cleanup

LEMMA CleansKeepCalls ==
    ASSUME CopyTypes, RegistryCalls, NEW w \in Pdfs \cup {None}, Cleans(w), UNCHANGED <<sweeps, starting>>
    PROVE  RegistryCalls'
<1>1. CASE port' = port
  BY <1>1 DEF RegistryCalls
<1>2. CASE port' = Append(port, [kind |-> "exact", pdf |-> w, late |-> FALSE])
  <2> DEFINE c == [kind |-> "exact", pdf |-> w, late |-> FALSE]
  <2>1. c.kind = "exact" /\ port \in Seq(PortCalls) /\ (w # None => c \in PortCalls)
    BY DEF PortCalls, CopyTypes
  <2>2. CASE w = None
    BY <2>2, <1>1 DEF Cleans, cleanup
  <2>3. CASE w # None
    <3>1. /\ DOMAIN port' = DOMAIN port \cup {Len(port) + 1} /\ port' # <<>> /\ port \in Seq(PortCalls)
          /\ port'[Len(port) + 1] = c /\ \A i \in DOMAIN port : port'[i] = port[i]
          /\ port # <<>> => 1 \in DOMAIN port
      <4> HIDE DEF c
      <4> QED BY <1>2, <2>1, <2>3 DEF c
    <3>2. c.kind # "sweep"
      BY <2>1
    <3> HIDE DEF c
    <3> QED BY <3>1, <3>2 DEF RegistryCalls
  <2> QED BY <2>2, <2>3
<1> QED BY <1>1, <1>2 DEF Cleans, CleanupClaim, cleanup

\* What concerns a mutation does not change but for the better.
BusyStays(m) ==
    Busy(m)' =>
        /\ Busy(m) /\ app'.mutation = app.mutation
        /\ app.readiness \in {"ready", "blocked"} => app'.readiness = app.readiness
        /\ active' \in {active, None} /\ (vision' # None => vision # None)
        /\ committed' \in {committed, None}

LEMMA MutationKept ==
    ASSUME NEW m \in Mutations, MutationAt(m), FreshAt(m), HandedGrows, BusyStays(m),
           Commits(m) => claims' = claims /\ Busy(m)' /\ app'.readiness = "ready"
    PROVE  MutationAt(m)'
<1>0. m.next \in Sources \cup {None, "declined", "cancelled"} /\ m.claim \in Pdfs \cup {None}
  BY MutationFields
<1>1. Requested(m)'
  BY DEF MutationAt, Requested, HandedGrows
<1>2. Owned(m.claim)' => Owned(m.claim)
  BY <1>0, OwnedIsClaimed, CoordinatorConstants DEF MutationAt, Requested, HandedGrows
<1>3. m.kind = "selecting" /\ m.next \in Pdfs /\ Owned(m.next)' => Owned(m.next)
  BY OwnedIsClaimed DEF FreshAt, HandedGrows, Handed
<1>4. ASSUME m.at = "end" PROVE Concluded(m)'
  <2>1. Concluded(m)
    BY <1>4 DEF MutationAt
  <2>2. m.end # None /\ (m.end = "reset" => m.kind = "resetting" /\ ~Owned(m.claim)')
    BY <1>2, <2>1 DEF Concluded
  <2>3. ASSUME m.end = "committed"
        PROVE  /\ m.kind = "selecting" /\ m.next # None /\ m.on = None
               /\ Busy(m)' /\ app'.readiness = "ready" /\ ~Owned(m.claim)'
               /\ m.next \in Pdfs => Owned(m.next)'
    <3>1. claims' = claims /\ Busy(m)' /\ app'.readiness = "ready"
      BY <1>4, <2>3 DEF Commits
    <3> QED BY <1>2, <2>1, <2>3, <3>1 DEF Concluded, Owned
  <2>4. m.end = "dropped" /\ Busy(m)' => app'.readiness = "blocked"
    BY <2>1 DEF Concluded, BusyStays
  <2>5. m.kind = "selecting" /\ m.next \in Pdfs /\ m.end # "committed" /\ Owned(m.next)'
           => m.on = m.next
    BY <1>3, <2>1 DEF Concluded
  <2> QED BY <2>2, <2>3, <2>4, <2>5 DEF Concluded
<1>5. m.kind = "selecting" /\ m.at \notin {"queued", "end"} /\ Busy(m)' => app'.readiness = "ready"
  BY DEF MutationAt, BusyStays
<1>6. Busy(m)' =>
        /\ active' \in {m.act, None} /\ (m.at # "queued" => active' = None)
        /\ vision' # None => m.vision /\ m.at = "queued"
        /\ committed' \in {m.claim, None}
        /\ app'.mutation # "extracting"
  BY DEF MutationAt, BusyStays
<1>7. /\ m.at \in {"queued", "verify"} => m.on = None
      /\ m.used => ~Owned(m.claim)'
      /\ m.at = "previous" /\ Owned(m.claim)' => m.on = m.claim
      /\ m.at = "verify" => m.kind = "selecting" /\ m.next \in Pdfs /\ ~Owned(m.claim)'
      /\ m.kind = "resetting" /\ m.at = "others" /\ Owned(m.claim)'
            => m.claim \in ToSet(m.todo) \/ m.on = m.claim
  BY <1>2 DEF MutationAt
<1> QED
  BY <1>1, <1>4, <1>5, <1>6, <1>7 DEF MutationAt

-----------------------------------------------------------------------------
(* The mutation chain: the first mutation moves on (CleanOther, OthersDone, *)
(* PreviousDone, SourceVerified), or begins (MutationBegins)               *)

\* The head of the chain moves on, and may begin a cleanup.
MutationGoes ==
    \E n \in Mutations :
       /\ queue # <<>> /\ queue' = <<n>> \o Tail(queue)
       /\ SameMutation(n, Head(queue)) /\ Head(queue).on = None
       /\ MutationAt(n)
       /\ Cleans(n.on)
       /\ UNCHANGED <<app, gen, active, acts, vision, disposal, own, privacy, starting,
                      files, pick, requireLocalPdfReview>>

\* The queue, when its head is replaced by one that differs in its progress only.
LEMMA HeadReplaced ==
    ASSUME TaskTypes, queue # <<>>, NEW n \in Mutations, queue' = <<n>> \o Tail(queue),
           SameMutation(n, Head(queue))
    PROVE  /\ queue' \in Seq(Mutations) /\ queue' # <<>> /\ Len(queue') = Len(queue)
           /\ DOMAIN queue' = DOMAIN queue /\ 1 \in DOMAIN queue /\ DOMAIN queue \subseteq Nat
           /\ Len(queue) \in DOMAIN queue
           /\ queue'[1] = n /\ Head(queue) = queue[1]
           /\ \A i \in DOMAIN queue \ {1} : queue'[i] = queue[i]
           /\ \A i \in DOMAIN queue :
                queue[i] \in Mutations /\ queue'[i] \in Mutations /\ SameMutation(queue'[i], queue[i])
<1>0. queue \in Seq(Mutations)
  BY DEF TaskTypes
<1>1. /\ queue' \in Seq(Mutations) /\ queue' # <<>> /\ Len(queue') = Len(queue)
      /\ DOMAIN queue' = DOMAIN queue /\ 1 \in DOMAIN queue
      /\ DOMAIN queue = 1 .. Len(queue) /\ Len(queue) \in Nat
      /\ queue'[1] = n /\ Head(queue) = queue[1]
      /\ \A i \in DOMAIN queue \ {1} : queue'[i] = queue[i]
  BY <1>0, QueueChanges
<1>2. \A i \in DOMAIN queue : queue[i] \in Mutations
  BY <1>0
<1>3. \A i \in DOMAIN queue : SameMutation(queue'[i], queue[i])
  BY <1>1 DEF SameMutation
<1>4. \A i \in DOMAIN queue : queue'[i] \in Mutations
  BY <1>1, <1>2
<1> QED BY <1>1, <1>2, <1>3, <1>4

LEMMA MutationGoesKeeps == ASSUME CoordInv, MutationGoes PROVE CoordInv'
<1>1. PICK n \in Mutations :
        /\ queue # <<>> /\ queue' = <<n>> \o Tail(queue)
        /\ SameMutation(n, Head(queue)) /\ Head(queue).on = None
        /\ MutationAt(n)
        /\ Cleans(n.on)
        /\ UNCHANGED <<app, gen, active, acts, vision, disposal, own, privacy, starting,
                       files, pick, requireLocalPdfReview>>
  BY DEF MutationGoes
<1>2. /\ UNCHANGED <<app, gen, active, acts, vision, disposal>>
      /\ UNCHANGED <<claims, committed, owed, epochs, fence, sweeps, recoveries, starting>>
      /\ UNCHANGED <<disk, leased, pick, requireLocalPdfReview>>
  BY <1>1 DEF own, privacy, files
<1>3. /\ queue' \in Seq(Mutations) /\ queue' # <<>> /\ Len(queue') = Len(queue)
      /\ DOMAIN queue' = DOMAIN queue /\ 1 \in DOMAIN queue /\ DOMAIN queue \subseteq Nat
      /\ Len(queue) \in DOMAIN queue
      /\ queue'[1] = n /\ Head(queue) = queue[1]
      /\ \A i \in DOMAIN queue \ {1} : queue'[i] = queue[i]
      /\ \A i \in DOMAIN queue :
            queue[i] \in Mutations /\ queue'[i] \in Mutations /\ SameMutation(queue'[i], queue[i])
  BY <1>1, HeadReplaced DEF CoordInv
<1>4. Handed' = Handed /\ Claimed' = Claimed /\ n.on \in Pdfs \cup {None}
  BY <1>2, MutationFields DEF Handed, Claimed
<1>5. /\ running' = (IF n.on = None THEN running ELSE running \cup {n.on})
      /\ running' \subseteq Pdfs /\ port' \in Seq(PortCalls) /\ Answers'
      /\ RegistryCalls'
  BY <1>1, <1>2, <1>4, CleansKeep, CleansKeepCalls, ClaimedArePdfs DEF CoordInv, HandedGrows, CopyTypes
<1>6. TaskTypes' /\ CopyTypes' /\ SweepTypes' /\ Leases'
  BY <1>2, <1>3, <1>5, <1>4 DEF CoordInv, TaskTypes, CopyTypes, SweepTypes, Leases, Mounted, Staged
<1>7. Waits'
  <2>1. ASSUME NEW p \in running' PROVE Waiter(p)'
    <3>1. CASE p = n.on
      BY <3>1, <1>3 DEF Waiter
    <3>2. CASE p \in running
      <4>1. Waiter(p) /\ p # None
        BY <3>2, <1>2, CoordinatorConstants DEF CoordInv, Waits, CopyTypes
      <4>2. ASSUME NEW i \in DOMAIN queue, queue[i].on = p
            PROVE  queue'[i].on = p
        BY <4>1, <4>2, <1>1, <1>3
      <4> QED BY <4>1, <4>2, <1>2, <1>3 DEF Waiter
    <3> QED BY <3>1, <3>2, <1>5
  <2> QED BY <2>1 DEF Waits
<1>8. Ending' /\ Privacy'
  BY <1>1, <1>2, <1>3, <1>4, <1>5 DEF CoordInv, Ending, Privacy, Mounted, Staged
<1>9. Owners'
  <2>1. \A p : ToCommit(p) => ToCommit(p)'
    BY <1>3 DEF ToCommit, SameMutation
  <2> QED BY <2>1, <1>2, <1>4, <1>5 DEF CoordInv, Owners
<1>10. Chain' /\ Order' /\ Fresh'
  <2>1. \A i \in DOMAIN queue : MutationAt(queue[i]) /\ FreshAt(queue[i])
    BY DEF CoordInv, Chain, Fresh
  <2>2. ASSUME NEW m, MutationAt(m) PROVE MutationAt(m)'
    BY <2>2, <1>2, <1>4 DEF MutationAt, Requested, Concluded, Owned, Busy, Mounted
  <2>3. Chain'
    BY <2>1, <2>2, <1>1, <1>3 DEF Chain
  <2>4. \A i \in DOMAIN queue : FreshAt(queue[i])'
    BY <2>1, <1>2, <1>3 DEF FreshAt, SameMutation
  <2>5. Order'
    BY <1>2, <1>3 DEF CoordInv, Order, SameMutation
  <2> QED BY <2>3, <2>4, <2>5, <1>3 DEF Fresh
<1>11. Activity'
  <2>1. ASSUME NEW a \in Activations, acts[a] # None, ActAt(a) PROVE ActAt(a)'
    <3>1. IsCurrent(a)' <=> IsCurrent(a)
      BY <1>2 DEF IsCurrent, Mounted
    <3>2. ASSUME IsCurrent(a), acts[a].at # "terminal", acts[a].claim # None
          PROVE  FALSE
      BY <3>2, <2>1, <1>1 DEF ActAt, IsCurrent, CoordInv, Shown
    <3> QED
      BY <2>1, <3>1, <3>2, <1>2, <1>4 DEF ActAt, Owned, ReviewFirst, Mounted
  <2> QED BY <2>1, <1>2 DEF CoordInv, Activity
<1>12. Extraction'
  BY <1>2, <1>4 DEF CoordInv, Extraction, Owned
<1>13. Extracting'
  BY <1>2, <1>3 DEF CoordInv, Extracting, SameMutation, Mounted
<1>14. Progress'
  BY <1>2, <1>3 DEF CoordInv, Progress, SameMutation, Mounted, IsCurrent, ReviewFirst
<1>15. Shown'
  BY <1>1, <1>2 DEF CoordInv, Shown, Mounted
<1> QED
  BY <1>5, <1>6, <1>7, <1>8, <1>9, <1>10, <1>11, <1>12, <1>13, <1>14, <1>15 DEF CoordInv

BesidesHead == UNCHANGED <<app, gen, active, acts, vision, disposal, own, privacy, starting,
                           files, pick, requireLocalPdfReview>>

\* The head of the chain is at work, x being what it has become.
AtWork(x) ==
    /\ queue # <<>> /\ x \in Mutations /\ SameMutation(x, Head(queue)) /\ Head(queue).on = None
    /\ x.on = None
    /\ Requested(x) /\ (x.used => ~Owned(x.claim))
    /\ FreshAt(x)
    /\ Busy(x) => active = None /\ vision = None /\ committed \in {x.claim, None}
                  /\ app.mutation # "extracting"

LEMMA HeadFacts ==
    ASSUME CoordInv, queue # <<>>
    PROVE  LET m == Head(queue)
           IN  m \in Mutations /\ MutationAt(m) /\ FreshAt(m) /\ SameMutation(m, m) /\ m = queue[1]
               /\ 1 \in DOMAIN queue
<1>1. queue \in Seq(Mutations)
  BY DEF CoordInv, TaskTypes
<1>2. Head(queue) = queue[1] /\ 1 \in DOMAIN queue /\ queue[1] \in Mutations
  BY <1>1
<1> QED
  BY <1>2 DEF CoordInv, Chain, Fresh, SameMutation

LEMMA AimGoes ==
    ASSUME CoordInv, BesidesHead, NEW x, AtWork(x), NEW end \in Ends, Aim(x, end),
           end = "reset" => x.kind = "resetting" /\ ~Owned(x.claim),
           end = "committed" =>
              /\ x.kind = "selecting" /\ x.next # None /\ Busy(x) /\ app.readiness = "ready"
              /\ ~Owned(x.claim) /\ (x.next \in Pdfs => Owned(x.next)),
           end = "dropped" /\ Busy(x) => app.readiness = "blocked"
    PROVE  MutationGoes
<1>0. x \in Mutations /\ end # None /\ "end" \in Places
  BY CoordinatorConstants DEF AtWork, Places
<1>1. CASE x.kind = "selecting" /\ x.next \in Pdfs /\ end # "committed"
  <2> DEFINE y == [x EXCEPT !.end = end]
             n == [y EXCEPT !.at = "end", !.on = x.next]
  <2>1. /\ y \in Mutations /\ SameMutation(y, x) /\ y.todo = x.todo /\ y.used = x.used /\ y.end = end
        /\ y.next = x.next
    BY <1>0, MutationEndSet DEF SameMutation
  <2>2. queue' = <<n>> \o Tail(queue) /\ CleanupClaim(x.next)
    BY <1>1, <2>1 DEF Aim, Cleaning, Put
  <2> HIDE DEF y
  <2>3. /\ n \in Mutations /\ SameMutation(n, y) /\ n.at = "end" /\ n.on = x.next
        /\ n.todo = y.todo /\ n.used = y.used /\ n.end = y.end
    BY <1>0, <1>1, <2>1 DEF Mutations, SameMutation
  <2> HIDE DEF n
  <2>4. SameMutation(n, x) /\ n.todo = x.todo /\ n.used = x.used /\ n.end = end
    BY <2>1, <2>3 DEF SameMutation
  <2>5. Concluded(n)
    BY <2>3, <2>4, <1>0, <1>1 DEF Concluded, SameMutation, Busy
  <2>6. Requested(n)
    BY <2>4 DEF Requested, SameMutation, AtWork
  <2>7. MutationAt(n)
    BY <2>3, <2>4, <2>5, <2>6 DEF MutationAt, AtWork, SameMutation, Busy
  <2>8. Cleans(n.on)
    BY <1>1, <2>2, <2>3, CoordinatorConstants DEF AtWork, FreshAt, Cleans, Handed, BesidesHead
  <2>9. SameMutation(n, Head(queue)) /\ Head(queue).on = None /\ queue # <<>>
    BY <2>4 DEF AtWork, SameMutation
  <2> QED BY <2>2, <2>3, <2>7, <2>8, <2>9 DEF MutationGoes, BesidesHead
<1>2. CASE ~(x.kind = "selecting" /\ x.next \in Pdfs /\ end # "committed")
  <2> DEFINE n == [x EXCEPT !.at = "end", !.end = end]
  <2>2. queue' = <<n>> \o Tail(queue) /\ UNCHANGED cleanup
    BY <1>2 DEF Aim, Put
  <2>3. /\ n \in Mutations /\ SameMutation(n, x) /\ n.at = "end" /\ n.on = None
        /\ n.todo = x.todo /\ n.used = x.used /\ n.end = end
    BY <1>0 DEF AtWork, Mutations, SameMutation
  <2> HIDE DEF n
  <2>5. Concluded(n)
    BY <2>3, <1>0, <1>2 DEF Concluded, SameMutation, Busy
  <2>6. Requested(n)
    BY <2>3 DEF Requested, SameMutation, AtWork
  <2>7. MutationAt(n)
    BY <2>3, <2>5, <2>6 DEF MutationAt, AtWork, SameMutation, Busy
  <2>8. Cleans(n.on)
    BY <2>2, <2>3 DEF Cleans
  <2>9. SameMutation(n, Head(queue)) /\ Head(queue).on = None /\ queue # <<>>
    BY <2>3 DEF AtWork, SameMutation
  <2> QED BY <2>2, <2>3, <2>7, <2>8, <2>9 DEF MutationGoes, BesidesHead
<1> QED BY <1>1, <1>2

\* It deletes a copy, at its place at.
LEMMA CleaningGoes ==
    ASSUME CoordInv, BesidesHead, NEW x, AtWork(x), NEW p \in Handed, NEW at_ \in {"others", "previous"},
           Cleaning(x, at_, p),
           at_ = "previous" /\ Owned(x.claim) => p = x.claim,
           at_ = "others" /\ x.kind = "resetting" /\ Owned(x.claim) => x.claim \in ToSet(x.todo) \/ p = x.claim,
           x.kind = "selecting" /\ Busy(x) => app.readiness = "ready"
    PROVE  MutationGoes
<1>0. x \in Mutations /\ at_ \in Places /\ p \in Pdfs /\ p # None
  BY CoordinatorConstants DEF AtWork, Places, Handed
<1> DEFINE n == [x EXCEPT !.at = at_, !.on = p]
<1>1. queue' = <<n>> \o Tail(queue) /\ CleanupClaim(p)
  BY DEF Cleaning, Put
<1>2. /\ n \in Mutations /\ SameMutation(n, x) /\ n.at = at_ /\ n.on = p
      /\ n.todo = x.todo /\ n.used = x.used
  BY <1>0 DEF Mutations, SameMutation
<1> HIDE DEF n
<1>3. Requested(n)
  BY <1>2 DEF Requested, SameMutation, AtWork
<1>4. MutationAt(n)
  BY <1>2, <1>3 DEF MutationAt, AtWork, SameMutation, Busy
<1>5. Cleans(n.on)
  BY <1>0, <1>1, <1>2 DEF Cleans, Handed, BesidesHead
<1>6. SameMutation(n, Head(queue)) /\ Head(queue).on = None /\ queue # <<>>
  BY <1>2 DEF AtWork, SameMutation
<1> QED BY <1>1, <1>2, <1>4, <1>5, <1>6 DEF MutationGoes, BesidesHead

\* The prior source is dealt with.
LEMMA UsedGoes ==
    ASSUME CoordInv, BesidesHead, NEW x, AtWork(x), Used(x),
           x.kind # "consent" => Busy(x),
           x.kind = "selecting" => app.readiness = "ready" /\ ~Owned(x.claim),
           x.kind = "resetting" => ~Owned(x.claim)
    PROVE  MutationGoes
<1>0. x \in Mutations /\ x.kind \in Kinds
      /\ x.next \in Sources \cup {None, "declined", "cancelled"}
  BY MutationFields DEF AtWork
<1>1. CASE x.kind = "editing"
  <2>1. Aim(x, "updated") \/ Aim(x, "invalid")
    BY <1>1 DEF Used
  <2>2. "updated" \in Ends /\ "invalid" \in Ends
    BY DEF Ends
  <2> QED BY <2>1, <2>2, AimGoes
<1>2. CASE x.kind = "consent"
  <2>1. Aim(x, x.next) /\ x.next \in {"declined", "cancelled"}
    BY <1>2 DEF Used, AtWork, Requested
  <2>2. x.next \in Ends
    BY <2>1 DEF Ends
  <2> QED BY <2>1, <2>2, AimGoes
<1>3. CASE x.kind = "resetting"
  <2>1. Aim(x, "reset")
    BY <1>3 DEF Used
  <2>2. "reset" \in Ends
    BY DEF Ends
  <2> QED BY <1>3, <2>1, <2>2, AimGoes
<1>4. CASE x.kind = "selecting"
  <2>0. Chosen(x)
    BY <1>4 DEF Used
  <2>1. CASE x.next = None
    <3>1. Aim(x, "invalid")
      BY <2>0, <2>1, CoordinatorConstants DEF Chosen
    <3>2. "invalid" \in Ends
      BY DEF Ends
    <3> QED BY <3>1, <3>2, AimGoes
  <2>2. CASE x.next # None /\ x.next \in Pdfs
    <3> DEFINE n == [x EXCEPT !.at = "verify"]
    <3>1. queue' = <<n>> \o Tail(queue) /\ UNCHANGED cleanup
      BY <2>0, <2>2 DEF Chosen, Put
    <3>2. /\ n \in Mutations /\ SameMutation(n, x) /\ n.at = "verify" /\ n.on = None
          /\ n.todo = x.todo /\ n.used = x.used
      BY <1>0, MutationMoves DEF AtWork, Places
    <3> HIDE DEF n
    <3>3. Requested(n)
      BY <3>2 DEF Requested, SameMutation, AtWork
    <3>4. MutationAt(n)
      BY <3>2, <3>3, <1>4, <2>2 DEF MutationAt, AtWork, SameMutation, Busy
    <3>5. Cleans(n.on)
      BY <3>1, <3>2 DEF Cleans
    <3>6. SameMutation(n, Head(queue)) /\ Head(queue).on = None /\ queue # <<>>
      BY <3>2 DEF AtWork, SameMutation
    <3> QED BY <3>1, <3>2, <3>4, <3>5, <3>6 DEF MutationGoes, BesidesHead
  <2>3. CASE x.next # None /\ x.next \notin Pdfs
    <3>1. Aim(x, "committed")
      BY <2>0, <2>3 DEF Chosen
    <3>2. "committed" \in Ends
      BY DEF Ends
    <3> QED BY <1>4, <2>3, <3>1, <3>2, AimGoes
  <2> QED BY <2>1, <2>2, <2>3
<1> QED BY <1>0, <1>1, <1>2, <1>3, <1>4 DEF Kinds

LEMMA NextOtherIs ==
    ASSUME NEW m \in Mutations
    PROVE  /\ NextOther(m) \in 0 .. Len(m.todo)
           /\ m.kind = "resetting" => NextOther(m) = IF m.todo = <<>> THEN 0 ELSE 1
<1>0. m.todo \in Seq(Pdfs) /\ Len(m.todo) \in Nat
  BY MutationFields
<1> DEFINE I == {i \in 1 .. Len(m.todo) : m.kind = "resetting"
                        \/ ~(Owned(m.todo[i]) /\ m.todo[i] \in {committed, m.next})}
<1>1. NextOther(m) = IF I # {} THEN Min(I) ELSE 0
  BY DEF NextOther, SelectInSeq
<1>2. I # {} => Min(I) \in I /\ \A j \in I : Min(I) =< j
  <2>1. I \in SUBSET (1 .. Len(m.todo))
    OBVIOUS
  <2> HIDE DEF I
  <2> QED BY <1>0, <2>1, Extremes DEF Min
<1>3. NextOther(m) \in 0 .. Len(m.todo)
  <2>1. I \subseteq 1 .. Len(m.todo)
    OBVIOUS
  <2> HIDE DEF I
  <2>2. CASE I = {}
    <3>1. NextOther(m) = 0
      BY <2>2, <1>1
    <3> QED BY <3>1, <1>0
  <2>3. CASE I # {}
    <3>1. NextOther(m) \in 1 .. Len(m.todo)
      BY <2>1, <2>3, <1>1, <1>2
    <3> QED BY <3>1, <1>0
  <2> QED BY <2>2, <2>3
<1>4. ASSUME m.kind = "resetting" PROVE NextOther(m) = IF m.todo = <<>> THEN 0 ELSE 1
  <2>1. I = 1 .. Len(m.todo)
    BY <1>4
  <2>2. m.todo = <<>> <=> Len(m.todo) = 0
    BY <1>0, EmptySeq
  <2> HIDE DEF I
  <2>3. CASE I = {}
    <3>1. NextOther(m) = 0
      BY <2>3, <1>1
    <3>2. Len(m.todo) = 0
      BY <2>1, <2>3, <1>0
    <3> QED BY <3>1, <3>2, <2>2
  <2>4. CASE I # {}
    <3>1. NextOther(m) = Min(I) /\ Min(I) \in I /\ \A j \in I : Min(I) =< j
      BY <2>4, <1>1, <1>2
    <3>2. 1 \in I /\ Len(m.todo) # 0
      BY <2>1, <2>4, <1>0
    <3>3. Min(I) = 1
      BY <3>1, <3>2, <2>1, <1>0
    <3> QED BY <3>1, <3>2, <3>3, <2>2
  <2> QED BY <2>3, <2>4
<1> QED BY <1>3, <1>4

LEMMA WorkBegins ==
    ASSUME CoordInv, queue # <<>>, Head(queue).on = None,
           Head(queue).at = "queued" => MayBegin(Head(queue))
    PROVE  AtWork(Head(queue))
<1> DEFINE m == Head(queue)
<1>1. m \in Mutations /\ MutationAt(m) /\ FreshAt(m) /\ SameMutation(m, m)
  BY HeadFacts
<1>2. m.act \in Activations \cup {None}
  BY <1>1, MutationFields
<1> HIDE DEF m
<1>3. ASSUME Busy(m), m.at = "queued" => MayBegin(m)
      PROVE  active = None /\ vision = None /\ committed \in {m.claim, None}
             /\ app.mutation # "extracting"
  <2>1. MutationAt(m) /\ (active # None => acts[active] # None)
    BY <1>1 DEF CoordInv, Activity
  <2> QED BY <1>3, <2>1 DEF MutationAt, MayBegin
<1> QED
  BY <1>1, <1>3 DEF AtWork, MutationAt, m

LEMMA MutationBeginsGoes ==
    ASSUME CoordInv, BesidesHead, queue # <<>>, MutationBegins(Head(queue))
    PROVE  MutationGoes
<1> DEFINE m == Head(queue)
<1>0. m \in Mutations /\ MutationAt(m) /\ MayBegin(m) /\ m.at = "queued" /\ m.on = None
  BY HeadFacts DEF MutationBegins, MayBegin, MutationAt
<1>1. AtWork(m)
  BY <1>0, WorkBegins
<1> HIDE DEF m
<1>2. CASE m.kind \in {"selecting", "editing"} /\ ~(IsCurrentMutation(m) /\ app.readiness = "ready")
  <2>1. Aim(m, "dropped")
    BY <1>2 DEF MutationBegins, m
  <2>2. "dropped" \in Ends
    BY DEF Ends
  <2>3. Busy(m) => app.readiness # "ready"
    BY <1>2 DEF Busy, IsCurrentMutation
  <2>4. ~starting
    BY <1>0, <1>2 DEF MayBegin
  <2>5. Busy(m) => app.readiness = "blocked"
    <3>1. app.readiness \in {"checking", "ready", "blocked"}
      BY AppFields DEF CoordInv, TaskTypes
    <3> QED BY <2>3, <2>4, <3>1 DEF CoordInv, Privacy, Busy
  <2> QED BY <1>1, <2>1, <2>2, <2>5, AimGoes
<1>3. CASE ~(m.kind \in {"selecting", "editing"} /\ ~(IsCurrentMutation(m) /\ app.readiness = "ready"))
  <2> DEFINE n == [m EXCEPT !.at = "others", !.todo = claims]
  <2>1. queue' = <<n>> \o Tail(queue) /\ UNCHANGED cleanup
    BY <1>3 DEF MutationBegins, Put, m
  <2>2. claims \in Seq(Pdfs) /\ "others" \in Places
    BY DEF CoordInv, CopyTypes, Places
  <2>3. n \in Mutations /\ SameMutation(n, m) /\ n.at = "others" /\ n.on = None
        /\ n.todo = claims /\ n.used = m.used
    BY <1>0, <2>2 DEF Mutations, SameMutation
  <2> HIDE DEF n
  <2>4. Requested(n)
    BY <1>1, <2>3 DEF AtWork, Requested, SameMutation, CoordInv, Leases, Claimed
  <2>5. Busy(n) /\ n.kind = "selecting" => app.readiness = "ready"
    BY <1>3, <2>3 DEF Busy, IsCurrentMutation, SameMutation
  <2>6. Busy(n) => Busy(m)
    BY <2>3 DEF Busy, SameMutation
  <2>7. MutationAt(n)
    BY <1>1, <2>3, <2>4, <2>5, <2>6 DEF MutationAt, AtWork, SameMutation, Owned
  <2>8. Cleans(n.on)
    BY <2>1, <2>3 DEF Cleans
  <2>9. SameMutation(n, Head(queue)) /\ Head(queue).on = None
    BY <1>0, <2>3 DEF m
  <2> QED BY <2>1, <2>3, <2>7, <2>8, <2>9 DEF MutationGoes, BesidesHead
<1> QED BY <1>2, <1>3

LEMMA CleanOtherGoes ==
    ASSUME CoordInv, BesidesHead, queue # <<>>, CleanOther(Head(queue))
    PROVE  MutationGoes
<1> DEFINE m == Head(queue)
           i == NextOther(m)
           x == [m EXCEPT !.todo = SubSeq(@, i + 1, Len(@))]
<1>0. m \in Mutations /\ MutationAt(m) /\ m.at = "others" /\ m.on = None /\ i # 0
  BY HeadFacts DEF CleanOther
<1>1. AtWork(m) /\ Cleaning(x, "others", m.todo[i])
  BY <1>0, WorkBegins DEF CleanOther
<1>2. i \in 0 .. Len(m.todo) /\ (m.kind = "resetting" => i = IF m.todo = <<>> THEN 0 ELSE 1)
  BY <1>0, NextOtherIs
<1>3. m.todo \in Seq(Pdfs) /\ Len(m.todo) \in Nat
  BY <1>0, MutationFields
<1> DEFINE rest == SubSeq(m.todo, i + 1, Len(m.todo))
<1> HIDE DEF i
<1>4. m.todo[i] \in Handed /\ i \in 1 .. Len(m.todo)
  <2>1. i \in DOMAIN m.todo /\ i \in 1 .. Len(m.todo)
    BY <1>0, <1>2, <1>3
  <2>2. ToSet(m.todo) \subseteq Handed
    BY <1>1 DEF AtWork, Requested
  <2> QED BY <2>1, <2>2 DEF ToSet
<1>5. /\ rest \in Seq(Pdfs) /\ \A k \in DOMAIN rest : i + k \in DOMAIN m.todo /\ rest[k] = m.todo[i + k]
      /\ \A k \in DOMAIN m.todo : k > i => k - i \in DOMAIN rest /\ rest[k - i] = m.todo[k]
  <2>1. i + 1 \in Int /\ Len(m.todo) \in Int /\ \A k \in i + 1 .. Len(m.todo) : m.todo[k] \in Pdfs
    BY <1>3, <1>4
  <2>2. /\ rest \in Seq(Pdfs)
        /\ Len(rest) = IF i + 1 <= Len(m.todo) THEN Len(m.todo) - (i + 1) + 1 ELSE 0
        /\ \A k \in 1 .. Len(m.todo) - (i + 1) + 1 : rest[k] = m.todo[(i + 1) + k - 1]
    BY <2>1, SubSeqProperties
  <2> HIDE DEF rest
  <2>3. Len(rest) = Len(m.todo) - i
    <3>1. CASE i + 1 <= Len(m.todo)
      BY <3>1, <2>2, <1>3, <1>4
    <3>2. CASE ~(i + 1 <= Len(m.todo))
      BY <3>2, <2>2, <1>3, <1>4
    <3> QED BY <3>1, <3>2
  <2>4. DOMAIN rest = 1 .. Len(m.todo) - i /\ DOMAIN m.todo = 1 .. Len(m.todo)
    BY <2>2, <2>3, <1>3
  <2>5. \A k \in 1 .. Len(m.todo) - i : (i + 1) + k - 1 = i + k /\ Len(m.todo) - (i + 1) + 1 = Len(m.todo) - i
    BY <1>3, <1>4
  <2>6. \A k \in 1 .. Len(m.todo) - i : i + k \in 1 .. Len(m.todo) /\ rest[k] = m.todo[i + k]
    BY <2>2, <2>5, <1>3, <1>4
  <2>7. ASSUME NEW k \in 1 .. Len(m.todo), k > i
        PROVE  k - i \in 1 .. Len(m.todo) - i /\ i + (k - i) = k
    BY <2>7, <1>3, <1>4
  <2> QED BY <2>2, <2>4, <2>6, <2>7
<1> HIDE DEF rest
<1>6. x \in Mutations /\ SameMutation(x, m) /\ x.todo = rest /\ x.on = None /\ x.used = m.used
  <2>1. x = [m EXCEPT !.todo = rest]
    BY <1>0, <1>3 DEF rest, Mutations
  <2> HIDE DEF x
  <2> QED BY <1>0, <1>5, <2>1 DEF Mutations, SameMutation
<1> HIDE DEF x, m
<1>7. ToSet(rest) \subseteq ToSet(m.todo)
  BY <1>5 DEF ToSet
<1>8. AtWork(x)
  BY <1>1, <1>6, <1>7 DEF AtWork, SameMutation, Requested, FreshAt, Busy
<1>9. ASSUME x.kind = "resetting", Owned(x.claim) PROVE x.claim \in ToSet(x.todo) \/ m.todo[i] = x.claim
  <2>1. m.claim \in ToSet(m.todo) \/ m.on = m.claim
    BY <1>0, <1>6, <1>9 DEF MutationAt, SameMutation
  <2>2. m.claim # None
    BY <1>6, <1>9, OwnedIsClaimed, ClaimedArePdfs DEF CoordInv, SameMutation
  <2>3. PICK k \in DOMAIN m.todo : m.todo[k] = m.claim
    BY <1>0, <2>1, <2>2 DEF ToSet
  <2>4. i = 1 /\ DOMAIN m.todo = 1 .. Len(m.todo)
    BY <1>0, <1>2, <1>3, <1>6, <1>9 DEF SameMutation
  <2>5. CASE k = 1
    BY <2>3, <2>4, <2>5, <1>6 DEF SameMutation
  <2>6. CASE k > i
    BY <2>3, <2>6, <1>5, <1>6 DEF SameMutation, ToSet
  <2> QED BY <2>4, <2>5, <2>6, <1>3
<1>10. x.kind = "selecting" /\ Busy(x) => app.readiness = "ready"
  BY <1>0, <1>6 DEF MutationAt, SameMutation, Busy
<1> QED
  BY <1>1, <1>4, <1>8, <1>9, <1>10, CleaningGoes

\* A copy is used up, and the mutation knows.
LEMMA UsedUp ==
    ASSUME NEW m, AtWork(m), ~Owned(m.claim)
    PROVE  LET x == [m EXCEPT !.used = TRUE]
           IN  AtWork(x) /\ x.kind = m.kind /\ x.next = m.next /\ x.claim = m.claim /\ (Busy(x) <=> Busy(m))
<1> DEFINE x == [m EXCEPT !.used = TRUE]
<1>0. m \in Mutations
  BY DEF AtWork
<1>1. x \in Mutations /\ SameMutation(x, m) /\ x.todo = m.todo /\ x.on = m.on
  BY <1>0 DEF Mutations, SameMutation
<1> HIDE DEF x
<1>2. AtWork(x)
  BY <1>1 DEF AtWork, SameMutation, Requested, FreshAt, Busy
<1> QED BY <1>1, <1>2 DEF x, SameMutation, Busy

LEMMA OthersDoneGoes ==
    ASSUME CoordInv, BesidesHead, queue # <<>>, OthersDone(Head(queue))
    PROVE  MutationGoes
<1> DEFINE m == Head(queue)
<1>0. m \in Mutations /\ MutationAt(m) /\ m.at = "others" /\ m.on = None /\ NextOther(m) = 0
  BY HeadFacts DEF OthersDone
<1>1. AtWork(m)
  BY <1>0, WorkBegins
<1>2. m.source \in Sources \cup {None} /\ m.claim \in Pdfs \cup {None} /\ m.kind \in Kinds
  BY <1>0, MutationFields
<1>3. ("dropped" \in Ends) /\ ("privacy" \in Ends)
  BY DEF Ends
<1>4. IsCurrentMutation(m) <=> Busy(m)
  BY DEF IsCurrentMutation, Busy
<1>5. m.kind = "resetting" => ~Owned(m.claim)
  <2>1. ASSUME m.kind = "resetting" PROVE ToSet(m.todo) = {}
    <3>1. m.todo = <<>>
      BY <1>0, <2>1, NextOtherIs
    <3> QED BY <3>1 DEF ToSet
  <2>2. Owned(m.claim) => m.claim # None
    BY OwnedIsClaimed, ClaimedArePdfs DEF CoordInv
  <2> QED BY <1>0, <2>1, <2>2 DEF MutationAt
<1>6. Busy(m) /\ m.kind = "selecting" => app.readiness = "ready"
  BY <1>0 DEF MutationAt
<1>7. /\ m.claim # None => m.source = m.claim /\ m.claim \in Handed
      /\ None \notin Pdfs /\ ~Owned(None)
  BY <1>1, OwnedIsClaimed, ClaimedArePdfs, CoordinatorConstants DEF AtWork, Requested, CoordInv
<1>8. CASE ~IsCurrentMutation(m) /\ m.kind # "consent"
  <2>1. Aim(m, "dropped")
    BY <1>8 DEF OthersDone
  <2> QED BY <1>1, <1>3, <1>4, <1>8, <2>1, AimGoes
<1>9. CASE ~(~IsCurrentMutation(m) /\ m.kind # "consent") /\ ~m.clean
  <2>1. Aim(m, "privacy")
    BY <1>9 DEF OthersDone
  <2> QED BY <1>1, <1>3, <2>1, AimGoes
<1> DEFINE Goes == ~(~IsCurrentMutation(m) /\ m.kind # "consent") /\ m.clean
<1>10. CASE Goes /\ MustConsume(m) /\ m.claim # None /\ Cleaning(m, "previous", m.claim)
  BY <1>1, <1>4, <1>6, <1>7, <1>10, CleaningGoes
<1>11. CASE Goes /\ MustConsume(m) /\ Owned(m.claim)
  <2>1. Cleaning(m, "previous", m.claim) /\ m.claim # None
    BY <1>11, <1>7 DEF OthersDone
  <2> QED BY <1>10, <1>11, <2>1
<1>12. CASE Goes /\ MustConsume(m) /\ ~Owned(m.claim)
  <2>1. CASE m.kind # "selecting"
    <3> DEFINE x == [m EXCEPT !.used = TRUE]
    <3>1. Used(x)
      BY <1>12, <2>1 DEF OthersDone
    <3>2. AtWork(x) /\ x.kind = m.kind /\ x.claim = m.claim /\ (Busy(x) <=> Busy(m))
      BY <1>1, <1>12, UsedUp
    <3>3. m.kind # "resetting"
      BY <1>12 DEF MustConsume
    <3> HIDE DEF x
    <3> QED BY <3>1, <3>2, <3>3, <1>4, <1>12, <2>1, UsedGoes
  <2>2. CASE m.kind = "selecting" /\ m.claim = None
    <3>1. Aim(m, "privacy")
      BY <1>12, <2>2 DEF OthersDone
    <3> QED BY <1>1, <1>3, <3>1, AimGoes
  <2>3. CASE m.kind = "selecting" /\ m.claim # None
    <3>1. Cleaning(m, "previous", m.claim)
      BY <1>12, <2>3 DEF OthersDone
    <3> QED BY <3>1, <2>3, <1>10, <1>12
  <2> QED BY <2>1, <2>2, <2>3
<1>13. CASE Goes /\ ~MustConsume(m)
  <2>1. Used(m)
    BY <1>13 DEF OthersDone
  <2>2. m.kind = "selecting" => ~Owned(m.claim)
    BY <1>2, <1>7, <1>13 DEF MustConsume
  <2> QED BY <2>1, <2>2, <1>1, <1>4, <1>5, <1>6, <1>13, UsedGoes
<1> QED BY <1>8, <1>9, <1>11, <1>12, <1>13

LEMMA PreviousDoneGoes ==
    ASSUME CoordInv, BesidesHead, queue # <<>>, PreviousDone(Head(queue))
    PROVE  MutationGoes
<1> DEFINE m == Head(queue)
<1>0. m \in Mutations /\ MutationAt(m) /\ m.at = "previous" /\ m.on = None
  BY HeadFacts DEF PreviousDone
<1>1. AtWork(m)
  BY <1>0, WorkBegins
<1>3. ("dropped" \in Ends) /\ ("privacy" \in Ends)
  BY DEF Ends
<1>4. IsCurrentMutation(m) <=> Busy(m)
  BY DEF IsCurrentMutation, Busy
<1>5. ~Owned(m.claim)
  BY <1>0, OwnedIsClaimed, ClaimedArePdfs DEF MutationAt, CoordInv
<1>6. Busy(m) /\ m.kind = "selecting" => app.readiness = "ready"
  BY <1>0 DEF MutationAt
<1>7. CASE ~IsCurrentMutation(m)
  <2>1. Aim(m, "dropped")
    BY <1>7 DEF PreviousDone
  <2> QED BY <1>1, <1>3, <1>4, <1>7, <2>1, AimGoes
<1>8. CASE IsCurrentMutation(m) /\ ~m.clean
  <2>1. Aim(m, "privacy")
    BY <1>8 DEF PreviousDone
  <2> QED BY <1>1, <1>3, <2>1, AimGoes
<1>9. CASE IsCurrentMutation(m) /\ m.clean
  <2> DEFINE x == [m EXCEPT !.used = TRUE]
  <2>1. Used(x)
    BY <1>9 DEF PreviousDone
  <2>2. AtWork(x) /\ x.kind = m.kind /\ x.claim = m.claim /\ (Busy(x) <=> Busy(m))
    BY <1>1, <1>5, UsedUp
  <2> HIDE DEF x
  <2> QED BY <2>1, <2>2, <1>4, <1>5, <1>6, <1>9, UsedGoes
<1> QED BY <1>7, <1>8, <1>9

LEMMA VerifiedGoes ==
    ASSUME CoordInv, BesidesHead, queue # <<>>, NEW ok \in BOOLEAN, SourceVerified(Head(queue), ok)
    PROVE  MutationGoes
<1> DEFINE m == Head(queue)
<1>0. m \in Mutations /\ MutationAt(m) /\ m.at = "verify" /\ m.on = None
  BY HeadFacts DEF SourceVerified, MutationAt
<1>1. AtWork(m)
  BY <1>0, WorkBegins
<1>3. ("dropped" \in Ends) /\ ("invalid" \in Ends) /\ ("committed" \in Ends)
  BY DEF Ends
<1>4. IsCurrentMutation(m) <=> Busy(m)
  BY DEF IsCurrentMutation, Busy
<1>5. m.kind = "selecting" /\ m.next \in Pdfs /\ m.next # None /\ ~Owned(m.claim)
  BY <1>0, CoordinatorConstants DEF MutationAt
<1>6. Busy(m) => app.readiness = "ready"
  BY <1>0, <1>5 DEF MutationAt
<1>7. CASE ~(ok /\ Owned(m.next))
  <2>1. Aim(m, "invalid")
    BY <1>7 DEF SourceVerified
  <2> QED BY <1>1, <1>3, <2>1, AimGoes
<1>8. CASE (ok /\ Owned(m.next)) /\ ~IsCurrentMutation(m)
  <2>1. Aim(m, "dropped")
    BY <1>8 DEF SourceVerified
  <2> QED BY <1>1, <1>3, <1>4, <1>8, <2>1, AimGoes
<1>9. CASE (ok /\ Owned(m.next)) /\ IsCurrentMutation(m)
  <2>1. Aim(m, "committed")
    BY <1>9 DEF SourceVerified
  <2> QED BY <1>1, <1>3, <1>4, <1>5, <1>6, <1>9, <2>1, AimGoes
<1> QED BY <1>7, <1>8, <1>9

LEMMA MutationIs ==
    ASSUME CoordInv, Mutation \/ MutationVerifies
    PROVE  MutationGoes \/ (queue # <<>> /\ MutationEnds(Head(queue)) /\ Mutation)
<1>1. CASE Mutation /\ ~MutationEnds(Head(queue))
  <2>1. queue # <<>> /\ BesidesHead
    BY <1>1 DEF Mutation, MutationBegins, CleanOther, OthersDone, PreviousDone, BesidesHead, tokens, given, own
  <2> QED
    BY <2>1, <1>1, MutationBeginsGoes, CleanOtherGoes, OthersDoneGoes, PreviousDoneGoes DEF Mutation
<1>2. CASE MutationVerifies
  <2>1. queue # <<>> /\ BesidesHead
    BY <1>2 DEF MutationVerifies, SourceVerified, BesidesHead, tokens, given, own
  <2> QED
    BY <2>1, <1>2, VerifiedGoes DEF MutationVerifies
<1> QED BY <1>1, <1>2 DEF Mutation

-----------------------------------------------------------------------------
(* The mutation chain: the first mutation ends (MutationEnds)              *)

LEMMA DispatchedIs ==
    ASSUME CoordInv, NEW m \in Mutations, MutationAt(m), m.at = "end", m.end # "dropped"
    PROVE  LET x == Dispatched(m)
           IN  /\ x \in Apps /\ x.readiness = app.readiness /\ x.mutation = "none"
               /\ x.status \notin {"consentRequired", "analyzing"}
               /\ m.end = "committed" => x.source = m.next
               /\ m.end = "reset" => x.source = None
               /\ m.end \notin {"committed", "reset"} =>
                    x.source = app.source \/ (x.source = None /\ ~Owned(m.claim))
<1>0. /\ app \in Apps /\ Concluded(m) /\ Requested(m)
      /\ m.end \in Ends /\ m.used \in BOOLEAN /\ m.clean \in BOOLEAN /\ m.claim \in Pdfs \cup {None}
      /\ m.next \in Sources \cup {None, "declined", "cancelled"} /\ (m.used => ~Owned(m.claim))
  BY MutationFields DEF CoordInv, TaskTypes, MutationAt, Concluded
<1>1. ~Owned(None) /\ app.source \in Sources \cup {None}
  BY <1>0, OwnedIsClaimed, ClaimedArePdfs, AppFields DEF CoordInv
<1>2. \A s : StatusOf(s) \in {"idle", "ready"}
  BY DEF StatusOf
<1>3. \A c \in BOOLEAN : Unless(c, app.source) = IF c THEN None ELSE app.source
  BY DEF Unless
<1>u. Unless(m.used, app.source) \in {app.source, None}
      /\ (Unless(m.used, app.source) = app.source \/ ~Owned(m.claim))
  <2>1. CASE m.used = TRUE
    BY <2>1, <1>0 DEF Unless
  <2>2. CASE m.used = FALSE
    BY <2>2, <1>0 DEF Unless
  <2> QED BY <1>0, <2>1, <2>2
<1> DEFINE d == ~m.clean \/ owed # 0
<1>d. d \in BOOLEAN
  OBVIOUS
<1> HIDE DEF d
<1>4. CASE m.end = "privacy"
  <2>1. Dispatched(m) = Failed(FALSE, FALSE, d)
    BY <1>4 DEF Dispatched, d
  <2>2. Becomes(Failed(FALSE, FALSE, d), "failed", app.readiness, Unless(FALSE, app.source), "none")
    BY <1>0, <1>d, FailedIs
  <2> QED BY <2>1, <2>2, <1>0, <1>3, <1>4 DEF Becomes
<1>5. CASE m.end = "invalid"
  <2> DEFINE c == m.used \/ (m.kind = "selecting" /\ m.source \notin Pdfs)
  <2>1. Dispatched(m) = Failed(c, FALSE, d)
    BY <1>5 DEF Dispatched, d
  <2>2. c \in BOOLEAN
    OBVIOUS
  <2>3. c => ~Owned(m.claim)
    <3>1. m.used => ~Owned(m.claim)
      BY <1>0
    <3>2. ASSUME m.source \notin Pdfs PROVE ~Owned(m.claim)
      <4>1. m.claim = None
        BY <3>2, <1>0 DEF Requested
      <4> QED BY <4>1, <1>1
    <3>3. ASSUME m.source \in Pdfs, c PROVE m.used
      BY <3>3
    <3> QED BY <3>1, <3>2, <3>3
  <2> HIDE DEF c
  <2>4. Becomes(Failed(c, FALSE, d), "failed", app.readiness, Unless(c, app.source), "none")
    BY <1>0, <1>d, <2>2, FailedIs
  <2> QED BY <2>1, <2>2, <2>3, <2>4, <1>0, <1>3, <1>5 DEF Becomes
<1>6. CASE m.end = "committed"
  <2>1. Dispatched(m) = SourceReady(m.next) /\ m.next \in Sources
    BY <1>0, <1>6 DEF Dispatched, Concluded, Requested
  <2> QED BY <2>1, <1>0, <1>6, SourceReadyIs DEF Becomes
<1>7. CASE m.end = "updated"
  <2>1. Dispatched(m) = JobUpdated(m.used)
    BY <1>7 DEF Dispatched
  <2>2. Becomes(JobUpdated(m.used), StatusOf(Unless(m.used, app.source)), app.readiness,
                Unless(m.used, app.source), "none")
    BY <1>0, JobUpdatedIs
  <2> QED BY <2>1, <2>2, <1>2, <1>u, <1>7 DEF Becomes
<1>8. CASE m.end = "declined"
  <2> DEFINE s == StatusOf(Unless(m.used, app.source))
  <2>1. Dispatched(m) = Ended(s, m.used) /\ s \in {"idle", "ready"}
    BY <1>2, <1>8 DEF Dispatched
  <2> HIDE DEF s
  <2>2. Becomes(Ended(s, m.used), s, app.readiness, Unless(m.used, app.source), "none")
    BY <1>0, <2>1, EndedIs
  <2> QED BY <2>1, <2>2, <1>u, <1>8 DEF Becomes
<1>9. CASE m.end = "cancelled"
  <2>1. Dispatched(m) = Ended("cancelled", m.used)
    BY <1>9 DEF Dispatched
  <2>2. Becomes(Ended("cancelled", m.used), "cancelled", app.readiness, Unless(m.used, app.source), "none")
    BY <1>0, EndedIs
  <2> QED BY <2>1, <2>2, <1>u, <1>9 DEF Becomes
<1>10. CASE m.end = "reset"
  <2>1. Dispatched(m) = ResetApp
    BY <1>10 DEF Dispatched
  <2> QED BY <2>1, <1>0, <1>10, ResetAppIs DEF Becomes
<1> QED
  BY <1>0, <1>4, <1>5, <1>6, <1>7, <1>8, <1>9, <1>10 DEF Ends, Concluded

LEMMA MutationEndsKeeps ==
    ASSUME CoordInv, Mutation, MutationEnds(Head(queue))
    PROVE  CoordInv'
<1> DEFINE m == Head(queue)
<1>0. /\ m \in Mutations /\ MutationAt(m) /\ FreshAt(m) /\ m = queue[1] /\ queue # <<>>
      /\ m.at = "end" /\ m.on = None /\ Concluded(m) /\ Requested(m)
  BY HeadFacts DEF Mutation, MutationEnds, MutationAt
<1>1. /\ queue' = Tail(queue)
      /\ UNCHANGED <<active, acts, vision, disposal, gen>>
      /\ UNCHANGED <<owed, epochs, fence, sweeps, recoveries, starting>>
      /\ UNCHANGED <<disk, leased, pick, requireLocalPdfReview, running, port, claims>>
  BY DEF Mutation, MutationEnds, privacy, files, given, cleanup
<1>2. /\ queue \in Seq(Mutations) /\ queue' \in Seq(Mutations)
      /\ DOMAIN queue \subseteq Nat /\ DOMAIN queue' \subseteq Nat
      /\ \A i \in DOMAIN queue' : i + 1 \in DOMAIN queue /\ i + 1 > 1 /\ queue'[i] = queue[i + 1]
      /\ \A i \in DOMAIN queue \ {1} : i - 1 \in DOMAIN queue' /\ queue'[i - 1] = queue[i]
      /\ queue' # <<>> => queue'[Len(queue')] = queue[Len(queue)]
      /\ queue' = <<>> => queue[Len(queue)] = m
  <2>1. queue \in Seq(Mutations)
    BY DEF CoordInv, TaskTypes
  <2>2. /\ queue' \in Seq(Mutations) /\ Len(queue') = Len(queue) - 1
        /\ DOMAIN queue = 1 .. Len(queue) /\ Len(queue) \in Nat \ {0}
        /\ DOMAIN queue' = 1 .. Len(queue) - 1
        /\ \A i \in DOMAIN queue' : i + 1 \in DOMAIN queue /\ i + 1 > 1 /\ queue'[i] = queue[i + 1]
        /\ \A i \in DOMAIN queue \ {1} : i - 1 \in DOMAIN queue' /\ queue'[i - 1] = queue[i]
        /\ queue' # <<>> => Len(queue') + 1 = Len(queue) /\ queue'[Len(queue')] = queue[Len(queue)]
    BY <1>0, <1>1, <2>1, QueueEnds
  <2>3. queue' = <<>> => Len(queue) = 1
    BY <2>2, EmptySeq
  <2> QED BY <2>1, <2>2, <2>3, <1>0
<1> HIDE DEF m
<1>3. Handed' = Handed /\ Claimed' = Claimed
  BY <1>1 DEF Handed, Claimed
<1>4. \A i \in DOMAIN queue : queue[i] \in Mutations /\ MutationAt(queue[i]) /\ FreshAt(queue[i])
  BY <1>2 DEF CoordInv, Chain, Fresh
<1>5. ~Owned(None) /\ None \notin Claimed /\ Claimed \subseteq Pdfs
  BY OwnedIsClaimed, ClaimedArePdfs DEF CoordInv
<1>6. IsCurrentMutation(m) <=> Busy(m)
  BY DEF IsCurrentMutation, Busy
<1>7. disposal.at \in {"mounted", "tasks"} /\ Ending'
  <2>1. disposal.at \in {"mounted", "tasks"}
    BY <1>0, DisposalFields DEF CoordInv, TaskTypes, Ending
  <2> QED BY <2>1, <1>1, <1>3 DEF CoordInv, Ending
<1>8. Waits'
  <2>1. ASSUME NEW p \in running PROVE Waiter(p)'
    <3>1. Waiter(p) /\ p # None
      BY CoordinatorConstants DEF CoordInv, Waits, CopyTypes
    <3>2. ASSUME NEW i \in DOMAIN queue, queue[i].on = p
          PROVE  \E j \in DOMAIN queue' : queue'[j].on = p
      BY <3>1, <3>2, <1>0, <1>2
    <3> QED BY <3>1, <3>2, <1>1 DEF Waiter
  <2> QED BY <2>1, <1>1 DEF Waits
<1>9. Order'
  BY <1>1, <1>2 DEF CoordInv, Order
<1>10. SweepTypes' /\ Answers' /\ RegistryCalls' /\ Extraction'
  BY <1>1, <1>3 DEF CoordInv, SweepTypes, Mounted, Answers, RegistryCalls, Exact, Extraction, Owned
<1>11. ASSUME NEW p, NEW i \in DOMAIN queue, queue[i].kind = "selecting", queue[i].next = p
       PROVE  ToCommit(p)' \/ i = 1
  BY <1>2, <1>11 DEF ToCommit
<1>12. CASE ~Busy(m)
  <2>1. app' = app /\ committed' = committed
    BY <1>6, <1>12 DEF Mutation, MutationEnds, m
  <2>2. TaskTypes' /\ CopyTypes' /\ Leases' /\ Privacy'
    BY <1>1, <1>2, <1>3, <2>1
    DEF CoordInv, TaskTypes, CopyTypes, Leases, Privacy, Staged, Mounted
  <2>3. Chain'
    <3>1. ASSUME NEW x, MutationAt(x) PROVE MutationAt(x)'
      BY <3>1, <1>1, <1>3, <2>1 DEF MutationAt, Requested, Concluded, Owned, Busy, Mounted
    <3> QED BY <3>1, <1>2, <1>4 DEF Chain
  <2>4. Fresh'
    BY <1>1, <1>2, <1>4, <2>1 DEF Fresh, FreshAt
  <2>5. Owners'
    <3>1. ASSUME NEW p \in Claimed PROVE p \in running \/ p = committed \/ ToCommit(p)'
      <4>1. CASE ToCommit(p)
        <5>1. PICK i \in DOMAIN queue : queue[i].kind = "selecting" /\ queue[i].next = p
          BY <4>1 DEF ToCommit
        <5>2. ASSUME i = 1 PROVE FALSE
          BY <5>1, <5>2, <1>0, <1>5, <1>12, OwnedIsClaimed DEF Concluded
        <5> QED BY <5>1, <5>2, <1>11
      <4> QED BY <4>1 DEF CoordInv, Owners
    <3> QED BY <3>1, <1>1, <1>3, <2>1 DEF CoordInv, Owners
  <2>6. Activity'
    BY <1>1, <1>3, <2>1 DEF CoordInv, Activity, ActAt, IsCurrent, Mounted, Owned, ReviewFirst
  <2>7. Extracting'
    BY <1>1, <1>2, <2>1 DEF CoordInv, Extracting, Mounted
  <2>8. Progress'
    <3>1. Mounted /\ app.mutation \notin {"none", "extracting"} /\ app.readiness # "blocked" => queue' # <<>>
      BY <1>2, <1>12 DEF CoordInv, Progress, Busy
    <3> QED
      BY <3>1, <1>1, <1>2, <2>1 DEF CoordInv, Progress, Mounted, IsCurrent, ReviewFirst
  <2>9. Shown'
    BY <1>0, <1>1, <2>1 DEF CoordInv, Shown, Mounted
  <2> QED
    BY <1>7, <1>8, <1>9, <1>10, <2>2, <2>3, <2>4, <2>5, <2>6, <2>7, <2>8, <2>9 DEF CoordInv
<1>13. CASE Busy(m)
  <2>1. /\ active = None /\ vision = None /\ committed \in {m.claim, None}
        /\ app.mutation \notin {"none", "extracting"} /\ Mounted /\ Mounted'
    BY <1>0, <1>1, <1>13 DEF MutationAt, Busy, Mounted
  <2>2. queue' = <<>>
    <3>1. ASSUME NEW i \in DOMAIN queue \ {1} PROVE FALSE
      <4>1. i > 1 /\ 1 \in DOMAIN queue
        BY <1>0, <1>2, HeadFacts
      <4>2. queue[1].gen < queue[i].gen /\ queue[i].gen <= gen /\ queue[1].gen = gen
        BY <1>0, <1>13, <4>1 DEF CoordInv, Order, Busy
      <4>3. queue[i].gen \in Nat /\ gen \in Nat
        BY <1>4, MutationFields DEF CoordInv, TaskTypes
      <4> QED BY <4>2, <4>3
    <3>2. DOMAIN queue' = {}
      BY <3>1, <1>2
    <3> QED BY <3>2, <1>2, EmptySeq
  <2>3. CASE m.end = "dropped"
    <3>1. app' = app /\ committed' = committed
      BY <2>3 DEF Mutation, MutationEnds, m
    <3>2. app.readiness = "blocked"
      BY <1>0, <1>13, <2>3 DEF Concluded
    <3>3. TaskTypes' /\ CopyTypes' /\ Leases' /\ Privacy'
      BY <1>1, <1>2, <1>3, <3>1
      DEF CoordInv, TaskTypes, CopyTypes, Leases, Privacy, Staged, Mounted
    <3>4. Chain' /\ Fresh'
      BY <2>2 DEF Chain, Fresh
    <3>5. Owners'
      <4>1. ASSUME NEW p \in Claimed PROVE p \in running \/ p = committed
        <5>1. CASE ToCommit(p)
          <6>1. PICK i \in DOMAIN queue : queue[i].kind = "selecting" /\ queue[i].next = p
            BY <5>1 DEF ToCommit
          <6>2. i = 1
            BY <1>2, <2>2
          <6> QED BY <6>1, <6>2, <1>0, <1>5, <2>3, OwnedIsClaimed DEF Concluded
        <5> QED BY <5>1 DEF CoordInv, Owners
      <4> QED BY <4>1, <1>1, <1>3, <3>1 DEF CoordInv, Owners
    <3>6. Activity'
      BY <1>1, <1>3, <3>1 DEF CoordInv, Activity, ActAt, IsCurrent, Mounted, Owned, ReviewFirst
    <3>7. Extracting'
      BY <2>1, <3>1 DEF Extracting
    <3>8. Progress'
      BY <1>1, <2>1, <3>1, <3>2 DEF CoordInv, Progress, Mounted, IsCurrent, ReviewFirst
    <3>9. Shown'
      BY <1>0, <1>1, <3>1 DEF CoordInv, Shown, Mounted
    <3> QED
      BY <1>7, <1>8, <1>9, <1>10, <3>3, <3>4, <3>5, <3>6, <3>7, <3>8, <3>9 DEF CoordInv
  <2>4. CASE m.end # "dropped"
    <3>0. /\ app' = Dispatched(m)
          /\ committed' = IF m.end \notin {"committed", "reset"} THEN committed
                          ELSE IF m.end = "committed" /\ m.next \in Pdfs THEN m.next
                          ELSE None
      BY <1>6, <1>13, <2>4 DEF Mutation, MutationEnds, m
    <3>1. /\ app' \in Apps /\ app'.readiness = app.readiness /\ app'.mutation = "none"
          /\ app'.status \notin {"consentRequired", "analyzing"}
          /\ m.end = "committed" => app'.source = m.next
          /\ m.end = "reset" => app'.source = None
          /\ m.end \notin {"committed", "reset"} =>
                app'.source = app.source \/ (app'.source = None /\ ~Owned(m.claim))
      BY <1>0, <2>4, <3>0, DispatchedIs
    <3>2. /\ committed' \in Pdfs \cup {None}
          /\ committed' # None => committed' \in Claimed /\ pick[committed'] = "selected"
      BY <3>0, <1>0, OwnedIsClaimed DEF CoordInv, CopyTypes, Leases, Concluded, FreshAt
    <3>3. TaskTypes' /\ CopyTypes' /\ Leases'
      BY <1>1, <1>2, <1>3, <3>1, <3>2 DEF CoordInv, TaskTypes, CopyTypes, Leases, Staged
    <3>4. Privacy'
      <4>1. app.readiness = "checking" => committed' = None
        BY <3>0, <1>0, <2>1 DEF CoordInv, Privacy, Concluded
      <4> QED BY <4>1, <1>1, <1>3, <3>1 DEF CoordInv, Privacy, Staged, Mounted
    <3>5. Chain' /\ Fresh'
      BY <2>2 DEF Chain, Fresh
    <3>6. Owners'
      <4>1. ASSUME NEW p \in Claimed PROVE p \in running \/ p = committed'
        <5>1. CASE ToCommit(p)
          <6>1. PICK i \in DOMAIN queue : queue[i].kind = "selecting" /\ queue[i].next = p
            BY <5>1 DEF ToCommit
          <6>2. m.kind = "selecting" /\ m.next = p /\ p # None /\ p \in Pdfs
            BY <6>1, <1>0, <1>2, <1>5, <2>2
          <6>3. m.end = "committed"
            BY <6>2, <1>0, OwnedIsClaimed DEF Concluded
          <6> QED BY <6>2, <6>3, <3>0
        <5>2. CASE p = committed
          BY <5>2, <1>0, <1>5, <2>1, <3>0, OwnedIsClaimed DEF Concluded
        <5> QED BY <5>1, <5>2 DEF CoordInv, Owners
      <4> QED BY <4>1, <1>1, <1>3, <1>7 DEF Owners
    <3>7. Activity'
      <4>1. ASSUME NEW a \in Activations, acts[a] # None PROVE ActAt(a)'
        <5>1. ActAt(a) /\ ~IsCurrent(a) /\ ~IsCurrent(a)'
          BY <4>1, <1>1, <2>1, CoordinatorConstants DEF CoordInv, Activity, IsCurrent
        <5>2. acts[a].claim # None => acts[a].claim # committed'
          <6>1. acts[a].claim # None => acts[a].claim # committed
            BY <5>1, <2>1, CoordinatorConstants DEF ActAt
          <6>2. m.end = "committed" /\ m.next \in Pdfs => acts[a].claim # m.next
            BY <4>1, <1>0 DEF FreshAt, Concluded
          <6> QED BY <6>1, <6>2, <3>0
        <5> QED BY <5>1, <5>2, <1>1, <1>3, <3>1 DEF ActAt, Owned
      <4> QED BY <4>1, <1>1 DEF CoordInv, Activity
    <3>8. Extracting'
      BY <3>1 DEF Extracting
    <3>9. Progress'
      BY <3>1 DEF Progress
    <3>10. Shown'
      <4>1. committed' # None => app'.source = committed'
        <5>1. CASE m.end = "committed"
          BY <5>1, <3>0, <3>1
        <5>2. CASE m.end = "reset"
          BY <5>2, <3>0
        <5>3. CASE m.end \notin {"committed", "reset"}
          <6>1. committed # None => Owned(committed) /\ app.source = committed
            BY <2>1, OwnedIsClaimed DEF CoordInv, Leases, Shown
          <6> QED BY <5>3, <6>1, <2>1, <3>0, <3>1
        <5> QED BY <5>1, <5>2, <5>3
      <4> QED BY <4>1, <1>1, <2>1, <2>2 DEF Shown
    <3> QED
      BY <1>7, <1>8, <1>9, <1>10, <3>3, <3>4, <3>5, <3>6, <3>7, <3>8, <3>9, <3>10 DEF CoordInv
  <2> QED BY <2>3, <2>4
<1> QED BY <1>12, <1>13

-----------------------------------------------------------------------------
(* Activations: the consent gate and the network                           *)

\* Where no continuation is ready, no mutation is about to commit and no
\* activation about to upload.
LEMMA QuietFacts ==
    ASSUME CoordInv, Quiet
    PROVE  /\ \A i \in DOMAIN queue : ~Commits(queue[i])
           /\ \A a \in Activations : acts[a] # None => acts[a].at # "call"
           /\ \A a \in Activations : acts[a] # None /\ acts[a].aborted => acts[a].at = "terminal"
<1>1. ASSUME NEW i \in DOMAIN queue, Commits(queue[i]) PROVE FALSE
  <2>1. queue # <<>> /\ Head(queue) = queue[1]
    BY <1>1, HeadFacts, EmptySeq DEF CoordInv, TaskTypes
  <2>2. i = 1
    BY <1>1 DEF CoordInv, Order, Commits
  <2>3. queue[i].on = None
    BY <1>1 DEF CoordInv, Chain, MutationAt, Concluded, Commits
  <2> QED BY <1>1, <2>1, <2>2, <2>3 DEF Quiet, MutationRuns, Commits
<1>2. ASSUME NEW a \in Activations, acts[a] # None
      PROVE  acts[a].at # "call" /\ (acts[a].aborted => acts[a].at = "terminal")
  BY <1>2 DEF Quiet, ActivationRuns
<1> QED BY <1>1, <1>2

\* The chain, by a step that leaves it alone.
LEMMA ChainStays ==
    ASSUME CoordInv, queue' = queue, gen' \in Nat, gen <= gen', HandedGrows,
           \A m \in Mutations : BusyStays(m),
           \A i \in DOMAIN queue : Commits(queue[i]) =>
              claims' = claims /\ Busy(queue[i])' /\ app'.readiness = "ready"
    PROVE  Chain' /\ Order'
<1>1. \A i \in DOMAIN queue : queue[i] \in Mutations /\ MutationAt(queue[i]) /\ FreshAt(queue[i])
  BY DEF CoordInv, Chain, Fresh, TaskTypes
<1>2. \A i \in DOMAIN queue : MutationAt(queue[i])'
  BY <1>1, MutationKept
<1>3. \A i \in DOMAIN queue : queue[i].gen <= gen'
  <2>1. ASSUME NEW i \in DOMAIN queue PROVE queue[i].gen <= gen'
    <3>1. queue[i].gen \in Nat /\ gen \in Nat /\ queue[i].gen <= gen
      BY <1>1, MutationFields DEF CoordInv, TaskTypes, Order
    <3> QED BY <3>1
  <2> QED BY <2>1
<1> QED BY <1>2, <1>3 DEF Chain, Order, CoordInv

LEMMA FreshStays ==
    ASSUME CoordInv, queue' = queue, committed' \in {committed, None},
           \A p \in Pdfs : pick[p] = "selected" => pick'[p] = "selected",
           \A a \in Activations : acts'[a] # None =>
              acts[a] # None /\ acts'[a].claim = acts[a].claim
    PROVE  Fresh'
<1>1. ASSUME NEW i \in DOMAIN queue, queue[i].kind = "selecting", queue[i].next \in Pdfs
      PROVE  /\ committed' # queue[i].next
             /\ \A a \in Activations : acts'[a] # None => acts'[a].claim # queue[i].next
             /\ pick'[queue[i].next] = "selected"
  BY <1>1, CoordinatorConstants DEF CoordInv, Fresh, FreshAt
<1> QED BY <1>1 DEF Fresh, FreshAt

\* An activation moves on, or ends and begins its cleanup.
ActGoes(a, n) ==
    /\ acts[a] # None /\ acts[a].at # "terminal" /\ acts' = [acts EXCEPT ![a] = n]
    /\ n \in Acts /\ SameAct(n, acts[a]) /\ n.aborted = acts[a].aborted
    /\ n.on \in {None, n.claim} /\ (n.at # "terminal" => n.on = None)
    /\ n.at = "terminal" => n.out # None /\ n.on = n.claim
    /\ n.at = "call" => IsCurrent(a)
    /\ Cleans(n.on)
    /\ \/ app' = app
       \/ IsCurrent(a) /\ app' = [app EXCEPT !.status = "analyzing", !.review = FALSE]
    /\ UNCHANGED <<gen, active, queue, own, OtherThanActs>>

LEMMA ActGoesKeeps ==
    ASSUME CoordInv, NEW a \in Activations, NEW n, ActGoes(a, n)
    PROVE  CoordInv'
<1>1. /\ UNCHANGED <<gen, active, vision, queue, disposal>>
      /\ UNCHANGED <<claims, committed, owed, epochs, fence, sweeps, recoveries, starting>>
      /\ UNCHANGED <<disk, leased, pick, requireLocalPdfReview>>
  BY DEF ActGoes, own, privacy, files, OtherThanActs, given
<1>2. /\ n \in Acts /\ SameAct(n, acts[a]) /\ n # None /\ acts[a] # None /\ acts[a].at # "terminal"
      /\ acts'[a] = n /\ \A b \in Activations \ {a} : acts'[b] = acts[b]
      /\ acts' \in [Activations -> Acts \cup {None}]
      /\ \A b \in Activations : acts'[b] # None <=> acts[b] # None
      /\ n.on \in Pdfs \cup {None}
  BY CoordinatorConstants, ActFields DEF ActGoes, CoordInv, TaskTypes
<1>3. Handed' = Handed /\ Claimed' = Claimed /\ HandedGrows /\ Mounted' = Mounted
  BY <1>1, ClaimedArePdfs DEF Handed, Claimed, HandedGrows, CoordInv, Mounted
<1>4. /\ running' = (IF n.on = None THEN running ELSE running \cup {n.on})
      /\ running' \subseteq Pdfs /\ port' \in Seq(PortCalls) /\ Answers' /\ RegistryCalls'
  BY <1>1, <1>2, <1>3, CleansKeep, CleansKeepCalls DEF CoordInv, CopyTypes, ActGoes
<1>5. /\ app' \in Apps /\ app'.readiness = app.readiness /\ app'.source = app.source
      /\ app'.mutation = app.mutation
      /\ app'.status = app.status \/ (app'.status = "analyzing" /\ IsCurrent(a))
  BY AppShows DEF ActGoes, CoordInv, TaskTypes, Becomes
<1>6. ActAt(a) /\ (\A b \in Activations : acts[b] # None => ActAt(b)) /\ (active # None => acts[active] # None)
  BY <1>2 DEF CoordInv, Activity
<1>7. \A b \in Activations : acts'[b] # None => SameAct(acts'[b], acts[b])
  BY <1>2 DEF SameAct
<1>8. TaskTypes' /\ CopyTypes' /\ SweepTypes' /\ Leases'
  BY <1>1, <1>2, <1>3, <1>4, <1>5
  DEF CoordInv, TaskTypes, CopyTypes, SweepTypes, Leases, Staged
<1>9. Waits'
  <2>1. ASSUME NEW p \in running' PROVE Waiter(p)'
    <3>1. CASE p = n.on /\ n.on # None
      BY <3>1, <1>2 DEF Waiter
    <3>2. CASE p \in running
      <4>1. Waiter(p) /\ p # None
        BY <3>2, CoordinatorConstants DEF CoordInv, Waits, CopyTypes
      <4>2. ASSUME NEW b \in Activations, acts[b] # None, acts[b].on = p
            PROVE  acts'[b] # None /\ acts'[b].on = p
        BY <4>1, <4>2, <1>2, <1>6 DEF ActAt
      <4> QED BY <4>1, <4>2, <1>1 DEF Waiter
    <3> QED BY <3>1, <3>2, <1>4
  <2> QED BY <2>1 DEF Waits
<1>10. Ending' /\ Owners' /\ Privacy'
  BY <1>1, <1>3, <1>4, <1>5 DEF CoordInv, Ending, Owners, ToCommit, Privacy, Staged
<1>11. Chain' /\ Order' /\ Fresh'
  <2>1. gen \in Nat
    BY DEF CoordInv, TaskTypes
  <2>2. \A m \in Mutations : BusyStays(m) /\ (Busy(m)' <=> Busy(m))
    BY <1>1, <1>3, <1>5 DEF BusyStays, Busy
  <2>3. ASSUME NEW i \in DOMAIN queue, Commits(queue[i])
        PROVE  claims' = claims /\ Busy(queue[i])' /\ app'.readiness = "ready"
    BY <2>2, <2>3, <1>1, <1>5 DEF Commits, CoordInv, Chain, MutationAt, Concluded, TaskTypes
  <2>4. Chain' /\ Order'
    BY <2>1, <2>2, <2>3, <1>1, <1>3, ChainStays
  <2>5. Fresh'
    BY <1>1, <1>2, <1>7, FreshStays DEF SameAct
  <2> QED BY <2>4, <2>5
<1>12. Activity'
  <2>1. ASSUME NEW b \in Activations, acts[b] # None PROVE ActAt(b)'
    <3>1. ActAt(b) /\ SameAct(acts'[b], acts[b]) /\ acts'[b] # None
      BY <2>1, <1>2, <1>6, <1>7
    <3>2. IsCurrent(b)' <=> IsCurrent(b)
      BY <1>1, <1>3, <1>5, <3>1 DEF IsCurrent, SameAct
    <3>3. CASE b = a
      <4>1. acts'[b].claim # None => acts'[b].claim = acts'[b].source /\ acts'[b].claim \in Handed
        BY <3>1 DEF ActAt, SameAct
      <4>2. acts'[b].at # "terminal" /\ acts'[b].claim # None /\ IsCurrent(b) =>
               committed = acts'[b].claim /\ acts'[b].claim \notin running'
        BY <3>1, <3>3, <1>2, <1>4 DEF ActAt, SameAct, ActGoes
      <4>3. acts'[b].at = "call" => IsCurrent(b)
        BY <3>3, <1>2 DEF ActGoes
      <4>4. /\ acts'[b].on \in {None, acts'[b].claim} /\ (acts'[b].at # "terminal" => acts'[b].on = None)
            /\ acts'[b].at = "terminal" => acts'[b].out # None /\ acts'[b].on = acts'[b].claim
        BY <3>3, <1>2 DEF ActGoes
      <4> QED
        BY <3>1, <3>2, <4>1, <4>2, <4>3, <4>4, <1>1, <1>3, <1>5 DEF ActAt, SameAct, Owned, ReviewFirst
    <3>4. CASE b # a
      <4>1. acts'[b] = acts[b]
        BY <3>4, <1>2
      <4>2. IsCurrent(b) /\ acts[b].at # "terminal" /\ acts[b].claim # None => acts[b].claim # n.on
        BY <3>1, <3>4, <1>2, <1>6 DEF ActAt, SameAct, IsCurrent, ActGoes
      <4>3. IsCurrent(b) /\ acts[b].at # "terminal" /\ acts[b].claim # None => acts[b].claim \notin running'
        BY <3>1, <4>2, <1>4 DEF ActAt
      <4> QED
        BY <3>1, <3>2, <4>1, <4>3, <1>1, <1>3, <1>5 DEF ActAt, Owned, ReviewFirst
    <3> QED BY <3>3, <3>4
  <2>2. active # None => acts'[active] # None
    BY <1>2, <1>6 DEF CoordInv, TaskTypes
  <2> QED BY <2>1, <2>2, <1>1, <1>2 DEF Activity
<1>13. Extraction'
  BY <1>1, <1>3 DEF CoordInv, Extraction, Owned
<1>14. Extracting'
  BY <1>1, <1>3, <1>5 DEF CoordInv, Extracting
<1>15. Progress'
  <2>1. Mounted /\ app'.status = "analyzing" => active # None /\ IsCurrent(active)
    BY <1>5, CoordinatorConstants DEF CoordInv, Progress, IsCurrent
  <2>2. app'.status \in {"consentRequired", "analyzing"} => app.readiness = "ready" /\ ~ReviewFirst(app.source)
    BY <1>5, <1>6 DEF CoordInv, Progress, ActAt
  <2>3. \A b \in Activations : IsCurrent(b) => IsCurrent(b)'
    BY <1>1, <1>3, <1>5, <1>7, <1>6, <1>2 DEF IsCurrent, SameAct
  <2>4. active \in Activations \cup {None}
    BY DEF CoordInv, TaskTypes
  <2>5. IsCurrent(active) /\ active # None => IsCurrent(active)'
    BY <2>3, <2>4, <1>1
  <2> QED
    BY <2>1, <2>2, <2>5, <1>1, <1>3, <1>5 DEF CoordInv, Progress, ReviewFirst
<1>16. Shown'
  <2>1. active \in Activations \cup {None}
    BY DEF CoordInv, TaskTypes
  <2>2. active # None => acts'[active].gen = acts[active].gen
    BY <2>1, <1>2, <1>6, <1>7 DEF SameAct
  <2> QED BY <2>2, <1>1, <1>3, <1>5 DEF CoordInv, Shown
<1> QED
  BY <1>4, <1>8, <1>9, <1>10, <1>11, <1>12, <1>13, <1>14, <1>15, <1>16 DEF CoordInv

\* An activation is over.
ActStops(a) ==
    /\ acts[a] # None /\ acts[a].on = None
    /\ acts' = [acts EXCEPT ![a] = None]
    /\ active' = IF active = a THEN None ELSE active
    /\ \/ app' = app /\ ~IsCurrent(a)
       \/ /\ IsCurrent(a) /\ app' \in Apps /\ app'.readiness = app.readiness
          /\ app'.mutation = "none" /\ app'.status # "analyzing"
          /\ \/ app'.source = app.source
             \/ app'.source = None /\ committed = None /\ app'.status # "consentRequired"
    /\ UNCHANGED <<gen, queue, claims, committed, cleanup, vision, disposal, privacy, starting,
                   files, pick, requireLocalPdfReview>>

LEMMA ActStopsKeeps ==
    ASSUME CoordInv, NEW a \in Activations, ActStops(a)
    PROVE  CoordInv'
<1>1. /\ UNCHANGED <<gen, queue, vision, disposal, claims, committed, running, port>>
      /\ UNCHANGED <<owed, epochs, fence, sweeps, recoveries, starting>>
      /\ UNCHANGED <<disk, leased, pick, requireLocalPdfReview>>
  BY DEF ActStops, privacy, files, cleanup
<1>2. /\ acts' \in [Activations -> Acts \cup {None}] /\ acts'[a] = None
      /\ \A b \in Activations \ {a} : acts'[b] = acts[b]
      /\ active' \in {active, None} /\ active' # a /\ active' \in Activations \cup {None}
      /\ active \in Activations \cup {None}
      /\ \A b \in Activations \ {a} : active = b => active' = b
  BY CoordinatorConstants DEF ActStops, CoordInv, TaskTypes
<1>3. Handed' = Handed /\ Claimed' = Claimed /\ HandedGrows /\ Mounted' = Mounted
  BY <1>1, ClaimedArePdfs DEF Handed, Claimed, HandedGrows, CoordInv, Mounted
<1>4. /\ app' \in Apps /\ app'.readiness = app.readiness
      /\ app'.source = app.source \/ (app'.source = None /\ committed = None)
      /\ app'.mutation = app.mutation
      /\ app' # app => IsCurrent(a) /\ app'.mutation = "none" /\ app'.status # "analyzing"
  BY DEF ActStops, CoordInv, TaskTypes, IsCurrent
<1>5. (\A b \in Activations : acts[b] # None => ActAt(b)) /\ (active # None => acts[active] # None)
  BY DEF CoordInv, Activity
<1>6. ASSUME NEW b \in Activations, acts'[b] # None PROVE b # a /\ acts[b] # None /\ acts'[b] = acts[b]
  BY <1>2, <1>6
<1>7. TaskTypes' /\ CopyTypes' /\ SweepTypes' /\ Leases'
  BY <1>1, <1>2, <1>3, <1>4 DEF CoordInv, TaskTypes, CopyTypes, SweepTypes, Leases, Staged
<1>8. Waits'
  <2>1. ASSUME NEW p \in running PROVE Waiter(p)'
    <3>1. Waiter(p) /\ p # None
      BY CoordinatorConstants DEF CoordInv, Waits, CopyTypes
    <3>2. ASSUME NEW b \in Activations, acts[b] # None, acts[b].on = p
          PROVE  acts'[b] # None /\ acts'[b].on = p
      BY <3>1, <3>2, <1>2 DEF ActStops
    <3> QED BY <3>1, <3>2, <1>1 DEF Waiter
  <2> QED BY <2>1, <1>1 DEF Waits
<1>9. Ending' /\ Owners' /\ Privacy' /\ Answers' /\ RegistryCalls'
  <2>1. Ending' /\ Owners'
    BY <1>1, <1>2, <1>3 DEF CoordInv, Ending, Owners, ToCommit
  <2>2. Privacy'
    BY <1>1, <1>3, <1>4 DEF CoordInv, Privacy, Staged
  <2>3. Answers' /\ RegistryCalls'
    BY <1>1, <1>3 DEF CoordInv, Answers, Exact, RegistryCalls
  <2> QED BY <2>1, <2>2, <2>3
<1>10. Chain' /\ Order' /\ Fresh'
  <2>1. gen \in Nat
    BY DEF CoordInv, TaskTypes
  <2>2. \A m \in Mutations : BusyStays(m) /\ (Busy(m)' <=> Busy(m))
    BY <1>1, <1>2, <1>3, <1>4 DEF BusyStays, Busy
  <2>3. ASSUME NEW i \in DOMAIN queue, Commits(queue[i])
        PROVE  claims' = claims /\ Busy(queue[i])' /\ app'.readiness = "ready"
    BY <2>2, <2>3, <1>1, <1>4 DEF Commits, CoordInv, Chain, MutationAt, Concluded, TaskTypes
  <2>4. Chain' /\ Order'
    BY <2>1, <2>2, <2>3, <1>1, <1>3, ChainStays
  <2>5. Fresh'
    BY <1>1, <1>6, FreshStays
  <2> QED BY <2>4, <2>5
<1>11. Activity'
  <2>1. ASSUME NEW b \in Activations, acts'[b] # None PROVE ActAt(b)'
    <3>1. ActAt(b) /\ acts'[b] = acts[b] /\ b # a
      BY <2>1, <1>5, <1>6
    <3>2. active = b <=> active' = b
      BY <1>2, <3>1, CoordinatorConstants
    <3>3. IsCurrent(b)' <=> IsCurrent(b)
      BY <1>1, <1>3, <1>4, <3>1, <3>2 DEF IsCurrent
    <3>4. IsCurrent(b) => app' = app
      BY <3>1, <1>4 DEF IsCurrent
    <3> QED
      BY <3>1, <3>2, <3>3, <3>4, <1>1, <1>3, <1>4 DEF ActAt, Owned, ReviewFirst
  <2>2. active' # None => acts'[active'] # None
    BY <1>2, <1>5
  <2> QED BY <2>1, <2>2 DEF Activity
<1>12. Extraction'
  BY <1>1, <1>3 DEF CoordInv, Extraction, Owned
<1>13. Extracting'
  BY <1>1, <1>3, <1>4 DEF CoordInv, Extracting
<1>14. Progress'
  <2>1. ASSUME Mounted, app'.status = "analyzing" PROVE active' # None /\ IsCurrent(active)'
    <3>1. app' = app /\ ~IsCurrent(a)
      BY <2>1, <1>4 DEF ActStops
    <3>2. active # None /\ IsCurrent(active) /\ active \in Activations
      BY <2>1, <3>1, <1>2 DEF CoordInv, Progress
    <3>3. active # a /\ active' = active
      BY <3>1, <3>2, <1>2
    <3>4. acts'[active] = acts[active]
      BY <3>2, <3>3, <1>2
    <3> QED BY <3>1, <3>2, <3>3, <3>4, <1>1, <1>3 DEF IsCurrent
  <2>2. app'.status \in {"consentRequired", "analyzing"} => app.readiness = "ready" /\ ~ReviewFirst(app'.source)
    <3>1. CASE app' = app
      BY <3>1 DEF CoordInv, Progress
    <3>2. CASE app' # app
      BY <3>2, <1>4, <1>5 DEF ActStops, ActAt
    <3> QED BY <3>1, <3>2
  <2> QED
    BY <2>1, <2>2, <1>1, <1>3, <1>4 DEF CoordInv, Progress, ReviewFirst
<1>15. Shown'
  <2>1. active' # None => active' = active /\ acts'[active'] = acts[active]
    BY <1>2
  <2> QED BY <2>1, <1>1, <1>3, <1>4 DEF CoordInv, Shown
<1> QED
  BY <1>7, <1>8, <1>9, <1>10, <1>11, <1>12, <1>13, <1>14, <1>15 DEF CoordInv

LEMMA ActFacts ==
    ASSUME CoordInv, NEW a \in Activations, acts[a] # None
    PROVE  acts[a] \in Acts /\ ActAt(a) /\ (ActivationIsCurrent(a) <=> IsCurrent(a))
BY DEF CoordInv, TaskTypes, Activity, ActivationIsCurrent, IsCurrent

LEMMA TerminateKeeps ==
    ASSUME CoordInv, NEW a \in Activations, acts[a] # None, acts[a].at # "terminal",
           NEW out \in {"succeeded", "failed", "cancelled", "consentFailed"},
           Terminate(a, out), UNCHANGED OtherThanActs
    PROVE  CoordInv'
<1> DEFINE x == [acts[a] EXCEPT !.at = "terminal", !.out = out]
<1>1. acts[a] \in Acts /\ ActAt(a) /\ out # None
  BY ActFacts, CoordinatorAssumption DEF Ends
<1>2. /\ x \in Acts /\ SameAct(x, acts[a]) /\ x.at = "terminal" /\ x.out = out
      /\ x.aborted = acts[a].aborted /\ x.on = acts[a].on
  BY <1>1 DEF Acts, SameAct
<1>3. /\ IF x.source \in Pdfs /\ x.claim # None
         THEN CleanupClaim(x.claim) /\ SetAct(a, [x EXCEPT !.on = x.claim])
         ELSE UNCHANGED cleanup /\ SetAct(a, [x EXCEPT !.clean = x.source \notin Pdfs])
      /\ UNCHANGED <<app, tokens, own, OtherThanActs>>
  BY DEF Terminate
<1> HIDE DEF x
<1>4. x.on = None /\ x.source \in Sources /\ x.claim \in Pdfs \cup {None}
      /\ (x.claim # None => x.claim = x.source /\ x.claim \in Handed)
  BY <1>1, <1>2, ActFields DEF ActAt, SameAct
<1>5. CASE x.source \in Pdfs /\ x.claim # None
  <2> DEFINE n == [x EXCEPT !.on = x.claim]
  <2>1. CleanupClaim(x.claim) /\ acts' = [acts EXCEPT ![a] = n] /\ UNCHANGED active
    BY <1>3, <1>5 DEF SetAct
  <2>2. /\ n \in Acts /\ SameAct(n, x) /\ n.at = "terminal" /\ n.out = out /\ n.on = x.claim
        /\ n.aborted = x.aborted
    BY <1>2, <1>4 DEF Acts, SameAct
  <2> HIDE DEF n
  <2>3. Cleans(n.on)
    BY <2>1, <2>2, <1>3, <1>4, <1>5 DEF Cleans, Handed, OtherThanActs
  <2>4. ActGoes(a, n)
    BY <2>1, <2>2, <2>3, <1>1, <1>2, <1>3 DEF ActGoes, SameAct, tokens, OtherThanActs
  <2> QED BY <2>4, ActGoesKeeps
<1>6. CASE ~(x.source \in Pdfs /\ x.claim # None)
  <2> DEFINE n == [x EXCEPT !.clean = x.source \notin Pdfs]
  <2>1. UNCHANGED cleanup /\ acts' = [acts EXCEPT ![a] = n] /\ UNCHANGED active
    BY <1>3, <1>6 DEF SetAct
  <2>0. (x.source \notin Pdfs) \in BOOLEAN
    OBVIOUS
  <2>2. /\ n \in Acts /\ SameAct(n, x) /\ n.at = "terminal" /\ n.out = out /\ n.on = x.on
        /\ n.aborted = x.aborted
    BY <1>2, <2>0 DEF Acts, SameAct
  <2> HIDE DEF n
  <2>3. Cleans(n.on) /\ n.on = None /\ n.claim = None
    BY <2>1, <2>2, <1>4, <1>6 DEF Cleans, SameAct
  <2>4. ActGoes(a, n)
    BY <2>1, <2>2, <2>3, <1>1, <1>2, <1>3 DEF ActGoes, SameAct, tokens, OtherThanActs
  <2> QED BY <2>4, ActGoesKeeps
<1> QED BY <1>5, <1>6

LEMMA UploadKeeps ==
    ASSUME CoordInv, NEW a \in Activations, Upload(a), UNCHANGED OtherThanActs
    PROVE  CoordInv'
<1> DEFINE n == [acts[a] EXCEPT !.at = "api"]
<1>1. acts[a] # None /\ acts[a] \in Acts /\ ActAt(a) /\ acts[a].at = "call"
  BY ActFacts DEF Upload
<1>2. acts' = [acts EXCEPT ![a] = n] /\ UNCHANGED <<active, app, tokens, own, cleanup>>
  BY DEF Upload, SetAct
<1>3. /\ n \in Acts /\ SameAct(n, acts[a]) /\ n.at = "api" /\ n.on = acts[a].on
      /\ n.aborted = acts[a].aborted
  BY <1>1 DEF Acts, SameAct
<1> HIDE DEF n
<1>4. n.on = None /\ Cleans(n.on)
  BY <1>1, <1>2, <1>3 DEF ActAt, Cleans
<1>5. ActGoes(a, n)
  BY <1>1, <1>2, <1>3, <1>4 DEF ActGoes, tokens, OtherThanActs
<1> QED BY <1>5, ActGoesKeeps

\* runNetwork, of the activation that is current.
LEMMA StartsKeep ==
    ASSUME CoordInv, NEW a \in Activations, acts[a] # None, acts[a].at \in {"read", "write"},
           ActivationIsCurrent(a), SetAct(a, [acts[a] EXCEPT !.at = "call"]),
           app' = [app EXCEPT !.status = "analyzing", !.review = FALSE],
           UNCHANGED <<gen, own, cleanup, OtherThanActs>>
    PROVE  CoordInv'
<1> DEFINE n == [acts[a] EXCEPT !.at = "call"]
<1>1. acts[a] \in Acts /\ ActAt(a) /\ IsCurrent(a)
  BY ActFacts
<1>2. acts' = [acts EXCEPT ![a] = n] /\ UNCHANGED active
  BY DEF SetAct
<1>3. /\ n \in Acts /\ SameAct(n, acts[a]) /\ n.at = "call" /\ n.on = acts[a].on
      /\ n.aborted = acts[a].aborted
  BY <1>1 DEF Acts, SameAct
<1> HIDE DEF n
<1>4. n.on = None /\ Cleans(n.on)
  BY <1>1, <1>2, <1>3 DEF ActAt, Cleans
<1>5. ActGoes(a, n)
  BY <1>1, <1>2, <1>3, <1>4 DEF ActGoes, OtherThanActs
<1> QED BY <1>5, ActGoesKeeps

LEMMA OutlivedKeeps ==
    ASSUME CoordInv, NEW a \in Activations, acts[a] # None, acts[a].on = None, Outlived(a),
           UNCHANGED OtherThanActs
    PROVE  CoordInv'
<1>1. ~IsCurrent(a)
  BY ActFacts DEF Outlived
<1>2. ActStops(a)
  BY <1>1 DEF ActStops, Outlived, EndAct, OtherThanActs, given, own, tokens
<1> QED BY <1>2, ActStopsKeeps

LEMMA ConsentReadKeeps ==
    ASSUME CoordInv, NEW a \in Activations, ConsentRead(a), UNCHANGED OtherThanActs
    PROVE  CoordInv'
<1>1. acts[a] # None /\ acts[a] \in Acts /\ ActAt(a) /\ acts[a].at = "read" /\ acts[a].on = None
  BY ActFacts DEF ConsentRead, ActAt
<1>2. CASE Outlived(a)
  BY <1>1, <1>2, OutlivedKeeps
<1>3. CASE ActivationIsCurrent(a) /\ StartNetwork(a)
  BY <1>1, <1>3, StartsKeep DEF StartNetwork, tokens
<1>4. CASE /\ ActivationIsCurrent(a)
           /\ app' = [app EXCEPT !.status = "consentRequired", !.review = FALSE]
           /\ EndAct(a)
           /\ UNCHANGED <<gen, draft, pending, own, cleanup>>
  <2>1. Becomes(app', "consentRequired", app.readiness, app.source, app.mutation)
    BY <1>4, AppShows DEF CoordInv, TaskTypes
  <2>2. IsCurrent(a) /\ app.mutation = "none"
    BY <1>1, <1>4, ActFacts DEF IsCurrent
  <2>3. ActStops(a)
    BY <2>1, <2>2, <1>1, <1>4 DEF ActStops, Becomes, EndAct, OtherThanActs, given, own
  <2> QED BY <2>3, ActStopsKeeps
<1>5. CASE Terminate(a, "consentFailed")
  BY <1>1, <1>5, TerminateKeeps
<1> QED BY <1>2, <1>3, <1>4, <1>5 DEF ConsentRead

LEMMA ConsentWrittenKeeps ==
    ASSUME CoordInv, NEW a \in Activations, ConsentWritten(a), UNCHANGED OtherThanActs
    PROVE  CoordInv'
<1>1. acts[a] # None /\ acts[a] \in Acts /\ ActAt(a) /\ acts[a].at = "write" /\ acts[a].on = None
  BY ActFacts DEF ConsentWritten, ActAt
<1>2. CASE Outlived(a)
  BY <1>1, <1>2, OutlivedKeeps
<1>3. CASE /\ ActivationIsCurrent(a)
           /\ SetAct(a, [acts[a] EXCEPT !.at = "call"])
           /\ app' = [app EXCEPT !.status = "analyzing", !.review = FALSE]
           /\ UNCHANGED <<gen, draft, pending, own, cleanup>>
  BY <1>1, <1>3, StartsKeep
<1>4. CASE Terminate(a, "consentFailed")
  BY <1>1, <1>4, TerminateKeeps
<1> QED BY <1>2, <1>3, <1>4 DEF ConsentWritten

LEMMA ApiAnswersKeeps ==
    ASSUME CoordInv, NEW a \in Activations, ApiAnswers(a), UNCHANGED OtherThanActs
    PROVE  CoordInv'
<1>1. acts[a] # None /\ acts[a] \in Acts /\ ActAt(a) /\ acts[a].at = "api" /\ acts[a].on = None
  BY ActFacts DEF ApiAnswers, ActAt
<1>2. ASSUME NEW out \in {"succeeded", "failed", "cancelled"}, Terminate(a, out)
      PROVE  CoordInv'
  BY <1>1, <1>2, TerminateKeeps
<1>3. CASE RetainForVision(a)
  <2>1. Becomes(Failed(FALSE, TRUE, FALSE), "failed", app.readiness, Unless(FALSE, app.source), "none")
    BY FailedIs DEF CoordInv, TaskTypes
  <2>2. Becomes(app', "failed", app.readiness, app.source, "none")
    BY <1>3, <2>1 DEF RetainForVision, Unless
  <2>3. IsCurrent(a) /\ app.mutation = "none"
    BY <1>1, <1>3, ActFacts DEF IsCurrent, RetainForVision
  <2>4. ActStops(a)
    BY <2>2, <2>3, <1>1, <1>3 DEF ActStops, RetainForVision, Becomes, EndAct, OtherThanActs, given, tokens
  <2> QED BY <2>4, ActStopsKeeps
<1> QED BY <1>2, <1>3 DEF ApiAnswers

LEMMA ActivationEndsKeeps ==
    ASSUME CoordInv, NEW a \in Activations, ActivationEnds(a), UNCHANGED OtherThanActs
    PROVE  CoordInv'
<1> DEFINE x == acts[a]
           consume == x.source \in Pdfs
           out == IF x.aborted /\ x.out # "consentFailed" THEN "cancelled" ELSE x.out
<1>1. x # None /\ x \in Acts /\ ActAt(a) /\ x.at = "terminal" /\ x.on = None
      /\ (ActivationIsCurrent(a) <=> IsCurrent(a))
  BY ActFacts DEF ActivationEnds
<1>2. app' = IF ~ActivationIsCurrent(a) THEN app
             ELSE IF ~x.clean THEN Failed(FALSE, FALSE, TRUE)
             ELSE IF out \in {"failed", "consentFailed"} THEN Failed(consume, FALSE, FALSE)
             ELSE Ended(out, consume)
  BY DEF ActivationEnds
<1>3. consume \in BOOLEAN /\ app \in Apps
      /\ out \in {"succeeded", "failed", "cancelled", "consentFailed"}
  BY <1>1, ActFields DEF CoordInv, TaskTypes, ActAt
<1>4. IsCurrent(a) /\ consume => committed = None
  <2>1. x.claim \in Pdfs \cup {None} /\ ~Owned(x.claim)
    BY <1>1, ActFields, CoordinatorConstants, OwnedIsClaimed, ClaimedArePdfs DEF ActAt, CoordInv
  <2>2. committed # None => Owned(committed)
    BY OwnedIsClaimed DEF CoordInv, Leases
  <2> QED BY <2>1, <2>2, <1>1 DEF ActAt
<1> HIDE DEF consume, out
<1>5. Unless(consume, app.source) = app.source \/ (consume /\ Unless(consume, app.source) = None)
  BY <1>3 DEF Unless
<1>6. CASE ~ActivationIsCurrent(a)
  <2>1. ActStops(a)
    BY <1>1, <1>2, <1>6 DEF ActStops, ActivationEnds, EndAct, OtherThanActs, given, own, tokens
  <2> QED BY <2>1, ActStopsKeeps
<1>7. CASE ActivationIsCurrent(a)
  <2>1. /\ app' \in Apps /\ app'.readiness = app.readiness /\ app'.mutation = "none"
        /\ app'.status \in {"failed", "succeeded", "cancelled"}
        /\ app'.source = app.source \/ (consume /\ app'.source = None)
    <3>1. CASE ~x.clean
      <4>1. Becomes(Failed(FALSE, FALSE, TRUE), "failed", app.readiness, Unless(FALSE, app.source), "none")
        BY <1>3, FailedIs
      <4> QED BY <4>1, <3>1, <1>2, <1>7 DEF Becomes, Unless
    <3>2. CASE x.clean /\ out \in {"failed", "consentFailed"}
      <4>1. Becomes(Failed(consume, FALSE, FALSE), "failed", app.readiness, Unless(consume, app.source), "none")
        BY <1>3, FailedIs
      <4> QED BY <4>1, <3>2, <1>2, <1>5, <1>7 DEF Becomes
    <3>3. CASE x.clean /\ out \notin {"failed", "consentFailed"}
      <4>1. out \in {"succeeded", "cancelled"}
        BY <3>3, <1>3
      <4>2. Becomes(Ended(out, consume), out, app.readiness, Unless(consume, app.source), "none")
        BY <4>1, <1>3, EndedIs
      <4> QED BY <4>1, <4>2, <3>3, <1>2, <1>5, <1>7 DEF Becomes
    <3> QED BY <3>1, <3>2, <3>3
  <2>2. ActStops(a)
    BY <2>1, <1>1, <1>4, <1>7 DEF ActStops, ActivationEnds, EndAct, OtherThanActs, given, own, tokens
  <2> QED BY <2>2, ActStopsKeeps
<1> QED BY <1>6, <1>7

LEMMA ActivationKeeps == ASSUME CoordInv, Activation \/ ActivationAnswered PROVE CoordInv'
<1>1. ASSUME NEW a \in Activations, ActivationAborted(a), UNCHANGED OtherThanActs PROVE CoordInv'
  <2>1. acts[a] # None /\ acts[a].at # "terminal" /\ Terminate(a, "cancelled")
    BY <1>1 DEF ActivationAborted
  <2> QED BY <1>1, <2>1, TerminateKeeps
<1> QED
  BY <1>1, UploadKeeps, ActivationEndsKeeps, ConsentReadKeeps, ConsentWrittenKeeps, ApiAnswersKeeps
  DEF Activation, ActivationAnswered

-----------------------------------------------------------------------------
(* On-device extraction                                                    *)

\* The extraction moves on, or its cleanup begins.
VisionGoes(n) ==
    /\ vision # None /\ vision.at # "clean" /\ vision' = n
    /\ n \in Extractions /\ SameExtraction(n, vision)
    /\ n.aborted = vision.aborted /\ n.clean = vision.clean
    /\ n.on \in {None, n.claim} /\ (n.at = "clean" <=> n.on # None)
    /\ Cleans(n.on)
    /\ UNCHANGED <<app, gen, active, acts, queue, disposal, own, privacy, starting, files, pick,
                   requireLocalPdfReview>>

LEMMA VisionGoesKeeps ==
    ASSUME CoordInv, NEW n, VisionGoes(n)
    PROVE  CoordInv'
<1>1. /\ UNCHANGED <<app, gen, active, acts, queue, disposal>>
      /\ UNCHANGED <<claims, committed, owed, epochs, fence, sweeps, recoveries, starting>>
      /\ UNCHANGED <<disk, leased, pick, requireLocalPdfReview>>
  BY DEF VisionGoes, own, privacy, files
<1>2. /\ n \in Extractions /\ n # None /\ vision \in Extractions /\ vision # None /\ vision' = n
      /\ SameExtraction(n, vision) /\ n.on \in Pdfs \cup {None} /\ vision.on = None
  BY CoordinatorConstants, ExtractionFields DEF VisionGoes, CoordInv, TaskTypes, Extraction
<1>3. Handed' = Handed /\ Claimed' = Claimed /\ HandedGrows /\ Mounted' = Mounted
  BY <1>1, ClaimedArePdfs DEF Handed, Claimed, HandedGrows, CoordInv, Mounted
<1>4. /\ running' = (IF n.on = None THEN running ELSE running \cup {n.on})
      /\ running' \subseteq Pdfs /\ port' \in Seq(PortCalls) /\ Answers' /\ RegistryCalls'
  BY <1>1, <1>2, <1>3, CleansKeep, CleansKeepCalls DEF CoordInv, CopyTypes, VisionGoes
<1>5. TaskTypes' /\ CopyTypes' /\ SweepTypes' /\ Leases'
  BY <1>1, <1>2, <1>3, <1>4
  DEF CoordInv, TaskTypes, CopyTypes, SweepTypes, Leases, Staged
<1>6. Waits'
  <2>1. ASSUME NEW p \in running' PROVE Waiter(p)'
    <3>1. CASE p = n.on /\ n.on # None
      BY <3>1, <1>2 DEF Waiter
    <3>2. CASE p \in running
      <4>1. Waiter(p) /\ p # None
        BY <3>2, CoordinatorConstants DEF CoordInv, Waits, CopyTypes
      <4> QED BY <4>1, <1>1, <1>2 DEF Waiter
    <3> QED BY <3>1, <3>2, <1>4
  <2> QED BY <2>1 DEF Waits
<1>7. Ending' /\ Owners' /\ Privacy'
  BY <1>1, <1>2, <1>3, <1>4 DEF CoordInv, Ending, Owners, ToCommit, Privacy, Staged
<1>8. Chain' /\ Order' /\ Fresh'
  <2>1. gen \in Nat
    BY DEF CoordInv, TaskTypes
  <2>2. \A m \in Mutations : BusyStays(m) /\ (Busy(m)' <=> Busy(m))
    BY <1>1, <1>2, <1>3 DEF BusyStays, Busy
  <2>3. ASSUME NEW i \in DOMAIN queue, Commits(queue[i])
        PROVE  claims' = claims /\ Busy(queue[i])' /\ app'.readiness = "ready"
    BY <2>2, <2>3, <1>1 DEF Commits, CoordInv, Chain, MutationAt, Concluded, TaskTypes
  <2>4. Chain' /\ Order'
    BY <2>1, <2>2, <2>3, <1>1, <1>3, ChainStays
  <2>5. Fresh'
    BY <1>1, FreshStays
  <2> QED BY <2>4, <2>5
<1>9. Activity'
  <2>1. ASSUME NEW b \in Activations, acts[b] # None PROVE ActAt(b)'
    <3>1. ActAt(b)
      BY <2>1 DEF CoordInv, Activity
    <3>2. IsCurrent(b)' <=> IsCurrent(b)
      BY <1>1, <1>3 DEF IsCurrent
    <3>3. ASSUME IsCurrent(b), acts[b].at # "terminal", acts[b].claim # None
          PROVE  FALSE
      BY <3>1, <3>3, <1>2 DEF ActAt, IsCurrent, CoordInv, Shown
    <3> QED
      BY <3>1, <3>2, <3>3, <1>1, <1>3 DEF ActAt, Owned, ReviewFirst
  <2> QED BY <2>1, <1>1 DEF CoordInv, Activity
<1>10. Extraction'
  BY <1>1, <1>2, <1>3 DEF CoordInv, Extraction, Owned, VisionGoes, SameExtraction
<1>11. Extracting'
  BY <1>1, <1>2, <1>3 DEF CoordInv, Extracting, VisionGoes, SameExtraction
<1>12. Progress' /\ Shown'
  BY <1>1, <1>2, <1>3 DEF CoordInv, Progress, Shown, IsCurrent, ReviewFirst
<1> QED
  BY <1>4, <1>5, <1>6, <1>7, <1>8, <1>9, <1>10, <1>11, <1>12 DEF CoordInv

LEMMA VisionAnsweredKeeps == ASSUME CoordInv, VisionAnswered PROVE CoordInv'
<1>1. /\ vision # None /\ vision \in Extractions /\ vision.at # "clean" /\ vision.on = None
      /\ vision.claim \in Handed /\ vision.claim \in Pdfs /\ vision.claim # None
  BY CoordinatorConstants, ExtractionFields DEF VisionAnswered, CoordInv, TaskTypes, Extraction
<1>2. UNCHANGED <<app, gen, active, acts, queue, disposal, own, privacy, starting, files, pick,
                  requireLocalPdfReview>>
  BY DEF VisionAnswered, tokens, given
<1>3. ASSUME NEW v \in {"native", "after"}, VisionTo(v) PROVE CoordInv'
  <2> DEFINE n == [vision EXCEPT !.at = v]
  <2>1. vision' = n /\ UNCHANGED cleanup
    BY <1>3 DEF VisionTo
  <2>2. /\ n \in Extractions /\ SameExtraction(n, vision) /\ n.at = v /\ n.on = None
        /\ n.aborted = vision.aborted /\ n.clean = vision.clean
    BY <1>1 DEF Extractions, SameExtraction
  <2> HIDE DEF n
  <2>3. VisionGoes(n)
    BY <1>1, <1>2, <1>3, <2>1, <2>2 DEF VisionGoes, Cleans
  <2> QED BY <2>3, VisionGoesKeeps
<1>4. ASSUME NEW ok \in BOOLEAN, VisionCleans(ok) PROVE CoordInv'
  <2> DEFINE n == [vision EXCEPT !.at = "clean", !.on = vision.claim, !.ok = ok]
  <2>1. vision' = n /\ CleanupClaim(vision.claim)
    BY <1>4 DEF VisionCleans
  <2>2. /\ n \in Extractions /\ SameExtraction(n, vision) /\ n.at = "clean" /\ n.on = vision.claim
        /\ n.aborted = vision.aborted /\ n.clean = vision.clean
    BY <1>1 DEF Extractions, SameExtraction
  <2> HIDE DEF n
  <2>3. vision.claim \in Handed'
    BY <1>1, <1>2 DEF Handed
  <2>4. VisionGoes(n)
    BY <1>1, <1>2, <2>1, <2>2, <2>3 DEF VisionGoes, Cleans, SameExtraction
  <2> QED BY <2>4, VisionGoesKeeps
<1> QED BY <1>3, <1>4 DEF VisionAnswered

LEMMA VisionEndsKeeps == ASSUME CoordInv, VisionEnds PROVE CoordInv'
<1> DEFINE shows == VisionExtractionIsCurrent /\ ~vision.aborted /\ vision.clean
<1>1. /\ UNCHANGED <<gen, active, acts, queue, disposal, running, port>>
      /\ UNCHANGED <<claims, committed, owed, epochs, fence, sweeps, recoveries, starting>>
      /\ UNCHANGED <<disk, leased, pick, requireLocalPdfReview>>
  BY DEF VisionEnds, own, privacy, files, given, cleanup
<1>2. vision' = None /\ vision # None /\ vision \in Extractions /\ vision.on = None /\ ~Owned(vision.claim)
  BY CoordinatorConstants, ExtractionFields DEF VisionEnds, CoordInv, TaskTypes, Extraction
<1>3. Handed' = Handed /\ Claimed' = Claimed /\ HandedGrows /\ Mounted' = Mounted
  BY <1>1, ClaimedArePdfs DEF Handed, Claimed, HandedGrows, CoordInv, Mounted
<1>4. ASSUME shows
      PROVE  /\ app' \in Apps /\ app'.readiness = app.readiness /\ app'.source = None
             /\ app'.mutation = "none" /\ app'.status \in {"idle", "failed"}
             /\ Mounted /\ app.mutation = "extracting" /\ committed = None
  <2>1. Becomes(Ended("idle", TRUE), "idle", app.readiness, Unless(TRUE, app.source), "none")
    BY EndedIs DEF CoordInv, TaskTypes
  <2>2. Becomes(Failed(TRUE, FALSE, FALSE), "failed", app.readiness, Unless(TRUE, app.source), "none")
    BY FailedIs DEF CoordInv, TaskTypes
  <2>3. app' = Ended("idle", TRUE) \/ app' = Failed(TRUE, FALSE, FALSE)
    BY <1>4 DEF VisionEnds
  <2>4. Mounted /\ app.mutation = "extracting"
    BY <1>4 DEF VisionExtractionIsCurrent
  <2>5. committed = None
    BY <2>4, <1>2, OwnedIsClaimed DEF CoordInv, Extracting, Leases
  <2> QED BY <2>1, <2>2, <2>3, <2>4, <2>5 DEF Becomes, Unless
<1>5. ASSUME ~shows PROVE app' = app /\ (Mounted => app.mutation # "extracting")
  <2>1. app' = app
    BY <1>5 DEF VisionEnds
  <2> QED BY <2>1, <1>2, <1>5 DEF CoordInv, Extracting, VisionExtractionIsCurrent
<1> HIDE DEF shows
<1>6. /\ app' \in Apps /\ app'.readiness = app.readiness
      /\ app'.source = app.source \/ (app'.source = None /\ committed = None)
      /\ app'.mutation = app.mutation \/ (app'.mutation = "none" /\ app.mutation = "extracting")
      /\ app'.status = app.status \/ app'.status \in {"idle", "failed"}
  BY <1>4, <1>5 DEF CoordInv, TaskTypes
<1>7. TaskTypes' /\ CopyTypes' /\ SweepTypes' /\ Leases'
  BY <1>1, <1>2, <1>3, <1>6 DEF CoordInv, TaskTypes, CopyTypes, SweepTypes, Leases, Staged
<1>8. Waits'
  <2>1. ASSUME NEW p \in running PROVE Waiter(p)'
    <3>1. Waiter(p) /\ p # None
      BY CoordinatorConstants DEF CoordInv, Waits, CopyTypes
    <3> QED BY <3>1, <1>1, <1>2 DEF Waiter
  <2> QED BY <2>1, <1>1 DEF Waits
<1>9. Ending' /\ Owners' /\ Privacy' /\ Answers' /\ RegistryCalls'
  <2>1. Ending' /\ Owners'
    BY <1>1, <1>2, <1>3 DEF CoordInv, Ending, Owners, ToCommit
  <2>2. Privacy'
    BY <1>1, <1>3, <1>6 DEF CoordInv, Privacy, Staged
  <2>3. Answers' /\ RegistryCalls'
    BY <1>1, <1>3 DEF CoordInv, Answers, Exact, RegistryCalls
  <2> QED BY <2>1, <2>2, <2>3
<1>10. Chain' /\ Order' /\ Fresh'
  <2>1. gen \in Nat
    BY DEF CoordInv, TaskTypes
  <2>2. \A m \in Mutations : BusyStays(m)
    BY <1>1, <1>2, <1>3, <1>4, <1>5 DEF BusyStays, Busy
  <2>3. ASSUME NEW i \in DOMAIN queue, Commits(queue[i])
        PROVE  claims' = claims /\ Busy(queue[i])' /\ app'.readiness = "ready"
    <3>1. Busy(queue[i]) /\ app.readiness = "ready" /\ app.mutation # "extracting"
      BY <2>3 DEF Commits, CoordInv, Chain, MutationAt, Concluded
    <3> QED BY <3>1, <1>1, <1>3, <1>4, <1>5 DEF Busy
  <2>4. Chain' /\ Order'
    BY <2>1, <2>2, <2>3, <1>1, <1>3, ChainStays
  <2>5. Fresh'
    BY <1>1, FreshStays
  <2> QED BY <2>4, <2>5
<1>11. Activity'
  <2>1. ASSUME NEW b \in Activations, acts[b] # None PROVE ActAt(b)'
    <3>1. ActAt(b)
      BY <2>1 DEF CoordInv, Activity
    <3>2. IsCurrent(b)' => IsCurrent(b) /\ app' = app
      <4>1. ASSUME IsCurrent(b)' PROVE app.mutation = "none"
        BY <4>1, <3>1, <1>1, <1>3 DEF IsCurrent, ActAt
      <4> QED BY <4>1, <1>1, <1>3, <1>4, <1>5 DEF IsCurrent
    <3>3. IsCurrent(b) => IsCurrent(b)'
      BY <1>1, <1>3, <1>6 DEF IsCurrent
    <3>4. Mounted' /\ active' = b /\ acts'[b].gen = gen' => app'.mutation = "none"
      BY <3>1, <1>1, <1>3, <1>6 DEF ActAt
    <3>5. /\ acts'[b].gen <= gen'
          /\ acts'[b].claim # None => acts'[b].claim = acts'[b].source /\ acts'[b].claim \in Handed'
          /\ acts'[b].on \in {None, acts'[b].claim}
          /\ acts'[b].at # "terminal" => acts'[b].on = None
          /\ acts'[b].at = "terminal" =>
                acts'[b].out # None /\ (Owned(acts[b].claim)' => acts'[b].on = acts'[b].claim)
          /\ acts'[b].claim # None /\ acts'[b].claim = committed' => active' = b
      BY <3>1, <1>1, <1>3 DEF ActAt, Owned
    <3>6. acts'[b].at = "call" /\ ~acts'[b].aborted => IsCurrent(b)'
      BY <3>1, <3>3, <1>1 DEF ActAt
    <3>7. IsCurrent(b)' =>
            /\ app'.readiness = "ready" /\ acts'[b].source = app'.source
            /\ ~ReviewFirst(acts[b].source)'
            /\ committed' \in {acts'[b].claim, None}
            /\ acts'[b].at # "terminal" /\ acts'[b].claim # None =>
                  committed' = acts'[b].claim /\ acts'[b].claim \notin running'
      BY <3>1, <3>2, <1>1 DEF ActAt, ReviewFirst
    <3> QED
      BY <3>4, <3>5, <3>6, <3>7, <1>1 DEF ActAt
  <2> QED BY <2>1, <1>1 DEF CoordInv, Activity
<1>12. Extraction'
  BY <1>2 DEF Extraction
<1>13. Extracting'
  BY <1>1, <1>3, <1>4, <1>5 DEF Extracting
<1>14. Progress'
  <2>1. Mounted /\ app'.mutation \notin {"none", "extracting"} /\ app'.readiness # "blocked" =>
           queue # <<>> /\ queue[Len(queue)].gen = gen
    BY <1>6 DEF CoordInv, Progress
  <2>2. Mounted /\ app'.status = "analyzing" => app' = app /\ active # None /\ IsCurrent(active)
    BY <1>4, <1>5 DEF CoordInv, Progress
  <2>3. app'.status \in {"consentRequired", "analyzing"} => app' = app
    BY <1>4, <1>5
  <2>4. app' = app /\ IsCurrent(active) => IsCurrent(active)'
    BY <1>1, <1>3 DEF IsCurrent
  <2> QED BY <2>1, <2>2, <2>3, <2>4, <1>1, <1>3 DEF CoordInv, Progress, ReviewFirst
<1>15. Shown'
  <2>1. Mounted /\ committed # None => app' = app
    BY <1>4, <1>5
  <2> QED BY <2>1, <1>1, <1>2, <1>3 DEF CoordInv, Shown
<1> QED
  BY <1>7, <1>8, <1>9, <1>10, <1>11, <1>12, <1>13, <1>14, <1>15 DEF CoordInv

-----------------------------------------------------------------------------
(* What a step does to the tasks that wait for cleanups: they hear how these *)
(* ended, or are aborted                                                   *)

\* What a task waits for, where at most the cleanup of p is told of.
Hears(n, o, p) == n = o \/ (n = None /\ o = p)

MutationsHear(p) ==
    \A i \in DOMAIN queue :
       LET n == queue'[i]
           m == queue[i]
       IN  /\ i \in DOMAIN queue' /\ SameMutation(n, m) /\ n \in Mutations
           /\ n.at = m.at /\ n.todo = m.todo /\ n.used = m.used /\ n.end = m.end
           /\ Hears(n.on, m.on, p)

ActHears(n, x, p) ==
    /\ SameAct(n, x) /\ n \in Acts /\ n.at = x.at /\ n.out = x.out
    /\ x.aborted => n.aborted
    /\ Hears(n.on, x.on, p)

ActsHear(p) ==
    /\ active' = active /\ acts' \in [Activations -> Acts \cup {None}]
    /\ \A a \in Activations : acts'[a] # None <=> acts[a] # None
    /\ \A a \in Activations : acts[a] # None => ActHears(acts'[a], acts[a], p)

ExtractionHears(n, x, p) ==
    /\ SameExtraction(n, x) /\ n.at = x.at /\ Hears(n.on, x.on, p)

VisionHears(p) ==
    /\ vision' \in Extractions \cup {None} /\ (vision' # None <=> vision # None)
    /\ vision # None => ExtractionHears(vision', vision, p)

LEMMA HearsNothing ==
    \A n, o : Hears(n, o, None) <=> n = o
BY DEF Hears

\* AbortActive and CancelVision change no more than a flag.
LEMMA AbortedActs ==
    ASSUME CoordInv, active' = active, acts' = acts \/ acts' = AbortActive(acts)
    PROVE  ActsHear(None)
<1>1. /\ acts \in [Activations -> Acts \cup {None}] /\ active \in Activations \cup {None}
      /\ active # None => acts[active] # None
      /\ None \notin Acts
  BY CoordinatorConstants DEF CoordInv, TaskTypes, Activity
<1>2. CASE acts' = acts
  BY <1>1, <1>2 DEF ActsHear, ActHears, SameAct, Hears
<1>3. CASE acts' = AbortActive(acts) /\ active = None
  BY <1>1, <1>3 DEF ActsHear, ActHears, SameAct, Hears, AbortActive
<1>4. CASE acts' = AbortActive(acts) /\ active # None
  <2> DEFINE n == [acts[active] EXCEPT !.aborted = TRUE]
  <2>1. acts' = [acts EXCEPT ![active] = n] /\ acts[active] \in Acts /\ active \in Activations
    BY <1>1, <1>4 DEF AbortActive
  <2>2. /\ n \in Acts /\ SameAct(n, acts[active])
        /\ n.at = acts[active].at /\ n.out = acts[active].out /\ n.on = acts[active].on
        /\ n.aborted = TRUE
    BY <2>1 DEF Acts, SameAct
  <2> HIDE DEF n
  <2>3. acts' \in [Activations -> Acts \cup {None}] /\ acts'[active] = n /\ n # None
        /\ \A b \in Activations \ {active} : acts'[b] = acts[b]
    BY <1>1, <2>1, <2>2
  <2>4. ActHears(n, acts[active], None)
    BY <2>2 DEF ActHears, Hears
  <2>5. \A b \in Activations \ {active} : acts[b] # None => ActHears(acts'[b], acts[b], None)
    BY <1>1, <2>3 DEF ActHears, Hears, SameAct
  <2> QED BY <1>1, <1>4, <2>1, <2>3, <2>4, <2>5 DEF ActsHear
<1> QED BY <1>2, <1>3, <1>4

LEMMA CancelledVision ==
    ASSUME CoordInv, vision' = vision \/ vision' = CancelVision(vision)
    PROVE  VisionHears(None)
<1>1. vision \in Extractions \cup {None} /\ None \notin Extractions
  BY CoordinatorConstants DEF CoordInv, TaskTypes
<1>2. CASE vision' = vision
  BY <1>1, <1>2 DEF VisionHears, ExtractionHears, SameExtraction, Hears
<1>3. CASE vision' = CancelVision(vision) /\ vision = None
  BY <1>1, <1>3 DEF VisionHears, CancelVision
<1>4. CASE vision' = CancelVision(vision) /\ vision # None
  <2> DEFINE n == [vision EXCEPT !.aborted = TRUE]
  <2>1. vision' = n /\ vision \in Extractions
    BY <1>1, <1>4 DEF CancelVision
  <2>2. n \in Extractions /\ SameExtraction(n, vision) /\ n.at = vision.at /\ n.on = vision.on
    BY <2>1 DEF Extractions, SameExtraction
  <2> HIDE DEF n
  <2> QED BY <1>1, <1>4, <2>1, <2>2 DEF VisionHears, ExtractionHears, Hears
<1> QED BY <1>2, <1>3, <1>4

LEMMA QueueHearsNothing ==
    ASSUME CoordInv, queue' = queue
    PROVE  MutationsHear(None)
BY DEF CoordInv, TaskTypes, MutationsHear, SameMutation, Hears

\* Who waits for a cleanup that goes on.
LEMMA WaitsHold ==
    ASSUME CoordInv, NEW p, p \notin running', running' \subseteq running,
           MutationsHear(p), ActsHear(p), VisionHears(p), Hears(disposal'.on, disposal.on, p),
           \A q \in Pdfs : pick[q] = "discarded" => pick'[q] = "discarded"
    PROVE  Waits'
<1>1. ASSUME NEW q \in running' PROVE Waiter(q)'
  <2>1. Waiter(q) /\ q # p /\ q \in Pdfs
    BY DEF CoordInv, Waits, CopyTypes
  <2>2. \A n, o : Hears(n, o, p) /\ o = q => n = q
    BY <2>1 DEF Hears
  <2>3. ASSUME NEW i \in DOMAIN queue, queue[i].on = q PROVE i \in DOMAIN queue' /\ queue'[i].on = q
    BY <2>2, <2>3 DEF MutationsHear
  <2>4. ASSUME NEW a \in Activations, acts[a] # None, acts[a].on = q
        PROVE  acts'[a] # None /\ acts'[a].on = q
    BY <2>2, <2>4 DEF ActsHear, ActHears
  <2>5. vision # None /\ vision.on = q => vision' # None /\ vision'.on = q
    BY <2>2 DEF VisionHears, ExtractionHears
  <2>6. disposal.on = q => disposal'.on = q
    BY <2>2
  <2> QED BY <2>1, <2>3, <2>4, <2>5, <2>6 DEF Waiter
<1> QED BY <1>1 DEF Waits

\* The activations, by a step that makes none current and deletes nothing of theirs.
LEMMA ActivityHolds ==
    ASSUME CoordInv, NEW p, p \notin Claimed', ActsHear(p), HandedGrows,
           UNCHANGED <<gen, requireLocalPdfReview>>, Mounted' = Mounted,
           app'.readiness = app.readiness, app'.source = app.source, app'.mutation = app.mutation,
           committed' = committed \/ (committed' = None /\ committed \in running),
           committed \in running' => committed \in running
    PROVE  Activity'
<1>1. ASSUME NEW a \in Activations, acts'[a] # None PROVE ActAt(a)'
  <2>1. ActAt(a) /\ ActHears(acts'[a], acts[a], p) /\ acts[a] # None /\ active' = active
    BY <1>1 DEF CoordInv, Activity, ActsHear
  <2>2. IsCurrent(a)' <=> IsCurrent(a)
    BY <2>1 DEF IsCurrent, ActHears, SameAct
  <2>3. Owned(acts[a].claim)' => Owned(acts[a].claim) /\ acts[a].claim # p
    BY <2>1, OwnedIsClaimed, CoordinatorConstants DEF ActAt, ActHears, SameAct, HandedGrows, CoordInv
  <2>4. /\ acts'[a].gen <= gen'
        /\ acts'[a].claim # None => acts'[a].claim = acts'[a].source /\ acts'[a].claim \in Handed'
        /\ acts'[a].on \in {None, acts'[a].claim}
        /\ acts'[a].at # "terminal" => acts'[a].on = None
        /\ acts'[a].at = "terminal" =>
              acts'[a].out # None /\ (Owned(acts[a].claim)' => acts'[a].on = acts'[a].claim)
        /\ acts'[a].claim # None /\ acts'[a].claim = committed' => active' = a
    BY <2>1, <2>3 DEF ActAt, ActHears, SameAct, Hears, HandedGrows
  <2>5. /\ Mounted' /\ active' = a /\ acts'[a].gen = gen' => app'.mutation = "none"
        /\ acts'[a].at = "call" /\ ~acts'[a].aborted => IsCurrent(a)'
    BY <2>1, <2>2 DEF ActAt, ActHears, SameAct
  <2>6. IsCurrent(a)' =>
          /\ app'.readiness = "ready" /\ acts'[a].source = app'.source
          /\ ~ReviewFirst(acts[a].source)'
          /\ committed' \in {acts'[a].claim, None}
          /\ acts'[a].at # "terminal" /\ acts'[a].claim # None =>
                committed' = acts'[a].claim /\ acts'[a].claim \notin running'
    BY <2>1, <2>2 DEF ActAt, ActHears, SameAct, ReviewFirst
  <2> QED BY <2>4, <2>5, <2>6 DEF ActAt
<1>2. active' # None => acts'[active'] # None
  BY DEF ActsHear, CoordInv, Activity, TaskTypes
<1> QED BY <1>1, <1>2 DEF Activity

\* The activations, by a step after which none is current.
LEMMA ActivityPast ==
    ASSUME CoordInv, NEW p, p \notin Claimed', ActsHear(p), HandedGrows,
           \A a \in Activations : acts[a] # None => acts[a].at # "call",
           gen' \in Nat, gen <= gen', ~Mounted' \/ gen < gen',
           committed' \in {committed, None}
    PROVE  Activity'
<1>1. ASSUME NEW a \in Activations, acts'[a] # None PROVE ActAt(a)'
  <2>1. ActAt(a) /\ ActHears(acts'[a], acts[a], p) /\ acts[a] # None /\ active' = active
    BY <1>1 DEF CoordInv, Activity, ActsHear
  <2>2. acts[a] \in Acts /\ acts[a].gen \in Nat /\ gen \in Nat
    BY <2>1, ActFields DEF CoordInv, TaskTypes
  <2>3. acts'[a].gen = acts[a].gen /\ acts[a].gen <= gen
    BY <2>1 DEF ActHears, SameAct, ActAt
  <2>4. acts'[a].gen <= gen' /\ (gen < gen' => acts'[a].gen # gen')
    BY <2>2, <2>3
  <2>5. ~(Mounted' /\ active' = a /\ acts'[a].gen = gen') /\ ~IsCurrent(a)'
    BY <2>4 DEF IsCurrent
  <2>6. Owned(acts[a].claim)' => Owned(acts[a].claim) /\ acts[a].claim # p
    BY <2>1, OwnedIsClaimed, CoordinatorConstants DEF ActAt, ActHears, SameAct, HandedGrows, CoordInv
  <2>7. /\ acts'[a].claim # None => acts'[a].claim = acts'[a].source /\ acts'[a].claim \in Handed'
        /\ acts'[a].on \in {None, acts'[a].claim}
        /\ acts'[a].at # "terminal" => acts'[a].on = None
        /\ acts'[a].at = "terminal" =>
              acts'[a].out # None /\ (Owned(acts[a].claim)' => acts'[a].on = acts'[a].claim)
        /\ acts'[a].claim # None /\ acts'[a].claim = committed' => active' = a
        /\ acts'[a].at # "call"
    BY <2>1, <2>6 DEF ActAt, ActHears, SameAct, Hears, HandedGrows
  <2> QED BY <2>4, <2>5, <2>7 DEF ActAt
<1>2. active' # None => acts'[active'] # None
  BY DEF ActsHear, CoordInv, Activity, TaskTypes
<1> QED BY <1>1, <1>2 DEF Activity

LEMMA ExtractionHolds ==
    ASSUME CoordInv, NEW p, p \notin Claimed', VisionHears(p), HandedGrows, gen' \in Nat, gen <= gen'
    PROVE  Extraction'
<1>1. ASSUME vision' # None
      PROVE  /\ vision'.gen <= gen' /\ vision'.claim \in Handed'
             /\ vision'.on \in {None, vision'.claim}
             /\ vision'.at # "clean" => vision'.on = None
             /\ vision'.at = "clean" /\ Owned(vision.claim)' => vision'.on = vision'.claim
  <2>1. vision # None /\ vision \in Extractions /\ ExtractionHears(vision', vision, p)
    BY <1>1 DEF VisionHears, CoordInv, TaskTypes
  <2>2. vision.gen \in Nat /\ gen \in Nat /\ vision.gen <= gen /\ vision'.gen = vision.gen
    BY <2>1, ExtractionFields DEF CoordInv, TaskTypes, Extraction, ExtractionHears, SameExtraction
  <2>3. vision'.gen <= gen'
    BY <2>2
  <2>4. Owned(vision.claim)' => Owned(vision.claim) /\ vision.claim # p
    BY <2>1, OwnedIsClaimed DEF HandedGrows, CoordInv, Extraction, ExtractionHears, SameExtraction
  <2> QED
    BY <2>1, <2>3, <2>4 DEF CoordInv, Extraction, ExtractionHears, SameExtraction, Hears, HandedGrows
<1> QED BY <1>1 DEF Extraction

\* The mutations, by a step that leaves their chain alone.
LEMMA MutationHolds ==
    ASSUME NEW m \in Mutations, NEW n \in Mutations, NEW p, p \notin Claimed',
           MutationAt(m)', ~Commits(m), SameMutation(n, m),
           n.at = m.at, n.todo = m.todo, n.used = m.used, n.end = m.end, Hears(n.on, m.on, p)
    PROVE  MutationAt(n)'
<1>1. \A x : Owned(x)' => x # p
  BY OwnedIsClaimed
<1>2. Requested(n)' /\ (Busy(n)' <=> Busy(m)')
  BY DEF MutationAt, Requested, SameMutation, Busy
<1>3. n.at = "end" => Concluded(n)'
  BY <1>1, <1>2 DEF MutationAt, Concluded, SameMutation, Hears, Commits
<1>4. /\ n.at \in {"queued", "verify"} => n.on = None
      /\ n.used => ~Owned(n.claim)'
      /\ n.at = "previous" /\ Owned(n.claim)' => n.on = n.claim
      /\ n.at = "verify" => n.kind = "selecting" /\ n.next \in Pdfs /\ ~Owned(n.claim)'
      /\ n.kind = "resetting" /\ n.at = "others" /\ Owned(n.claim)'
            => n.claim \in ToSet(n.todo) \/ n.on = n.claim
  BY <1>1 DEF MutationAt, SameMutation, Hears
<1>5. /\ n.kind = "selecting" /\ n.at \notin {"queued", "end"} /\ Busy(n)' => app'.readiness = "ready"
      /\ Busy(n)' =>
           /\ active' \in {n.act, None} /\ (n.at # "queued" => active' = None)
           /\ vision' # None => n.vision /\ n.at = "queued"
           /\ committed' \in {n.claim, None}
           /\ app'.mutation # "extracting"
  BY <1>2 DEF MutationAt, SameMutation
<1> QED BY <1>2, <1>3, <1>4, <1>5 DEF MutationAt

\* The mutations, where none is about to commit.
LEMMA ChainHolds ==
    ASSUME CoordInv, NEW p, p \notin Claimed', MutationsHear(p), HandedGrows,
           \A m \in Mutations : m.gen <= gen => BusyStays(m),
           \A i \in DOMAIN queue : ~Commits(queue[i])
    PROVE  \A i \in DOMAIN queue : i \in DOMAIN queue' /\ MutationAt(queue[i])'
<1>1. ASSUME NEW i \in DOMAIN queue PROVE i \in DOMAIN queue' /\ MutationAt(queue[i])'
  <2>1. PICK m \in Mutations : m = queue[i]
    BY DEF CoordInv, TaskTypes
  <2>2. PICK n \in Mutations : n = queue'[i]
    BY DEF MutationsHear
  <2>3. MutationAt(m) /\ FreshAt(m) /\ ~Commits(m) /\ m.gen <= gen
    BY <2>1 DEF CoordInv, Chain, Fresh, Order
  <2>4. i \in DOMAIN queue' /\ SameMutation(n, m)
        /\ n.at = m.at /\ n.todo = m.todo /\ n.used = m.used /\ n.end = m.end /\ Hears(n.on, m.on, p)
    BY <2>1, <2>2 DEF MutationsHear
  <2>5. MutationAt(m)'
    BY <2>3, MutationKept
  <2>6. MutationAt(n)'
    BY <2>3, <2>4, <2>5, MutationHolds
  <2> QED BY <2>2, <2>4, <2>6
<1> QED BY <1>1

LEMMA QueueHolds ==
    ASSUME CoordInv, NEW p, p \notin Claimed', MutationsHear(p), ActsHear(p), HandedGrows,
           queue' \in Seq(Mutations), DOMAIN queue' = DOMAIN queue,
           gen' \in Nat, gen <= gen', committed' \in {committed, None},
           \A m \in Mutations : m.gen <= gen => BusyStays(m),
           \A i \in DOMAIN queue : ~Commits(queue[i]),
           \A q \in Pdfs : pick[q] = "selected" => pick'[q] = "selected"
    PROVE  Chain' /\ Order' /\ Fresh'
<1>1. Chain'
  BY ChainHolds DEF Chain
<1>2. ASSUME NEW i \in DOMAIN queue, queue'[i].kind = "selecting", queue'[i].next \in Pdfs
      PROVE  /\ committed' # queue'[i].next
             /\ \A a \in Activations : acts'[a] # None => acts'[a].claim # queue'[i].next
             /\ pick'[queue'[i].next] = "selected"
  <2>1. queue[i].kind = "selecting" /\ queue[i].next = queue'[i].next
    BY <1>2 DEF MutationsHear, SameMutation
  <2>2. FreshAt(queue[i])
    BY DEF CoordInv, Fresh
  <2>3. \A a \in Activations : acts'[a] # None => acts[a] # None /\ acts'[a].claim = acts[a].claim
    BY DEF ActsHear, ActHears, SameAct
  <2> QED BY <1>2, <2>1, <2>2, <2>3, CoordinatorConstants DEF FreshAt
<1>3. Fresh'
  BY <1>2 DEF Fresh, FreshAt
<1>4. Order'
  <2>1. \A i \in DOMAIN queue : queue'[i].at = queue[i].at /\ queue'[i].gen = queue[i].gen
    BY DEF MutationsHear, SameMutation
  <2>2. ASSUME NEW i \in DOMAIN queue PROVE queue'[i].gen <= gen'
    <3>1. queue[i] \in Mutations /\ queue[i].gen <= gen /\ gen \in Nat
      BY DEF CoordInv, TaskTypes, Order
    <3>2. queue[i].gen \in Nat
      BY <3>1, MutationFields
    <3> QED BY <2>1, <3>1, <3>2
  <2> QED BY <2>1, <2>2 DEF CoordInv, Order
<1> QED BY <1>1, <1>3, <1>4

LEMMA NoneFree ==
    CopyTypes' => None \notin Claimed' /\ None \notin running' /\ Claimed' \subseteq Pdfs
BY CoordinatorConstants DEF CopyTypes, Claimed, ToSet

-----------------------------------------------------------------------------
(* Events beside the tasks                                                 *)

\* A step beside the tasks: what is shown changes in its status only, a pick
\* goes on, an analysis may be told to stop.
Aside ==
    /\ app' \in Apps /\ app'.readiness = app.readiness /\ app'.source = app.source
    /\ app'.mutation = app.mutation /\ app'.status \in {app.status, "failed"}
    /\ acts' = acts \/ acts' = AbortActive(acts)
    /\ pick' \in [Pdfs -> Picks] /\ Handed' = Handed /\ \A p \in Handed : pick'[p] = pick[p]
    /\ disk' \subseteq Pdfs \cup {Leftover} /\ leased' \subseteq disk' \cap Pdfs
    /\ Claimed \cup Staged' \subseteq leased'
    /\ disk' \ (Claimed \cup Staged') \subseteq disk \ (Claimed \cup Staged)
    /\ recoveries' = recoveries \/ epochs # 0
    /\ UNCHANGED <<gen, active, vision, queue, disposal, claims, committed, cleanup,
                   owed, epochs, fence, sweeps, starting, requireLocalPdfReview>>

LEMMA AsideKeeps == ASSUME CoordInv, Quiet, Aside PROVE CoordInv'
<1>1. UNCHANGED <<gen, active, vision, queue, disposal, claims, committed, running, port,
                  owed, epochs, fence, sweeps, starting, requireLocalPdfReview>>
  BY DEF Aside, cleanup
<1>2. Handed' = Handed /\ Claimed' = Claimed /\ HandedGrows /\ Mounted' = Mounted /\ gen \in Nat
  BY <1>1, ClaimedArePdfs DEF Aside, Claimed, HandedGrows, CoordInv, Mounted, TaskTypes
<1>3. ActsHear(None) /\ VisionHears(None) /\ MutationsHear(None) /\ Hears(disposal'.on, disposal.on, None)
  BY <1>1, AbortedActs, CancelledVision, QueueHearsNothing, HearsNothing DEF Aside
<1>4. Leftover \in disk' => Leftover \in disk
  BY CoordinatorConstants, ClaimedArePdfs DEF Aside, Staged, CoordInv
<1>5. TaskTypes' /\ CopyTypes' /\ SweepTypes' /\ Leases'
  <2>1. TaskTypes' /\ CopyTypes'
    BY <1>1, <1>3 DEF CoordInv, TaskTypes, CopyTypes, Aside, ActsHear
  <2>2. SweepTypes'
    BY <1>1, <1>2 DEF CoordInv, SweepTypes, Aside
  <2>3. Leases'
    BY <1>1, <1>2 DEF CoordInv, Leases, Aside
  <2> QED BY <2>1, <2>2, <2>3
<1>6. None \notin Claimed' /\ None \notin running'
  BY <1>5, NoneFree
<1>7. \A q \in Pdfs : /\ pick[q] = "discarded" => pick'[q] = "discarded"
                      /\ pick[q] = "selected" => pick'[q] = "selected"
  BY DEF Aside, Handed
<1>8. Waits'
  BY <1>1, <1>3, <1>6, <1>7, WaitsHold
<1>9. Ending' /\ Owners' /\ Answers' /\ RegistryCalls'
  BY <1>1, <1>2 DEF CoordInv, Ending, Owners, ToCommit, Answers, Exact, RegistryCalls
<1>10. Privacy'
  <2>1. owed = 0 => disk' \subseteq Claimed' \cup Staged' \cup {Leftover}
    BY <1>2 DEF CoordInv, Privacy, Aside
  <2> QED BY <2>1, <1>1, <1>2, <1>4 DEF CoordInv, Privacy, Aside
<1>11. Chain' /\ Order' /\ Fresh'
  <2>1. \A m \in Mutations : BusyStays(m)
    BY <1>1, <1>2 DEF BusyStays, Busy, Aside
  <2>2. \A i \in DOMAIN queue : ~Commits(queue[i])
    BY QuietFacts
  <2>3. queue' \in Seq(Mutations) /\ DOMAIN queue' = DOMAIN queue /\ gen' \in Nat /\ gen <= gen'
    BY <1>1, <1>2 DEF CoordInv, TaskTypes
  <2> QED BY <2>1, <2>2, <2>3, <1>1, <1>2, <1>3, <1>6, <1>7, QueueHolds
<1>12. Activity' /\ Extraction'
  BY <1>1, <1>2, <1>3, <1>6, ActivityHolds, ExtractionHolds DEF Aside
<1>13. Extracting'
  BY <1>1, <1>2 DEF CoordInv, Extracting, Aside
<1>14. Progress'
  <2>1. Mounted /\ app'.status = "analyzing" => active # None /\ IsCurrent(active)
    BY DEF CoordInv, Progress, Aside
  <2>2. active # None => active \in Activations /\ acts'[active].gen = acts[active].gen
    BY <1>3 DEF CoordInv, TaskTypes, Activity, ActsHear, ActHears, SameAct
  <2>3. active # None /\ IsCurrent(active) => IsCurrent(active)'
    BY <2>2, <1>1, <1>2 DEF IsCurrent, Aside
  <2> QED BY <2>1, <2>3, <1>1, <1>2 DEF CoordInv, Progress, Aside, ReviewFirst
<1>15. Shown'
  <2>1. active # None => acts'[active].gen = acts[active].gen
    BY <1>3 DEF CoordInv, TaskTypes, Activity, ActsHear, ActHears, SameAct
  <2> QED BY <2>1, <1>1, <1>2 DEF CoordInv, Shown, Aside
<1> QED
  BY <1>5, <1>8, <1>9, <1>10, <1>11, <1>12, <1>13, <1>14, <1>15 DEF CoordInv

\* A picked PDF that nobody wants is deleted at once.
LEMMA DiscardedKeeps ==
    ASSUME CoordInv, Quiet, NEW p \in Pdfs, pick[p] = "staged", claims' = Append(claims, p),
           Picked(p, "discarded"), CleanupClaim(p),
           UNCHANGED <<app, gen, NoTask, committed, privacy, starting, files, requireLocalPdfReview>>
    PROVE  CoordInv'
<1>1. /\ UNCHANGED <<app, gen, active, acts, vision, queue, disposal, committed, owed, epochs, fence,
                     sweeps, recoveries, starting, disk, leased, requireLocalPdfReview>>
      /\ pick' = [pick EXCEPT ![p] = "discarded"]
  BY DEF NoTask, privacy, files, Picked
<1>2. /\ pick \in [Pdfs -> Picks] /\ p \notin Handed /\ p \notin Claimed /\ p \in Staged
  BY DEF CoordInv, CopyTypes, Handed, Leases, Staged
<1>3. /\ pick' \in [Pdfs -> Picks] /\ Handed' = Handed \cup {p} /\ Staged' = Staged \ {p}
      /\ \A q \in Pdfs : q # p => pick'[q] = pick[q]
  BY <1>1, <1>2 DEF Handed, Staged, Picks
<1>4. /\ claims' \in Seq(Pdfs) /\ IsInjective(claims') /\ Claimed' = Claimed \cup {p}
  <2>1. /\ claims' \in Seq(Pdfs) /\ DOMAIN claims' = DOMAIN claims \cup {Len(claims) + 1}
        /\ Len(claims) + 1 \notin DOMAIN claims
        /\ \A i \in DOMAIN claims : claims'[i] = claims[i]
        /\ claims'[Len(claims) + 1] = p
    BY DEF CoordInv, CopyTypes
  <2>2. IsInjective(claims) /\ \A i \in DOMAIN claims : claims[i] # p
    BY <1>2 DEF CoordInv, CopyTypes, Claimed, ToSet
  <2>3. IsInjective(claims')
    BY <2>1, <2>2 DEF IsInjective
  <2> QED BY <2>1, <2>3 DEF Claimed, ToSet
<1>5. HandedGrows /\ Mounted' = Mounted /\ gen \in Nat /\ p # None
  BY <1>1, <1>2, <1>3, <1>4, ClaimedArePdfs, CoordinatorConstants DEF HandedGrows, CoordInv, Mounted, TaskTypes
<1>6. Cleans(p)
  BY <1>3, <1>5 DEF Cleans
<1>7. /\ running' = running \cup {p} /\ running' \subseteq Pdfs /\ port' \in Seq(PortCalls)
      /\ Answers' /\ RegistryCalls'
  BY <1>1, <1>3, <1>5, <1>6, CleansKeep, CleansKeepCalls DEF CoordInv
<1>8. ActsHear(None) /\ VisionHears(None) /\ MutationsHear(None) /\ Hears(disposal'.on, disposal.on, None)
  BY <1>1, AbortedActs, CancelledVision, QueueHearsNothing, HearsNothing
<1>9. TaskTypes' /\ CopyTypes' /\ SweepTypes' /\ Leases'
  <2>1. TaskTypes' /\ CopyTypes' /\ SweepTypes'
    BY <1>1, <1>3, <1>4, <1>5, <1>7 DEF CoordInv, TaskTypes, CopyTypes, SweepTypes
  <2>2. committed # None => committed # p
    BY <1>2 DEF CoordInv, Leases
  <2>3. Leases'
    BY <1>1, <1>2, <1>3, <1>4, <2>2 DEF CoordInv, Leases, CopyTypes
  <2> QED BY <2>1, <2>3
<1>10. None \notin Claimed' /\ None \notin running'
  BY <1>9, NoneFree
<1>11. Waits'
  <2>1. ASSUME NEW q \in running' PROVE Waiter(q)'
    <3>1. CASE q = p
      BY <3>1, <1>1, <1>2 DEF Waiter
    <3>2. CASE q # p
      <4>1. Waiter(q) /\ q \in Pdfs
        BY <3>2, <1>7 DEF CoordInv, Waits, CopyTypes
      <4> QED BY <4>1, <3>2, <1>1, <1>3 DEF Waiter
    <3> QED BY <3>1, <3>2
  <2> QED BY <2>1 DEF Waits
<1>12. Ending' /\ Owners' /\ Privacy'
  <2>1. Ending' /\ Owners'
    BY <1>1, <1>3, <1>4, <1>7 DEF CoordInv, Ending, Owners, ToCommit
  <2>2. Privacy'
    BY <1>1, <1>2, <1>3, <1>4, <1>5, <1>7 DEF CoordInv, Privacy
  <2> QED BY <2>1, <2>2
<1>13. Chain' /\ Order' /\ Fresh'
  <2>1. \A m \in Mutations : BusyStays(m)
    BY <1>1, <1>5 DEF BusyStays, Busy
  <2>2. \A i \in DOMAIN queue : ~Commits(queue[i])
    BY QuietFacts
  <2>3. queue' \in Seq(Mutations) /\ DOMAIN queue' = DOMAIN queue /\ gen' \in Nat /\ gen <= gen'
    BY <1>1, <1>5 DEF CoordInv, TaskTypes
  <2>4. \A q \in Pdfs : pick[q] = "selected" => pick'[q] = "selected"
    BY <1>3 
  <2> QED BY <2>1, <2>2, <2>3, <2>4, <1>1, <1>5, <1>8, <1>10, QueueHolds
<1>14. Activity' /\ Extraction'
  <2>1. committed \in running' => committed \in running
    BY <1>2, <1>7, <1>5 DEF CoordInv, Leases
  <2> QED BY <2>1, <1>1, <1>5, <1>8, <1>10, ActivityHolds, ExtractionHolds
<1>15. Extracting' /\ Progress' /\ Shown'
  BY <1>1, <1>5 DEF CoordInv, Extracting, Progress, Shown, IsCurrent, ReviewFirst
<1> QED
  BY <1>7, <1>9, <1>11, <1>12, <1>13, <1>14, <1>15 DEF CoordInv

-----------------------------------------------------------------------------
(* Commands that start an activation or an extraction                      *)

\* Whatever no command but those of the tasks changes.
Others == <<claims, committed, running, port, owed, epochs, fence, sweeps, recoveries, starting,
            disk, leased, pick, requireLocalPdfReview>>

\* An analysis starts.
LEMMA StartKeeps ==
    ASSUME CoordInv, Quiet, Mounted, ~SomeActive, app.readiness = "ready", app.mutation = "none",
           app.source # None, ~ReviewFirst(app.source), NEW s \in {"read", "write"}, NewActivation(s),
           UNCHANGED <<app, gen, vision, queue, disposal, Others>>
    PROVE  CoordInv'
<1> DEFINE c == IF committed = app.source THEN committed ELSE None
           n == [gen |-> gen, source |-> app.source, claim |-> c, at |-> s, aborted |-> FALSE,
                 out |-> None, on |-> None, clean |-> TRUE]
<1>1. PICK a \in Activations : acts[a] = None /\ acts' = [acts EXCEPT ![a] = n] /\ active' = a
  BY DEF NewActivation
<1>2. /\ app \in Apps /\ gen \in Nat /\ acts \in [Activations -> Acts \cup {None}]
      /\ committed \in Pdfs \cup {None} /\ active \in Activations \cup {None}
      /\ app.source \in Sources
  BY AppFields DEF CoordInv, TaskTypes, CopyTypes
<1>3. committed # None => committed = app.source /\ committed \in Handed /\ pick[committed] = "selected"
                          /\ queue = <<>> /\ vision = None /\ (active # None => acts[active].gen = gen)
  BY DEF CoordInv, Shown, Leases
<1>4. c = committed /\ c \in Pdfs \cup {None}
  BY <1>2, <1>3
<1>5. /\ n \in Acts /\ n.gen = gen /\ n.source = app.source /\ n.claim = committed /\ n.at = s
      /\ n.aborted = FALSE /\ n.on = None
  <2> HIDE DEF c
  <2> QED BY <1>2, <1>4 DEF Acts
<1> HIDE DEF c, n
<1>6. /\ acts' \in [Activations -> Acts \cup {None}] /\ acts'[a] = n /\ n # None
      /\ \A b \in Activations \ {a} : acts'[b] = acts[b]
  BY <1>1, <1>2, <1>5, CoordinatorConstants
<1>7. committed # None => \A b \in Activations : acts[b] # None => acts[b].claim # committed
  <2>1. ASSUME committed # None, NEW b \in Activations, acts[b] # None, acts[b].claim = committed PROVE FALSE
    <3>1. ActAt(b)
      BY <2>1 DEF CoordInv, Activity
    <3>2. active = b /\ b # None
      BY <2>1, <3>1, CoordinatorConstants DEF ActAt
    <3> QED BY <1>3, <2>1, <3>2 DEF SomeActive, ActivationIsCurrent
  <2> QED BY <2>1
<1>8. committed # None => committed \notin running
  <2>1. committed # None /\ committed \in running => Waiter(committed)
    BY DEF CoordInv, Waits
  <2>2. disposal.on = None
    BY DEF CoordInv, Ending, Mounted
  <2>3. \A b \in Activations : acts[b] # None => acts[b].on \in {None, acts[b].claim}
    BY DEF CoordInv, Activity, ActAt
  <2> QED BY <2>1, <2>2, <2>3, <1>3, <1>7 DEF Waiter
<1>9. UNCHANGED <<app, gen, vision, queue, disposal, claims, committed, running, port, owed, epochs,
                  fence, sweeps, recoveries, starting, disk, leased, pick, requireLocalPdfReview>>
      /\ Mounted' /\ Handed' = Handed /\ Claimed' = Claimed
  BY DEF Others, Mounted, Handed, Claimed
<1>10. ActAt(a)'
  <2>1. /\ acts'[a].gen <= gen'
        /\ acts'[a].claim # None => acts'[a].claim = acts'[a].source /\ acts'[a].claim \in Handed'
        /\ acts'[a].on \in {None, acts'[a].claim}
        /\ acts'[a].at \notin {"terminal", "call"} /\ acts'[a].on = None
    BY <1>2, <1>3, <1>5, <1>6, <1>9
  <2>2. IsCurrent(a)' =>
          /\ app'.readiness = "ready" /\ acts'[a].source = app'.source
          /\ ~ReviewFirst(acts[a].source)'
          /\ committed' \in {acts'[a].claim, None}
          /\ acts'[a].at # "terminal" /\ acts'[a].claim # None =>
                committed' = acts'[a].claim /\ acts'[a].claim \notin running'
    BY <1>5, <1>6, <1>8, <1>9 DEF ReviewFirst
  <2> QED BY <1>1, <1>9, <2>1, <2>2 DEF ActAt
<1>11. ASSUME NEW b \in Activations \ {a}, acts'[b] # None PROVE ActAt(b)'
  <2>1. ActAt(b) /\ acts'[b] = acts[b] /\ acts[b].at # "call" /\ ~(active' = b)
    BY <1>1, <1>6, <1>11, QuietFacts DEF CoordInv, Activity
  <2>2. acts[b].claim # None => acts[b].claim # committed
    BY <1>7, <1>6, <1>11
  <2> QED BY <2>1, <2>2, <1>9 DEF ActAt, IsCurrent, Owned
<1>12. Activity'
  BY <1>1, <1>6, <1>10, <1>11 DEF Activity
<1>13. TaskTypes' /\ CopyTypes' /\ SweepTypes' /\ Leases' /\ Answers' /\ RegistryCalls'
  <2>1. TaskTypes'
    BY <1>1, <1>6, <1>9 DEF CoordInv, TaskTypes
  <2>2. CopyTypes' /\ SweepTypes'
    BY <1>9 DEF CoordInv, CopyTypes, SweepTypes, Mounted
  <2>3. Leases' /\ Answers' /\ RegistryCalls'
    BY <1>9 DEF CoordInv, Leases, Staged, Answers, Exact, RegistryCalls
  <2> QED BY <2>1, <2>2, <2>3
<1>14. Waits'
  <2>1. \A b \in Activations : acts[b] # None => acts'[b] = acts[b]
    BY <1>1, <1>6
  <2> QED BY <2>1, <1>9 DEF CoordInv, Waits, Waiter
<1>15. Ending' /\ Owners' /\ Privacy'
  BY <1>9 DEF CoordInv, Ending, Owners, ToCommit, Privacy, Mounted, Staged
<1>16. Chain' /\ Order' /\ Fresh'
  <2>1. ASSUME NEW i \in DOMAIN queue PROVE MutationAt(queue[i])' /\ FreshAt(queue[i])'
    <3>1. PICK m \in Mutations : m = queue[i]
      BY DEF CoordInv, TaskTypes
    <3>2. MutationAt(m) /\ FreshAt(m) /\ ~Commits(m)
      BY <3>1, QuietFacts DEF CoordInv, Chain, Fresh
    <3>3. BusyStays(m) /\ HandedGrows
      BY <1>9, ClaimedArePdfs DEF BusyStays, Busy, HandedGrows, CoordInv
    <3>4. MutationAt(m)'
      BY <3>2, <3>3, MutationKept
    <3>5. FreshAt(m)'
      BY <3>2, <1>5, <1>6, <1>9 DEF FreshAt
    <3> QED BY <3>1, <3>4, <3>5, <1>9
  <2> QED BY <2>1, <1>9 DEF CoordInv, Chain, Fresh, Order
<1>17. Extraction' /\ Extracting'
  BY <1>9 DEF CoordInv, Extraction, Extracting, Owned
<1>18. Progress' /\ Shown'
  BY <1>1, <1>2, <1>3, <1>5, <1>6, <1>9, CoordinatorConstants DEF CoordInv, Progress, Shown, IsCurrent, ReviewFirst
<1> QED
  BY <1>12, <1>13, <1>14, <1>15, <1>16, <1>17, <1>18 DEF CoordInv

\* The Vision extraction of the shown source starts.
LEMMA ExtractKeeps ==
    ASSUME CoordInv, Quiet, ExtractVisionDraft
    PROVE  CoordInv'
<1> DEFINE n == [gen |-> gen + 1, claim |-> committed, at |-> "before", aborted |-> FALSE, ok |-> FALSE,
                 on |-> None, clean |-> TRUE]
<1>1. /\ Mounted /\ app.readiness = "ready" /\ app.mutation = "none" /\ vision = None
      /\ committed = app.source /\ committed \in Pdfs /\ vision' = n /\ gen' = gen + 1
      /\ app' = MutationStarted("extracting")
      /\ UNCHANGED <<active, acts, queue, disposal>> /\ UNCHANGED Others
  BY DEF ExtractVisionDraft, Command, Supersede, Others, Unasked, own, privacy, files, cleanup
<1>2. /\ app \in Apps /\ gen \in Nat /\ queue = <<>> /\ committed \in Handed
  BY <1>1, CoordinatorConstants DEF CoordInv, TaskTypes, Shown, Leases
<1>3. /\ n \in Extractions /\ n.gen = gen + 1 /\ n.claim = committed /\ n.at = "before" /\ n.aborted = FALSE
      /\ n.on = None /\ n.clean = TRUE
  BY <1>1, <1>2 DEF Extractions
<1> HIDE DEF n
<1>4. Becomes(app', "idle", "ready", app.source, "extracting")
  BY <1>1, <1>2, StartedIs
<1>5. UNCHANGED <<active, acts, queue, disposal, claims, committed, running, port, owed, epochs,
                  fence, sweeps, recoveries, starting, disk, leased, pick, requireLocalPdfReview>>
      /\ Mounted' /\ Handed' = Handed /\ Claimed' = Claimed /\ HandedGrows
  BY <1>1, ClaimedArePdfs DEF Others, Mounted, Handed, Claimed, HandedGrows, CoordInv
<1>6. TaskTypes' /\ CopyTypes' /\ SweepTypes' /\ Leases' /\ Answers' /\ RegistryCalls'
  <2>1. TaskTypes' /\ CopyTypes' /\ SweepTypes'
    BY <1>1, <1>2, <1>3, <1>4, <1>5 DEF CoordInv, TaskTypes, CopyTypes, SweepTypes, Becomes
  <2>3. Leases' /\ Answers' /\ RegistryCalls'
    BY <1>5 DEF CoordInv, Leases, Staged, Answers, Exact, RegistryCalls
  <2> QED BY <2>1, <2>3
<1>7. Waits' /\ Ending' /\ Owners'
  BY <1>1, <1>5 DEF CoordInv, Waits, Waiter, Ending, Owners, ToCommit, Mounted
<1>8. Privacy'
  BY <1>1, <1>4, <1>5 DEF CoordInv, Privacy, Staged, Becomes
<1>9. Chain' /\ Order' /\ Fresh'
  BY <1>2, <1>5 DEF Chain, Order, Fresh
<1>10. Activity'
  <2>1. ActsHear(None) /\ None \notin Claimed'
    BY <1>5, <1>6, AbortedActs, NoneFree
  <2>2. \A a \in Activations : acts[a] # None => acts[a].at # "call"
    BY QuietFacts
  <2>3. gen' \in Nat /\ gen <= gen' /\ gen < gen'
    BY <1>1, <1>2
  <2> QED BY <2>1, <2>2, <2>3, <1>5, ActivityPast
<1>11. Extraction' /\ Extracting'
  BY <1>1, <1>2, <1>3, <1>5, CoordinatorConstants DEF Extraction, Extracting
<1>12. Progress' /\ Shown'
  BY <1>1, <1>4, <1>5 DEF Progress, Shown, Becomes
<1> QED
  BY <1>6, <1>7, <1>8, <1>9, <1>10, <1>11, <1>12 DEF CoordInv

-----------------------------------------------------------------------------
(* Commands that enqueue a mutation, and picks                             *)

\* A new place of the chain, and the PDF that comes with it if it is one.
LEMMA EnqueueKeeps ==
    ASSUME CoordInv, Quiet, Mounted, NEW k \in Kinds,
           NEW next \in Sources \cup {None, "declined", "cancelled"}, EnqueueMutation(k, next),
           k = "selecting" => next \in Sources \cup {None},
           k = "consent" => next \in {"declined", "cancelled"},
           IF next \in Pdfs
           THEN /\ k = "selecting" /\ app.readiness = "ready"
                /\ pick[next] = "staged" /\ pick' = [pick EXCEPT ![next] = "selected"]
                /\ claims' = Append(claims, next)
           ELSE /\ claims' = claims /\ pick' \in [Pdfs -> Picks] /\ Handed' = Handed
                /\ Staged' = Staged /\ \A q \in Handed : pick'[q] = pick[q],
           UNCHANGED <<committed, running, port, owed, epochs, fence, sweeps, recoveries, starting,
                       disk, leased, requireLocalPdfReview>>
    PROVE  CoordInv'
<1> DEFINE n == [kind |-> k, next |-> next, gen |-> gen + 1, act |-> active,
                 vision |-> vision # None, source |-> app.source,
                 claim |-> committed, asked |-> app.status = "consentRequired",
                 at |-> "queued", todo |-> <<>>, on |-> None, clean |-> TRUE,
                 used |-> FALSE, end |-> None]
           N == {next} \cap Pdfs
<1>1. /\ gen' = gen + 1 /\ acts' = AbortActive(acts) /\ vision' = CancelVision(vision)
      /\ app' = MutationStarted(k) /\ queue' = Append(queue, n) /\ active' = active /\ disposal' = disposal
  BY DEF EnqueueMutation, Supersede
<1>2. /\ app \in Apps /\ gen \in Nat /\ queue \in Seq(Mutations) /\ active \in Activations \cup {None}
      /\ committed \in Pdfs \cup {None} /\ app.source \in Sources \cup {None} /\ claims \in Seq(Pdfs)
      /\ pick \in [Pdfs -> Picks]
  BY AppFields DEF CoordInv, TaskTypes, CopyTypes
<1>3. /\ n \in Mutations /\ n.kind = k /\ n.next = next /\ n.gen = gen + 1 /\ n.act = active
      /\ n.vision = (vision # None) /\ n.source = app.source /\ n.claim = committed /\ n.at = "queued"
      /\ n.todo = <<>> /\ n.on = None /\ n.used = FALSE /\ n.end = None
  BY <1>2 DEF Mutations, Places
<1> HIDE DEF n
<1>4. Becomes(app', IF app.readiness = "blocked" THEN app.status ELSE "idle", app.readiness, app.source, k)
  BY <1>1, <1>2, StartedIs
<1>5. /\ queue' \in Seq(Mutations) /\ queue' # <<>> /\ Len(queue') = Len(queue) + 1
      /\ DOMAIN queue' = 1 .. Len(queue) + 1 /\ DOMAIN queue = 1 .. Len(queue) /\ Len(queue) \in Nat
      /\ \A i \in DOMAIN queue : queue'[i] = queue[i]
      /\ queue'[Len(queue) + 1] = n
  BY <1>1, <1>2, <1>3, QueueChanges, SMTT(20)
<1>6. /\ pick' \in [Pdfs -> Picks] /\ Handed' = Handed \cup N /\ Staged' = Staged \ N
      /\ \A q \in Handed : pick'[q] = pick[q]
      /\ next \in Pdfs => pick'[next] = "selected"
      /\ N \cap Handed = {} /\ N \subseteq Staged
  BY <1>2 DEF Handed, Staged, Picks
<1>7. claims' \in Seq(Pdfs) /\ IsInjective(claims') /\ Claimed' = Claimed \cup N
  <2>1. CASE next \notin Pdfs
    BY <2>1 DEF CoordInv, CopyTypes, Claimed
  <2>2. CASE next \in Pdfs
    <3>1. /\ claims' \in Seq(Pdfs) /\ DOMAIN claims' = DOMAIN claims \cup {Len(claims) + 1}
          /\ Len(claims) + 1 \notin DOMAIN claims
          /\ \A i \in DOMAIN claims : claims'[i] = claims[i]
          /\ claims'[Len(claims) + 1] = next
      BY <1>2, <2>2, SMTT(20)
    <3>2. IsInjective(claims) /\ next \notin Claimed /\ N = {next}
      BY <1>6, <2>2 DEF CoordInv, CopyTypes, Leases
    <3>3. \A i \in DOMAIN claims : claims[i] # next
      BY <3>2 DEF Claimed, ToSet
    <3>4. IsInjective(claims')
      BY <3>1, <3>2, <3>3 DEF IsInjective
    <3> QED BY <3>1, <3>2, <3>4 DEF Claimed, ToSet
  <2> QED BY <2>1, <2>2
<1> HIDE DEF N
<1>8. HandedGrows /\ Mounted' /\ \A p \in N : p = next /\ p \in Pdfs
  BY <1>1, <1>6, <1>7, ClaimedArePdfs DEF HandedGrows, CoordInv, Mounted, N
<1>9. ActsHear(None) /\ VisionHears(None) /\ Hears(disposal'.on, disposal.on, None)
  BY <1>1, AbortedActs, CancelledVision, HearsNothing
<1>10. MutationsHear(None)
  <2>1. \A i \in DOMAIN queue : i \in DOMAIN queue' /\ queue[i] \in Mutations
    BY <1>2, <1>5
  <2> QED BY <2>1, <1>5 DEF MutationsHear, SameMutation, Hears
<1>11. TaskTypes' /\ CopyTypes' /\ SweepTypes' /\ Leases'
  <2>1. TaskTypes'
    BY <1>1, <1>2, <1>4, <1>5, <1>9 DEF CoordInv, TaskTypes, ActsHear, VisionHears, Becomes
  <2>2. CopyTypes' /\ SweepTypes'
    BY <1>6, <1>7, <1>8 DEF CoordInv, CopyTypes, SweepTypes
  <2>3. Leases'
    BY <1>6, <1>7 DEF CoordInv, Leases
  <2> QED BY <2>1, <2>2, <2>3
<1>12. None \notin Claimed' /\ None \notin running'
  BY <1>11, NoneFree
<1>13. Waits' /\ Ending' /\ Owners'
  <2>1. \A q \in Pdfs : pick[q] = "discarded" => pick'[q] = "discarded"
    BY <1>6 DEF Handed
  <2>2. Waits'
    BY <2>1, <1>9, <1>10, <1>12, WaitsHold
  <2>3. Ending'
    BY <1>1, <1>6, <1>8 DEF CoordInv, Ending, Mounted
  <2>4. ASSUME NEW p \in Claimed' PROVE p \in running' \/ p = committed' \/ ToCommit(p)'
    <3>1. CASE p \in N
      <4>1. Len(queue) + 1 \in DOMAIN queue' /\ next \in Pdfs /\ p = next
        BY <1>5, <1>8, <3>1
      <4> QED BY <4>1, <1>3, <1>5 DEF ToCommit
    <3>2. CASE p \in Claimed
      <4>1. p \in running \/ p = committed \/ ToCommit(p)
        BY <3>2 DEF CoordInv, Owners
      <4>2. ToCommit(p) => ToCommit(p)'
        BY <1>10, <1>5 DEF ToCommit, MutationsHear
      <4> QED BY <4>1, <4>2
    <3> QED BY <3>1, <3>2, <1>7
  <2>5. Owners'
    BY <2>4, <1>8 DEF Owners, Mounted
  <2> QED BY <2>2, <2>3, <2>5
<1>14. Answers' /\ RegistryCalls'
  BY <1>6, <1>7 DEF CoordInv, Answers, Exact, RegistryCalls
<1>15. Privacy'
  <2>1. N # {} => app.readiness = "ready"
    BY <1>8
  <2> QED BY <2>1, <1>1, <1>4, <1>6, <1>7, <1>8 DEF CoordInv, Privacy, Becomes
<1>16. Chain'
  <2>1. \A m \in Mutations : m.gen <= gen => BusyStays(m)
    <3>1. ASSUME NEW m \in Mutations, m.gen <= gen PROVE ~Busy(m)'
      <4>1. m.gen \in Nat /\ m.gen # gen'
        BY <1>1, <1>2, <3>1, MutationFields
      <4> QED BY <4>1 DEF Busy
    <3> QED BY <3>1 DEF BusyStays
  <2>2. \A i \in DOMAIN queue : ~Commits(queue[i])
    BY QuietFacts
  <2>3. \A i \in DOMAIN queue : i \in DOMAIN queue' /\ MutationAt(queue[i])'
    BY <2>1, <2>2, <1>8, <1>10, <1>12, ChainHolds
  <2>4. PICK m \in Mutations : m = n
    BY <1>3
  <2>5. MutationAt(m)'
    <3>1. committed # None => app.source = committed /\ committed \in Handed
      BY DEF CoordInv, Shown, Leases
    <3>2. Requested(m)'
      BY <2>4, <3>1, <1>3, <1>6 DEF Requested, ToSet
    <3>3. vision' # None => vision # None
      BY <1>9 DEF VisionHears
    <3>4. Busy(m)' =>
            /\ active' \in {m.act, None} /\ (m.at # "queued" => active' = None)
            /\ vision' # None => m.vision /\ m.at = "queued"
            /\ committed' \in {m.claim, None}
            /\ app'.mutation # "extracting"
      BY <2>4, <3>3, <1>1, <1>2, <1>3, <1>4 DEF Becomes, Kinds
    <3> QED BY <2>4, <3>2, <3>4, <1>3 DEF MutationAt
  <2>6. PICK z : z = Len(queue) + 1
    OBVIOUS
  <2>7. MutationAt(queue[z])'
    BY <2>4, <2>5, <2>6, <1>5
  <2> QED BY <2>3, <2>6, <2>7, <1>5 DEF Chain
<1>17. Order'
  <2>1. \A i \in DOMAIN queue : queue[i].gen \in Nat /\ queue[i].gen <= gen
    BY <1>2, MutationFields DEF CoordInv, Order
  <2>2. \A i \in DOMAIN queue' : i \in DOMAIN queue \/ i = Len(queue) + 1
    BY <1>5
  <2>3. \A i \in DOMAIN queue' : i # 1 => queue'[i].at = "queued"
    BY <2>2, <1>3, <1>5 DEF CoordInv, Order
  <2>4. \A i \in DOMAIN queue' : queue'[i].gen <= gen'
    BY <2>1, <2>2, <1>1, <1>2, <1>3, <1>5
  <2>5. ASSUME NEW i \in DOMAIN queue', NEW j \in DOMAIN queue', i < j PROVE queue'[i].gen < queue'[j].gen
    <3>1. i \in DOMAIN queue
      BY <2>2, <2>5, <1>5
    <3>2. CASE j \in DOMAIN queue
      BY <3>1, <3>2, <2>5, <1>5 DEF CoordInv, Order
    <3>3. CASE j = Len(queue) + 1
      BY <3>1, <3>3, <2>1, <1>2, <1>3, <1>5
    <3> QED BY <3>2, <3>3, <2>2
  <2> QED BY <2>3, <2>4, <2>5 DEF Order
<1>18. Fresh'
  <2>0. \A a \in Activations : acts'[a] # None =>
           acts[a] # None /\ acts'[a].claim = acts[a].claim /\ (acts[a].claim # None => acts[a].claim \in Handed)
    BY <1>9 DEF ActsHear, ActHears, SameAct, CoordInv, Activity, ActAt
  <2>1. ASSUME NEW i \in DOMAIN queue, queue[i].kind = "selecting", queue[i].next \in Pdfs
        PROVE  /\ committed' # queue[i].next
               /\ \A a \in Activations : acts'[a] # None => acts'[a].claim # queue[i].next
               /\ pick'[queue[i].next] = "selected"
    <3>1. FreshAt(queue[i])
      BY DEF CoordInv, Fresh
    <3> QED BY <3>1, <2>0, <2>1, <1>6 DEF FreshAt, Handed
  <2>2. ASSUME next \in Pdfs
        PROVE  /\ committed' # next
               /\ \A a \in Activations : acts'[a] # None => acts'[a].claim # next
               /\ pick'[next] = "selected"
    <3>1. next \notin Handed /\ next # None
      BY <2>2, <1>6, CoordinatorConstants DEF N
    <3>2. committed # None => committed \in Handed
      BY DEF CoordInv, Leases
    <3> QED BY <3>1, <3>2, <2>0, <2>2, <1>6
  <2> QED BY <2>1, <2>2, <1>3, <1>5 DEF Fresh, FreshAt
<1>19. Activity' /\ Extraction'
  <2>1. \A a \in Activations : acts[a] # None => acts[a].at # "call"
    BY QuietFacts
  <2>2. gen' \in Nat /\ gen <= gen' /\ gen < gen'
    BY <1>1, <1>2
  <2> QED BY <2>1, <2>2, <1>8, <1>9, <1>12, ActivityPast, ExtractionHolds
<1>20. Extracting' /\ Progress' /\ Shown'
  <2>1. app.readiness = "blocked" => app.status \notin {"consentRequired", "analyzing"}
    BY DEF CoordInv, Progress
  <2>2. k \notin {"none", "extracting"} /\ Len(queue') \in DOMAIN queue'
    BY <1>5 DEF Kinds
  <2>3. Extracting'
    BY <2>2, <1>4 DEF Extracting, Becomes
  <2>4. queue'[Len(queue')].gen = gen'
    BY <1>1, <1>3, <1>5
  <2>5. Progress'
    BY <2>1, <2>4, <1>4, <1>5 DEF Progress, Becomes
  <2>6. Shown'
    BY <2>2, <1>4, <1>8 DEF CoordInv, Shown, Becomes
  <2> QED BY <2>3, <2>5, <2>6
<1> QED
  BY <1>11, <1>13, <1>14, <1>15, <1>16, <1>17, <1>18, <1>19, <1>20 DEF CoordInv

PickGoesOn ==
    /\ pick' \in [Pdfs -> Picks] /\ Handed' = Handed /\ Staged' = Staged
    /\ \A q \in Handed : pick'[q] = pick[q]

\* What no command changes.
BesideCommands == <<claims, committed, running, port, owed, epochs, fence, sweeps, starting, disk, leased,
           requireLocalPdfReview>>

LEMMA PickGoesOnIf ==
    ASSUME CoordInv, UNCHANGED pick \/ \E p \in Pdfs : pick[p] = "idle" /\ pick' = [pick EXCEPT ![p] = "open"]
    PROVE  PickGoesOn
<1>1. pick \in [Pdfs -> Picks]
  BY DEF CoordInv, CopyTypes
<1>2. CASE UNCHANGED pick
  BY <1>1, <1>2 DEF PickGoesOn, Handed, Staged
<1>3. ASSUME NEW p \in Pdfs, pick[p] = "idle", pick' = [pick EXCEPT ![p] = "open"] PROVE PickGoesOn
  BY <1>1, <1>3 DEF PickGoesOn, Handed, Staged, Picks
<1> QED BY <1>2, <1>3

LEMMA IdleKeeps ==
    ASSUME CoordInv, Quiet, PickGoesOn, acts' = acts \/ acts' = AbortActive(acts),
           recoveries' = recoveries \/ epochs # 0,
           UNCHANGED <<app, gen, active, vision, queue, disposal, BesideCommands>>
    PROVE  CoordInv'
<1>1. app \in Apps
  BY DEF CoordInv, TaskTypes
<1>2. /\ disk \subseteq Pdfs \cup {Leftover} /\ leased \subseteq disk \cap Pdfs
      /\ Claimed \cup Staged \subseteq leased
  BY DEF CoordInv, CopyTypes, Leases
<1>3. Aside
  BY <1>1, <1>2 DEF Aside, PickGoesOn, BesideCommands, cleanup
<1> QED BY <1>3, AsideKeeps

LEMMA QueuedKeeps ==
    ASSUME CoordInv, Quiet, Mounted, PickGoesOn, NEW k \in Kinds,
           NEW next \in {None, "text", "declined", "cancelled"}, EnqueueMutation(k, next),
           k = "selecting" => next \in {None, "text"},
           k = "consent" => next \in {"declined", "cancelled"},
           UNCHANGED <<recoveries, BesideCommands>>
    PROVE  CoordInv'
<1>1. next \notin Pdfs /\ next \in Sources \cup {None, "declined", "cancelled"}
      /\ (next \in {None, "text"} => next \in Sources \cup {None})
  BY CoordinatorConstants DEF Sources
<1> QED BY <1>1, EnqueueKeeps DEF PickGoesOn, BesideCommands

LEMMA CancelWorkKeeps ==
    ASSUME CoordInv, Quiet, Mounted, PickGoesOn, CancelWork, UNCHANGED <<recoveries, BesideCommands>>
    PROVE  CoordInv'
<1>1. CASE ResetCommand
  BY <1>1, QueuedKeeps DEF ResetCommand, Kinds
<1>2. CASE EnqueueMutation("consent", "cancelled")
  BY <1>2, QueuedKeeps DEF Kinds
<1>3. CASE acts' = AbortActive(acts) /\ UNCHANGED <<app, gen, active, vision, queue, disposal>>
  BY <1>3, IdleKeeps
<1>4. CASE UNCHANGED <<app, gen, NoTask>>
  BY <1>4, IdleKeeps DEF NoTask
<1> QED BY <1>1, <1>2, <1>3, <1>4 DEF CancelWork

LEMMA AnalyzeKeeps == ASSUME CoordInv, Quiet, Analyze PROVE CoordInv'
<1>1. /\ Mounted /\ ~SomeActive /\ app.readiness = "ready" /\ app.mutation = "none" /\ UNCHANGED Others
  BY DEF Analyze, Command, Others, Unasked, own, privacy, files, cleanup
<1>2. app \in Apps
  BY DEF CoordInv, TaskTypes
<1>3. CASE \/ app.cleanupPending \/ owed # 0 \/ app.source = None
           \/ ReviewFirst(app.source)
  <2> DEFINE pends == app.cleanupPending \/ owed # 0
             review == ~pends /\ app.source # None
  <2>1. app' = Failed(FALSE, review, pends) /\ UNCHANGED <<gen, NoTask>>
    BY <1>3 DEF Analyze
  <2>2. pends \in BOOLEAN /\ review \in BOOLEAN
    OBVIOUS
  <2> HIDE DEF pends, review
  <2>3. Becomes(app', "failed", app.readiness, app.source, "none")
    BY <1>2, <2>1, <2>2, FailedIs DEF Unless
  <2>4. UNCHANGED pick
    BY DEF Analyze
  <2>5. PickGoesOn
    BY <2>4, PickGoesOnIf
  <2>6. /\ disk \subseteq Pdfs \cup {Leftover} /\ leased \subseteq disk \cap Pdfs
        /\ Claimed \cup Staged \subseteq leased
    BY DEF CoordInv, CopyTypes, Leases
  <2>7. Aside
    BY <1>1, <2>1, <2>3, <2>5, <2>6 DEF Aside, Becomes, PickGoesOn, Others, NoTask, cleanup
  <2> QED BY <2>7, AsideKeeps
<1>4. CASE ~(\/ app.cleanupPending \/ owed # 0 \/ app.source = None
             \/ ReviewFirst(app.source))
  <2>1. NewActivation("read") /\ UNCHANGED <<app, gen, vision, queue, disposal>>
    BY <1>4 DEF Analyze
  <2> QED BY <2>1, <1>1, <1>4, StartKeeps
<1> QED BY <1>3, <1>4

LEMMA GrantKeeps == ASSUME CoordInv, Quiet, GrantConsent PROVE CoordInv'
<1>1. /\ Mounted /\ ~SomeActive /\ app.mutation = "none" /\ app.status = "consentRequired"
      /\ app.source # None /\ NewActivation("write")
      /\ UNCHANGED <<app, gen, vision, queue, disposal, Others>>
  BY DEF GrantConsent, Command, Others, Unasked, own, privacy, files, cleanup
<1>2. app.readiness = "ready" /\ ~ReviewFirst(app.source)
  BY <1>1 DEF CoordInv, Progress
<1> QED BY <1>1, <1>2, StartKeeps

\* One case for each command of the user.
LEMMA CommandKeeps == ASSUME CoordInv, Quiet, UserCommand PROVE CoordInv'
<1>1. ASSUME Unasked' = Unasked PROVE UNCHANGED <<recoveries, BesideCommands>>
  BY <1>1 DEF Unasked, own, privacy, files, cleanup, BesideCommands
<1>2. UNCHANGED pick => PickGoesOn
  BY PickGoesOnIf
<1>3. /\ "selecting" \in Kinds /\ "editing" \in Kinds /\ "consent" \in Kinds /\ "resetting" \in Kinds
  BY DEF Kinds
<1>4. ASSUME NEW next \in {"text", None}, Select(next) PROVE CoordInv'
  BY <1>1, <1>2, <1>3, <1>4, QueuedKeeps DEF Select, Command
<1>5. CASE RefusedCommand
  BY <1>1, <1>2, <1>5, IdleKeeps DEF RefusedCommand, NoTask
<1>6. CASE SetJobDescription
  BY <1>1, <1>2, <1>3, <1>6, QueuedKeeps DEF SetJobDescription, Command
<1>7. CASE CompleteVisionReview
  BY <1>1, <1>2, <1>3, <1>7, QueuedKeeps DEF CompleteVisionReview, Command
<1>8. CASE DeclineConsent
  BY <1>1, <1>2, <1>3, <1>8, QueuedKeeps DEF DeclineConsent, Command
<1>9. CASE Cancel
  BY <1>1, <1>2, <1>9, CancelWorkKeeps DEF Cancel, Command
<1>10. CASE CancelVisionExtraction
  BY <1>1, <1>2, <1>3, <1>10, QueuedKeeps DEF CancelVisionExtraction, ResetCommand, Command
<1>11. CASE Reset
  BY <1>1, <1>2, <1>3, <1>11, QueuedKeeps DEF Reset, ResetCommand, Command
<1>12. CASE HandleAppState
  <2>1. Mounted /\ PickGoesOn /\ UNCHANGED <<recoveries, BesideCommands>> /\ (ResetCommand \/ CancelWork)
    BY <1>1, <1>2, <1>12 DEF HandleAppState, Command
  <2> QED BY <2>1, <1>3, QueuedKeeps, CancelWorkKeeps DEF ResetCommand
<1>13. CASE RecoverPrivacyCleanup
  <2>1. /\ UNCHANGED <<app, gen, NoTask, BesideCommands, pick>> /\ owed # 0
    BY <1>13 DEF RecoverPrivacyCleanup, own, files, cleanup, BesideCommands
  <2>2. epochs # 0
    BY <2>1 DEF CoordInv, SweepTypes
  <2> QED BY <2>1, <2>2, <1>2, IdleKeeps DEF NoTask
<1>14. ASSUME NEW p \in Pdfs, BeginPdfPick(p) PROVE CoordInv'
  <2>1. /\ Mounted /\ PickGoesOn /\ UNCHANGED <<recoveries, BesideCommands>>
        /\ ResetCommand \/ UNCHANGED <<app, gen, NoTask>>
    BY <1>1, <1>14, PickGoesOnIf DEF BeginPdfPick, Command
  <2> QED BY <2>1, <1>3, QueuedKeeps, IdleKeeps DEF ResetCommand, NoTask
<1>15. CASE AbortPdfPick
  <2>1. /\ Mounted /\ PickGoesOn /\ UNCHANGED <<recoveries, BesideCommands>>
        /\ ResetCommand \/ UNCHANGED <<app, gen, NoTask>>
    BY <1>1, <1>2, <1>15 DEF AbortPdfPick, Command
  <2> QED BY <2>1, <1>3, QueuedKeeps, IdleKeeps DEF ResetCommand, NoTask
<1> QED
  BY <1>4, <1>5, <1>6, <1>7, <1>8, <1>9, <1>10, <1>11, <1>12, <1>13, <1>14, <1>15,
     AnalyzeKeeps, GrantKeeps, ExtractKeeps DEF UserCommand

LEMMA PdfStagedKeeps == ASSUME CoordInv, Quiet, NEW p \in Pdfs, PdfStaged(p) PROVE CoordInv'
<1>1. /\ UNCHANGED <<app, gen, active, acts, vision, queue, disposal, claims, committed, cleanup,
                     owed, epochs, fence, sweeps, recoveries, starting, requireLocalPdfReview>>
      /\ pick[p] = "open"
      /\ \/ /\ pick' = [pick EXCEPT ![p] = "staged"] /\ disk' = disk \cup {p} /\ leased' = leased \cup {p}
         \/ pick' = [pick EXCEPT ![p] = "waiting"] /\ UNCHANGED <<disk, leased>>
  BY DEF PdfStaged, Picked, NoTask, own, privacy, given, files, tokens
<1>2. /\ disk \subseteq Pdfs \cup {Leftover} /\ leased \subseteq disk \cap Pdfs /\ app \in Apps
      /\ Claimed \cup Staged \subseteq leased /\ pick \in [Pdfs -> Picks]
  BY DEF CoordInv, CopyTypes, Leases, TaskTypes
<1>3. /\ pick' \in [Pdfs -> Picks] /\ Handed' = Handed /\ \A q \in Handed : pick'[q] = pick[q]
      /\ \/ Staged' = Staged \cup {p} /\ disk' = disk \cup {p} /\ leased' = leased \cup {p}
         \/ Staged' = Staged /\ UNCHANGED <<disk, leased>>
  BY <1>1, <1>2 DEF Handed, Staged, Picks
<1>4. Aside
  BY <1>1, <1>2, <1>3 DEF Aside
<1> QED BY <1>4, AsideKeeps

LEMMA PdfPickEmptyKeeps == ASSUME CoordInv, Quiet, NEW p \in Pdfs, PdfPickEmpty(p) PROVE CoordInv'
<1>1. /\ UNCHANGED <<app, gen, active, acts, vision, queue, disposal, claims, committed, cleanup,
                     owed, epochs, fence, sweeps, recoveries, starting, requireLocalPdfReview>>
      /\ pick[p] \in {"open", "staged"} /\ pick' = [pick EXCEPT ![p] = "ended"]
      /\ disk' = disk \ {p} /\ leased' = leased \ {p}
  BY DEF PdfPickEmpty, Picked, NoTask, own, privacy, given
<1>2. /\ disk \subseteq Pdfs \cup {Leftover} /\ leased \subseteq disk \cap Pdfs /\ app \in Apps
      /\ Claimed \cup Staged \subseteq leased /\ pick \in [Pdfs -> Picks] /\ Claimed \subseteq Handed
  BY DEF CoordInv, CopyTypes, Leases, TaskTypes
<1>3. /\ pick' \in [Pdfs -> Picks] /\ Handed' = Handed /\ \A q \in Handed : pick'[q] = pick[q]
      /\ Staged' = Staged \ {p} /\ p \notin Handed
  BY <1>1, <1>2 DEF Handed, Staged, Picks
<1>4. Aside
  BY <1>1, <1>2, <1>3 DEF Aside
<1> QED BY <1>4, AsideKeeps

LEMMA PdfPickedKeeps == ASSUME CoordInv, Quiet, NEW p \in Pdfs, PdfPicked(p) PROVE CoordInv'
<1>1. CASE PdfPickIsCurrent(p)
  <2>1. /\ Mounted /\ app.readiness = "ready" /\ pick[p] = "staged" /\ claims' = Append(claims, p)
        /\ pick' = [pick EXCEPT ![p] = "selected"] /\ EnqueueMutation("selecting", p)
        /\ UNCHANGED <<committed, running, port, owed, epochs, fence, sweeps, recoveries, starting,
                       disk, leased, requireLocalPdfReview>>
    BY <1>1 DEF PdfPicked, PdfPickIsCurrent, Picked, cleanup, privacy, files, given
  <2>2. "selecting" \in Kinds /\ p \in Sources
    BY DEF Kinds, Sources
  <2> QED BY <2>1, <2>2, EnqueueKeeps
<1>2. CASE ~PdfPickIsCurrent(p)
  BY <1>2, DiscardedKeeps DEF PdfPicked, given
<1> QED BY <1>1, <1>2

-----------------------------------------------------------------------------
(* A cleanup ends (Settle): verified, or handed over to a sweep            *)

\* A task that is told how the cleanup of p ended is otherwise the same.
LEMMA ToldMutation ==
    ASSUME NEW m \in Mutations, NEW p \in Pdfs, NEW ok \in BOOLEAN, NEW n, n = Told(m, p, ok)
    PROVE  /\ n \in Mutations /\ SameMutation(n, m)
           /\ n.at = m.at /\ n.todo = m.todo /\ n.used = m.used /\ n.end = m.end
           /\ Hears(n.on, m.on, p)
<1>1. m # None /\ m.clean \in BOOLEAN
  BY CoordinatorConstants, MutationFields
<1>2. CASE m.on # p
  BY <1>1, <1>2 DEF Told, SameMutation, Hears
<1>3. CASE m.on = p
  <2> DEFINE v == m.clean /\ ok
  <2>1. n = [m EXCEPT !.on = None, !.clean = v] /\ v \in BOOLEAN
    BY <1>1, <1>3 DEF Told
  <2> HIDE DEF v
  <2>2. n \in Mutations
    BY <2>1 DEF Mutations
  <2>3. SameMutation(n, m) /\ n.at = m.at /\ n.todo = m.todo /\ n.used = m.used /\ n.end = m.end /\ n.on = None
    BY <2>1 DEF Mutations, SameMutation
  <2> QED BY <1>3, <2>2, <2>3 DEF Hears
<1> QED BY <1>2, <1>3

LEMMA ToldAct ==
    ASSUME NEW x \in Acts \cup {None}, NEW p \in Pdfs, NEW ok \in BOOLEAN, NEW n, n = Told(x, p, ok)
    PROVE  /\ n \in Acts \cup {None} /\ (n # None <=> x # None)
           /\ x # None => ActHears(n, x, p)
<1>0. None \notin Acts
  BY CoordinatorConstants
<1>1. CASE x = None \/ x.on # p
  BY <1>0, <1>1 DEF Told, ActHears, SameAct, Hears
<1>2. CASE x # None /\ x.on = p
  <2> DEFINE v == x.clean /\ ok
  <2>1. n = [x EXCEPT !.on = None, !.clean = v] /\ x \in Acts /\ x.clean \in BOOLEAN
    BY <1>2, ActFields DEF Told
  <2>2. v \in BOOLEAN
    BY <2>1
  <2> HIDE DEF v
  <2>3. n \in Acts
    BY <2>1, <2>2 DEF Acts
  <2>4. SameAct(n, x) /\ n.at = x.at /\ n.out = x.out /\ n.aborted = x.aborted /\ n.on = None
    BY <2>1 DEF Acts, SameAct
  <2> QED BY <1>0, <1>2, <2>3, <2>4 DEF ActHears, Hears
<1> QED BY <1>1, <1>2

LEMMA ToldExtraction ==
    ASSUME NEW x \in Extractions \cup {None}, NEW p \in Pdfs, NEW ok \in BOOLEAN, NEW n, n = Told(x, p, ok)
    PROVE  /\ n \in Extractions \cup {None} /\ (n # None <=> x # None)
           /\ x # None => /\ ExtractionHears(n, x, p) /\ n.aborted = x.aborted
                          /\ ok => n.clean = x.clean
<1>0. None \notin Extractions
  BY CoordinatorConstants
<1>1. CASE x = None \/ x.on # p
  BY <1>0, <1>1 DEF Told, ExtractionHears, SameExtraction, Hears
<1>2. CASE x # None /\ x.on = p
  <2> DEFINE v == x.clean /\ ok
  <2>1. n = [x EXCEPT !.on = None, !.clean = v] /\ x \in Extractions /\ x.clean \in BOOLEAN
    BY <1>2, ExtractionFields DEF Told
  <2>2. v \in BOOLEAN /\ (ok => v = x.clean)
    BY <2>1
  <2> HIDE DEF v
  <2>3. n \in Extractions
    BY <2>1, <2>2 DEF Extractions
  <2>4. SameExtraction(n, x) /\ n.at = x.at /\ n.aborted = x.aborted /\ n.on = None /\ n.clean = v
    BY <2>1 DEF Extractions, SameExtraction
  <2> QED BY <1>0, <1>2, <2>2, <2>3, <2>4 DEF ExtractionHears, Hears
<1> QED BY <1>1, <1>2

LEMMA ToldDisposal ==
    ASSUME NEW x \in Disposals, NEW p \in Pdfs, NEW ok \in BOOLEAN, NEW n, n = Told(x, p, ok)
    PROVE  /\ n \in Disposals /\ Hears(n.on, x.on, p)
           /\ n.at = x.at /\ n.todo = x.todo /\ n.readiness = x.readiness
<1>1. x # None /\ x.clean \in BOOLEAN
  BY CoordinatorConstants, DisposalFields
<1>2. CASE x.on # p
  BY <1>1, <1>2 DEF Told, Hears
<1>3. CASE x.on = p
  <2> DEFINE v == x.clean /\ ok
  <2>1. n = [x EXCEPT !.on = None, !.clean = v] /\ v \in BOOLEAN
    BY <1>1, <1>3 DEF Told
  <2> HIDE DEF v
  <2>2. n \in Disposals
    BY <2>1 DEF Disposals
  <2>3. n.at = x.at /\ n.todo = x.todo /\ n.readiness = x.readiness /\ n.on = None
    BY <2>1 DEF Disposals
  <2> QED BY <1>3, <2>2, <2>3 DEF Hears
<1> QED BY <1>2, <1>3

\* The claim that is given up.
LEMMA ClaimRetired ==
    ASSUME CopyTypes, NEW p, RetireClaim(p)
    PROVE  /\ claims' \in Seq(Pdfs) /\ IsInjective(claims') /\ Claimed' = Claimed \ {p}
           /\ committed' = IF committed = p THEN None ELSE committed
BY Retired DEF CopyTypes, RetireClaim, Claimed

LEMMA HearsTwice ==
    ASSUME NEW n, NEW y, NEW x, NEW p, ActHears(n, y, p), ActHears(y, x, None)
    PROVE  ActHears(n, x, p)
BY DEF ActHears, SameAct, Hears

\* Whoever waits for the cleanup is told.
LEMMA SettleTells ==
    ASSUME CoordInv, NEW p \in Pdfs, NEW ok \in BOOLEAN, NEW calls, Settle(p, ok, calls)
    PROVE  /\ MutationsHear(p) /\ ActsHear(p) /\ VisionHears(p)
           /\ queue' \in Seq(Mutations) /\ DOMAIN queue' = DOMAIN queue /\ Len(queue') = Len(queue)
           /\ queue' = <<>> <=> queue = <<>>
           /\ disposal' \in Disposals /\ Hears(disposal'.on, disposal.on, p)
           /\ disposal'.at = disposal.at /\ disposal'.todo = disposal.todo
           /\ disposal'.readiness = disposal.readiness
           /\ ok /\ vision # None => vision'.aborted = vision.aborted /\ vision'.clean = vision.clean
<1>1. /\ queue \in Seq(Mutations) /\ acts \in [Activations -> Acts \cup {None}]
      /\ vision \in Extractions \cup {None} /\ disposal \in Disposals /\ active \in Activations \cup {None}
  BY DEF CoordInv, TaskTypes
<1>2. /\ queue' = [i \in DOMAIN queue |-> Told(queue[i], p, ok)]
      /\ acts' = [a \in Activations |-> Told(Blocked(ok, acts)[a], p, ok)]
      /\ vision' = Told(Stopped(ok, vision), p, ok)
      /\ disposal' = Told(disposal, p, ok) /\ active' = active
  BY DEF Settle
<1>3. /\ queue' \in Seq(Mutations) /\ DOMAIN queue' = DOMAIN queue /\ Len(queue') = Len(queue)
      /\ queue' = <<>> <=> queue = <<>>
      /\ MutationsHear(p)
  <2>1. ASSUME NEW i \in DOMAIN queue
        PROVE  LET n == queue'[i]
                   m == queue[i]
               IN  /\ i \in DOMAIN queue' /\ SameMutation(n, m) /\ n \in Mutations
                   /\ n.at = m.at /\ n.todo = m.todo /\ n.used = m.used /\ n.end = m.end
                   /\ Hears(n.on, m.on, p)
    <3>1. queue[i] \in Mutations /\ queue'[i] = Told(queue[i], p, ok) /\ i \in DOMAIN queue'
      BY <1>1, <1>2
    <3> QED BY <3>1, ToldMutation
  <2>2. MutationsHear(p)
    BY <2>1 DEF MutationsHear
  <2>3. DOMAIN queue' = DOMAIN queue /\ queue' = [i \in DOMAIN queue |-> queue'[i]]
        /\ \A i \in DOMAIN queue : queue'[i] \in Mutations
    BY <1>2, <2>1
  <2> QED BY <1>1, <2>2, <2>3, QueueMapped
<1>4. ActsHear(p)
  <2> DEFINE f == Blocked(ok, acts)
  <2>1. f = acts \/ f = AbortActive(acts)
    BY DEF Blocked
  <2>2. /\ f \in [Activations -> Acts \cup {None}]
        /\ \A a \in Activations : f[a] # None <=> acts[a] # None
        /\ \A a \in Activations : acts[a] # None => ActHears(f[a], acts[a], None)
    <3>1. CASE f = acts
      BY <1>1, <3>1, CoordinatorConstants DEF ActHears, SameAct, Hears
    <3>2. CASE f = AbortActive(acts) /\ active = None
      BY <1>1, <3>2, CoordinatorConstants DEF ActHears, SameAct, Hears, AbortActive
    <3>3. CASE f = AbortActive(acts) /\ active # None
      <4> DEFINE n == [acts[active] EXCEPT !.aborted = TRUE]
      <4>1. f = [acts EXCEPT ![active] = n] /\ acts[active] \in Acts /\ active \in Activations
        BY <1>1, <3>3 DEF AbortActive, CoordInv, Activity
      <4>2. /\ n \in Acts /\ SameAct(n, acts[active])
            /\ n.at = acts[active].at /\ n.out = acts[active].out /\ n.on = acts[active].on
            /\ n.aborted = TRUE
        BY <4>1 DEF Acts, SameAct
      <4> HIDE DEF n, f
      <4>3. ActHears(n, acts[active], None) /\ n # None /\ acts[active] # None
        BY <4>1, <4>2, CoordinatorConstants DEF ActHears, Hears
      <4>4. f \in [Activations -> Acts \cup {None}] /\ f[active] = n
            /\ \A b \in Activations \ {active} : f[b] = acts[b]
        BY <1>1, <4>1, <4>2
      <4>5. \A b \in Activations \ {active} : acts[b] # None => ActHears(f[b], acts[b], None)
        BY <1>1, <4>4 DEF ActHears, Hears, SameAct
      <4> QED BY <4>3, <4>4, <4>5
    <3> QED BY <2>1, <3>1, <3>2, <3>3
  <2> HIDE DEF f
  <2>3. ASSUME NEW a \in Activations
        PROVE  /\ acts'[a] \in Acts \cup {None} /\ (acts'[a] # None <=> acts[a] # None)
               /\ acts[a] # None => ActHears(acts'[a], acts[a], p)
    <3>1. acts'[a] = Told(f[a], p, ok) /\ f[a] \in Acts \cup {None} /\ (f[a] # None <=> acts[a] # None)
      BY <1>2, <2>2 DEF f
    <3>2. /\ acts'[a] \in Acts \cup {None} /\ (acts'[a] # None <=> f[a] # None)
          /\ f[a] # None => ActHears(acts'[a], f[a], p)
      BY <3>1, ToldAct
    <3> QED BY <2>2, <3>1, <3>2, HearsTwice
  <2>4. acts' \in [Activations -> Acts \cup {None}]
    BY <1>2, <2>3
  <2> QED BY <1>2, <2>3, <2>4 DEF ActsHear
<1>5. VisionHears(p) /\ (ok /\ vision # None => vision'.aborted = vision.aborted /\ vision'.clean = vision.clean)
  <2> DEFINE v == Stopped(ok, vision)
  <2>1. /\ v \in Extractions \cup {None} /\ (v # None <=> vision # None)
        /\ vision # None => SameExtraction(v, vision) /\ v.at = vision.at /\ v.on = vision.on
        /\ ok => v = vision
    <3>1. CASE v = vision
      BY <1>1, <3>1 DEF SameExtraction
    <3>2. CASE v = [vision EXCEPT !.aborted = TRUE] /\ vision # None /\ ~ok
      <4>1. vision \in Extractions
        BY <1>1, <3>2
      <4>2. v \in Extractions /\ SameExtraction(v, vision) /\ v.at = vision.at /\ v.on = vision.on
        BY <3>2, <4>1 DEF Extractions, SameExtraction
      <4> QED BY <3>2, <4>2, CoordinatorConstants
    <3> QED BY <3>1, <3>2 DEF Stopped, CancelVision
  <2> HIDE DEF v
  <2>2. vision' = Told(v, p, ok)
    BY <1>2 DEF v
  <2>3. /\ vision' \in Extractions \cup {None} /\ (vision' # None <=> v # None)
        /\ v # None => /\ ExtractionHears(vision', v, p) /\ vision'.aborted = v.aborted
                       /\ ok => vision'.clean = v.clean
    BY <2>1, <2>2, ToldExtraction
  <2> QED BY <2>1, <2>3 DEF VisionHears, ExtractionHears, SameExtraction
<1>6. /\ disposal' \in Disposals /\ Hears(disposal'.on, disposal.on, p)
      /\ disposal'.at = disposal.at /\ disposal'.todo = disposal.todo
      /\ disposal'.readiness = disposal.readiness
  BY <1>1, <1>2, ToldDisposal
<1> QED BY <1>3, <1>4, <1>5, <1>6

\* The fence of a new obligation is the place of a call.
LEMMA FenceIs ==
    ASSUME NEW calls \in Seq(PortCalls), MarkAbandoned(calls)
    PROVE  fence' \in 0 .. Len(calls) /\ fence' \in Int
<1> DEFINE exact == {i \in DOMAIN calls : calls[i].kind = "exact"}
<1>1. exact \in SUBSET (1 .. Len(calls)) /\ Len(calls) \in Nat
  OBVIOUS
<1>2. fence' = IF exact = {} THEN 0 ELSE CHOOSE i \in exact : \A j \in exact : j <= i
  BY DEF MarkAbandoned
<1> HIDE DEF exact
<1>3. CASE exact = {}
  BY <1>1, <1>2, <1>3
<1>4. CASE exact # {}
  <2>1. \E i \in exact : \A j \in exact : j <= i
    BY <1>1, <1>4, Extremes
  <2>2. fence' \in exact
    BY <1>2, <1>4, <2>1
  <2> QED BY <1>1, <2>2
<1> QED BY <1>3, <1>4

\* What the end of a cleanup leaves of the screen and of the obligation.
Goes(p, ok) ==
    \/ /\ Mounted /\ ok
       /\ UNCHANGED <<app, gen, owed, epochs>>
    \/ /\ Mounted /\ ~ok
       /\ Becomes(app', "failed", "blocked", Unless(app.source = p, app.source), "none")
       /\ gen' = gen + 1 /\ epochs' = epochs + 1 /\ owed' = epochs'
    \/ /\ ~Mounted /\ gen' = gen
       /\ (ok /\ UNCHANGED <<owed, epochs>>) \/ (~ok /\ epochs' = epochs + 1 /\ owed' = epochs')
       /\ \/ ok /\ app' = app
          \/ /\ app' \in Apps /\ app'.status \in {"failed", "idle"} /\ app'.mutation = "none"
             /\ app'.readiness = IF owed' # 0 THEN "blocked" ELSE disposal.readiness

LEMMA SettleGoes ==
    ASSUME CoordInv, NEW p \in Pdfs, NEW ok \in BOOLEAN, NEW calls, Settle(p, ok, calls)
    PROVE  Goes(p, ok)
<1>1. app \in Apps /\ disposal \in Disposals /\ gen \in Nat /\ epochs \in Nat
  BY DEF CoordInv, TaskTypes, SweepTypes
<1>2. CASE ok
  <2>1. /\ app' = IF ~Mounted /\ pick[p] = "discarded" THEN DisposedApp(owed) ELSE app
        /\ UNCHANGED <<gen, owed, epochs>>
    BY <1>2 DEF Settle, tokens
  <2> QED BY <1>1, <1>2, <2>1, DisposedAppIs DEF Goes
<1>3. CASE ~ok
  <2>1. epochs' = epochs + 1 /\ owed' = epochs + 1 /\ BlockPrivacy(app.source = p)
    BY <1>3 DEF Settle, MarkAbandoned
  <2>2. CASE Mounted
    <3>1. gen' = gen + 1 /\ app' = PrivacyBlocked(app.source = p)
      BY <2>1, <2>2 DEF BlockPrivacy, Supersede
    <3>2. (app.source = p) \in BOOLEAN
      OBVIOUS
    <3>3. Becomes(app', "failed", "blocked", Unless(app.source = p, app.source), "none")
      BY <1>1, <3>1, <3>2, PrivacyBlockedIs
    <3> QED BY <1>3, <2>1, <2>2, <3>1, <3>3 DEF Goes
  <2>3. CASE ~Mounted
    <3>1. app' = DisposedApp(epochs + 1) /\ gen' = gen
      BY <2>1, <2>3 DEF BlockPrivacy, tokens
    <3> QED BY <1>1, <1>3, <2>1, <2>3, <3>1, DisposedAppIs DEF Goes
  <2> QED BY <2>2, <2>3
<1> QED BY <1>2, <1>3

\* The end of the cleanup of p, whatever it is.
LEMMA SettleKeeps ==
    ASSUME CoordInv, Quiet, NEW p \in Pdfs, p \in running, NEW ok \in BOOLEAN, NEW calls,
           Settle(p, ok, calls),
           port' \in Seq(PortCalls), Answers', RegistryCalls',
           pick' \in [Pdfs -> Picks], Handed' = Handed, \A q \in Handed : pick'[q] = pick[q],
           disk' \subseteq Pdfs \cup {Leftover}, leased' \subseteq disk' \cap Pdfs,
           (Claimed \ {p}) \cup Staged' \subseteq leased',
           ok => disk' \ Staged' \subseteq disk \ ({p} \cup Staged),
           sweeps' \in Seq(Sweeps),
           \A i \in DOMAIN sweeps' : i \in DOMAIN sweeps /\ sweeps'[i].shown = sweeps[i].shown,
           UNCHANGED <<recoveries, starting, requireLocalPdfReview>>
    PROVE  CoordInv'
<1>1. /\ running' = running \ {p} /\ active' = active /\ port' = calls
      /\ claims' \in Seq(Pdfs) /\ IsInjective(claims') /\ Claimed' = Claimed \ {p}
      /\ committed' = IF committed = p THEN None ELSE committed
  BY ClaimRetired DEF CoordInv, Settle
<1>2. /\ MutationsHear(p) /\ ActsHear(p) /\ VisionHears(p)
      /\ queue' \in Seq(Mutations) /\ DOMAIN queue' = DOMAIN queue /\ Len(queue') = Len(queue)
      /\ queue' = <<>> <=> queue = <<>>
      /\ disposal' \in Disposals /\ Hears(disposal'.on, disposal.on, p)
      /\ disposal'.at = disposal.at /\ disposal'.todo = disposal.todo
      /\ disposal'.readiness = disposal.readiness
      /\ ok /\ vision # None => vision'.aborted = vision.aborted /\ vision'.clean = vision.clean
  BY SettleTells
<1>3. Goes(p, ok)
  BY SettleGoes
<1>4. /\ gen \in Nat /\ app \in Apps /\ epochs \in Nat /\ owed \in {0, epochs}
      /\ committed \in Pdfs \cup {None} /\ None \notin Pdfs /\ p # None
  BY CoordinatorConstants DEF CoordInv, TaskTypes, SweepTypes, CopyTypes
<1>5. /\ Mounted' = Mounted /\ HandedGrows /\ p \notin Claimed' /\ p \notin running'
      /\ gen' \in Nat /\ gen <= gen' /\ committed' \in {committed, None}
  BY <1>1, <1>2, <1>3, <1>4, ClaimedArePdfs DEF Mounted, HandedGrows, CoordInv, Goes
<1>6. epochs' \in Nat /\ owed' \in {0, epochs'} /\ (epochs # 0 => epochs' # 0) /\ app' \in Apps
      /\ (owed' = 0 => ok /\ epochs' = epochs /\ owed = 0)
  BY <1>3, <1>4 DEF Goes, Becomes
<1>7. \A q \in Pdfs : /\ pick[q] = "discarded" => pick'[q] = "discarded"
                      /\ pick[q] = "selected" => pick'[q] = "selected"
  BY DEF Handed
<1>8. TaskTypes' /\ CopyTypes' /\ SweepTypes' /\ Leases'
  <2>1. TaskTypes'
    BY <1>1, <1>2, <1>5, <1>6 DEF CoordInv, TaskTypes, ActsHear, VisionHears
  <2>2. CopyTypes'
    BY <1>1, <1>4 DEF CoordInv, CopyTypes
  <2>3. fence' \in Int
    <3>1. CASE ok
      BY <3>1 DEF Settle, Fewer, CoordInv, SweepTypes
    <3>2. CASE ~ok
      BY <1>1, <3>2, FenceIs DEF Settle
    <3> QED BY <3>1, <3>2
  <2>4. SweepTypes'
    BY <1>5, <1>6, <2>3 DEF CoordInv, SweepTypes
  <2>5. Leases'
    <3>1. committed' # None => committed' = committed /\ committed # p
      BY <1>1
    <3> QED BY <1>1, <3>1 DEF CoordInv, Leases
  <2> QED BY <2>1, <2>2, <2>4, <2>5
<1>9. Waits'
  BY <1>1, <1>2, <1>5, <1>7, WaitsHold
<1>10. Ending'
  <2>1. vision' # None => vision # None
    BY <1>2 DEF VisionHears
  <2>2. disposal'.on = None \/ disposal'.on = disposal.on
    BY <1>2 DEF Hears
  <2> QED BY <2>1, <2>2, <1>1, <1>2 DEF CoordInv, Ending
<1>11. Owners'
  <2>1. \A q : ToCommit(q) => ToCommit(q)'
    BY <1>2 DEF ToCommit, MutationsHear, SameMutation
  <2> QED BY <2>1, <1>1, <1>2 DEF CoordInv, Owners
<1>12. Privacy'
  <2>1. app'.readiness # "blocked" => owed' = 0
    BY <1>3, <1>4 DEF Goes, Becomes, CoordInv, Privacy
  <2>2. owed' = 0 => disk' \subseteq Claimed' \cup Staged' \cup {Leftover}
    BY <1>1, <1>6 DEF CoordInv, Privacy
  <2>3. owed' = 0 /\ Leftover \in disk' =>
          epochs' = 0 /\ app'.readiness # "ready" /\ (Mounted' \/ disposal'.readiness # "ready")
    <3>1. owed' = 0 /\ Leftover \in disk' => Leftover \in disk
      BY <1>6, CoordinatorConstants DEF Staged
    <3>2. owed' = 0 /\ app' # app => ~Mounted /\ app'.readiness = disposal.readiness
      BY <1>3, <1>4, <1>6 DEF Goes
    <3> QED BY <3>1, <3>2, <1>2, <1>5, <1>6 DEF CoordInv, Privacy
  <2>4. Mounted' /\ owed' = 0 => app' = app
    BY <1>3, <1>5, <1>6 DEF Goes
  <2>5. Mounted' /\ app'.readiness = "checking" => app' = app
    BY <1>3, <1>5 DEF Goes, Becomes
  <2> QED BY <2>1, <2>2, <2>3, <2>4, <2>5, <1>1, <1>5, <1>6 DEF CoordInv, Privacy
<1>13. Chain' /\ Order' /\ Fresh'
  <2>1. \A m \in Mutations : m.gen <= gen => BusyStays(m)
    <3>1. vision' # None => vision # None
      BY <1>2 DEF VisionHears
    <3>2. ASSUME NEW m \in Mutations, Busy(m)' PROVE Busy(m) /\ app' = app
      BY <1>3, <1>5, <3>2 DEF Busy, Goes, Becomes
    <3> QED BY <3>1, <3>2, <1>1, <1>5 DEF BusyStays
  <2>2. \A i \in DOMAIN queue : ~Commits(queue[i])
    BY QuietFacts
  <2> QED BY <2>1, <2>2, <1>2, <1>5, <1>7, QueueHolds
<1>14. Activity'
  <2>1. CASE Mounted /\ ok
    <3>1. UNCHANGED <<app, gen>>
      BY <1>3, <2>1 DEF Goes
    <3> QED BY <3>1, <1>1, <1>2, <1>5, ActivityHolds
  <2>2. CASE ~(Mounted /\ ok)
    <3>1. ~Mounted' \/ gen < gen'
      BY <1>3, <1>4, <1>5, <2>2 DEF Goes
    <3>2. \A a \in Activations : acts[a] # None => acts[a].at # "call"
      BY QuietFacts
    <3> QED BY <3>1, <3>2, <1>2, <1>5, ActivityPast
  <2> QED BY <2>1, <2>2
<1>15. Extraction'
  BY <1>2, <1>5, ExtractionHolds
<1>16. active # None => active \in Activations /\ acts[active] # None /\ acts'[active].gen = acts[active].gen
  BY <1>2 DEF CoordInv, TaskTypes, Activity, ActsHear, ActHears, SameAct
<1>17. CASE Mounted /\ ok
  <2>1. UNCHANGED <<app, gen>>
    BY <1>3, <1>17 DEF Goes
  <2>2. \A i \in DOMAIN queue : queue'[i].gen = queue[i].gen
    BY <1>2 DEF MutationsHear, SameMutation
  <2>3. Extracting'
    <3>1. vision # None => vision' # None /\ vision'.gen = vision.gen /\ vision'.claim = vision.claim
      BY <1>2 DEF VisionHears, ExtractionHears, SameExtraction
    <3> QED BY <3>1, <2>1, <2>2, <1>2, <1>5, <1>17 DEF CoordInv, Extracting
  <2>4. Progress'
    <3>1. queue # <<>> => Len(queue) \in DOMAIN queue
      <4>1. queue \in Seq(Mutations)
        BY DEF CoordInv, TaskTypes
      <4> QED BY <4>1, QueueEnds
    <3>2. active # None /\ IsCurrent(active) => IsCurrent(active)'
      BY <1>1, <1>5, <1>16, <2>1 DEF IsCurrent
    <3> QED BY <3>1, <3>2, <2>1, <2>2, <1>1, <1>2, <1>5 DEF CoordInv, Progress, ReviewFirst
  <2>5. Shown'
    <3>1. vision' # None => vision # None
      BY <1>2 DEF VisionHears
    <3>2. committed' # None => committed' = committed
      BY <1>1
    <3> QED BY <3>1, <3>2, <2>1, <1>1, <1>2, <1>5, <1>16 DEF CoordInv, Shown
  <2> QED BY <2>3, <2>4, <2>5, <1>8, <1>9, <1>10, <1>11, <1>12, <1>13, <1>14, <1>15 DEF CoordInv
<1>18. CASE Mounted /\ ~ok
  <2>1. Becomes(app', "failed", "blocked", Unless(app.source = p, app.source), "none")
    BY <1>3, <1>18 DEF Goes
  <2>2. committed' # None => committed' = committed /\ committed # p /\ app.source = committed
    BY <1>1, <1>18 DEF CoordInv, Shown
  <2>3. committed' # None => app'.source = committed'
    BY <2>1, <2>2 DEF Becomes, Unless
  <2>4. Extracting' /\ Progress' /\ Shown'
    BY <2>1, <2>3, <1>5 DEF Extracting, Progress, Shown, Becomes
  <2> QED BY <2>4, <1>8, <1>9, <1>10, <1>11, <1>12, <1>13, <1>14, <1>15 DEF CoordInv
<1>19. CASE ~Mounted
  <2>1. app' = app \/ app'.status \in {"failed", "idle"}
    BY <1>3, <1>19 DEF Goes
  <2>2. Extracting' /\ Progress' /\ Shown'
    BY <2>1, <1>5, <1>19 DEF CoordInv, Extracting, Progress, Shown, ReviewFirst
  <2> QED BY <2>2, <1>8, <1>9, <1>10, <1>11, <1>12, <1>13, <1>14, <1>15 DEF CoordInv
<1> QED BY <1>17, <1>18, <1>19

\* What the registry's answers and the sweeps change of the screen.
Reported ==
    \/ app' = app
    \/ /\ Mounted /\ app.readiness = "checking"
       /\ Becomes(app', app.status, "ready", app.source, app.mutation)
    \/ /\ Mounted /\ app.readiness = "checking"
       /\ Becomes(app', "failed", "blocked", app.source, "none")
    \/ /\ Mounted /\ app.readiness = "blocked" /\ committed = None
       /\ Becomes(app', StatusOf(app.source), "ready", app.source, "none")
    \/ ~Mounted /\ app' \in Apps /\ app'.status \in {"failed", "idle"} /\ app'.mutation = "none"

\* A step of the registry or of a sweep ends no cleanup that a task waits for.
LEMMA RegistryKeeps ==
    ASSUME CoordInv, Reported,
           port' \in Seq(PortCalls), Answers', RegistryCalls', SweepTypes', Privacy',
           pick' \in [Pdfs -> Picks], Handed' = Handed, \A q \in Handed : pick'[q] = pick[q],
           disk' \subseteq Pdfs \cup {Leftover}, leased' \subseteq disk' \cap Pdfs,
           Claimed \cup Staged' \subseteq leased',
           UNCHANGED <<gen, active, acts, vision, queue, disposal, claims, committed, running, epochs,
                       requireLocalPdfReview>>
    PROVE  CoordInv'
<1>1. app \in Apps /\ gen \in Nat /\ StatusOf(app.source) \in {"idle", "ready"}
  BY DEF CoordInv, TaskTypes, StatusOf
<1>2. app' \in Apps
  BY <1>1 DEF Reported, Becomes
<1>3. HandedGrows /\ Mounted' = Mounted /\ Claimed' = Claimed
  BY ClaimedArePdfs DEF HandedGrows, CoordInv, Mounted, Claimed
<1>4. TaskTypes' /\ CopyTypes' /\ Leases'
  <2>1. TaskTypes'
    BY <1>2 DEF CoordInv, TaskTypes
  <2>2. CopyTypes'
    BY DEF CoordInv, CopyTypes
  <2>3. Leases'
    BY <1>3 DEF CoordInv, Leases
  <2> QED BY <2>1, <2>2, <2>3
<1>5. Waits' /\ Ending' /\ Owners'
  <2>1. \A q \in Pdfs : pick[q] = "discarded" => pick'[q] = "discarded"
    BY DEF Handed
  <2>2. \A q \in Pdfs : Waiter(q) => Waiter(q)'
    BY <2>1 DEF Waiter
  <2>3. Waits'
    BY <2>2 DEF CoordInv, Waits, CopyTypes
  <2>4. Ending' /\ Owners'
    BY <1>3 DEF CoordInv, Ending, Owners, ToCommit
  <2> QED BY <2>3, <2>4
<1>6. \A a \in Activations : acts[a] # None => ActAt(a)
  BY DEF CoordInv, Activity
<1>7. \A i \in DOMAIN queue : queue[i] \in Mutations /\ MutationAt(queue[i])
  BY DEF CoordInv, Chain, TaskTypes
<1>8. Fresh' /\ Extraction'
  <2>1. \A q \in Pdfs : pick[q] = "selected" => pick'[q] = "selected"
    BY DEF Handed
  <2>2. Fresh'
    BY <2>1 DEF CoordInv, Fresh, FreshAt
  <2>3. Extraction'
    BY DEF CoordInv, Extraction, Owned
  <2> QED BY <2>2, <2>3
<1>9. ASSUME \A m \in Mutations : BusyStays(m),
             app' = app \/ ~Mounted \/ app.readiness # "ready"
      PROVE  Chain' /\ Order'
  <2>1. ASSUME NEW i \in DOMAIN queue, Commits(queue[i])
        PROVE  claims' = claims /\ Busy(queue[i])' /\ app'.readiness = "ready"
    <3>1. Busy(queue[i]) /\ app.readiness = "ready"
      BY <2>1, <1>7 DEF MutationAt, Concluded, Commits
    <3> QED BY <3>1, <1>3, <1>9 DEF Busy
  <2> QED BY <2>1, <1>1, <1>3, <1>9, ChainStays
<1>10. ASSUME \A a \in Activations : acts[a] # None => ~IsCurrent(a) /\ ~IsCurrent(a)',
              Mounted /\ active # None /\ acts[active].gen = gen => app'.mutation = "none"
       PROVE  Activity'
  <2>1. ASSUME NEW a \in Activations, acts[a] # None PROVE ActAt(a)'
    <3>1. ActAt(a)
      BY <2>1, <1>6
    <3>2. active = a => active # None
      BY CoordinatorConstants
    <3> QED BY <2>1, <3>1, <3>2, <1>3, <1>10 DEF ActAt, Owned
  <2> QED BY <2>1 DEF CoordInv, Activity
<1>11. CASE app' = app
  <2>1. Activity'
    <3>1. ASSUME NEW a \in Activations, acts[a] # None PROVE ActAt(a)'
      BY <3>1, <1>3, <1>6, <1>11 DEF ActAt, IsCurrent, Owned, ReviewFirst
    <3> QED BY <3>1 DEF CoordInv, Activity
  <2>2. Chain' /\ Order'
    <3>1. \A m \in Mutations : BusyStays(m)
      BY <1>3, <1>11 DEF BusyStays, Busy
    <3> QED BY <3>1, <1>9, <1>11
  <2>3. Extracting' /\ Progress' /\ Shown'
    BY <1>3, <1>11 DEF CoordInv, Extracting, Progress, Shown, IsCurrent, ReviewFirst
  <2> QED BY <2>1, <2>2, <2>3, <1>4, <1>5, <1>8 DEF CoordInv
<1>12. CASE Mounted /\ app.readiness \in {"checking", "blocked"} /\ app' # app
  <2>1. \A a \in Activations : acts[a] # None => ~IsCurrent(a)
    BY <1>6, <1>12 DEF ActAt
  <2>2. app'.mutation \in {app.mutation, "none"}
    BY <1>12 DEF Reported, Becomes
  <2>3. Mounted /\ active # None /\ acts[active].gen = gen => app.mutation = "none" /\ app'.mutation = "none"
    BY <2>2, <1>6 DEF ActAt, CoordInv, Activity, TaskTypes
  <2>4. \A a \in Activations : acts[a] # None => ~IsCurrent(a)'
    BY <2>1, <1>3, <1>6, <1>12 DEF IsCurrent, ActAt
  <2>5. Activity'
    BY <2>1, <2>3, <2>4, <1>10
  <2>6. Chain' /\ Order'
    <3>1. \A m \in Mutations : BusyStays(m)
      BY <1>3, <1>12 DEF BusyStays, Busy, Reported, Becomes
    <3> QED BY <3>1, <1>9, <1>12
  <2>7. app.status \notin {"consentRequired", "analyzing"}
    BY <1>12 DEF CoordInv, Progress
  <2>8. app'.status \notin {"consentRequired", "analyzing"} /\ app'.source = app.source
    BY <2>7, <1>1, <1>12 DEF Reported, Becomes
  <2>9. app'.mutation # "none" => app.mutation = app'.mutation /\ app.readiness # "blocked"
    BY <2>2, <1>12 DEF Reported, Becomes
  <2>10. Extracting' /\ Progress'
    BY <2>8, <2>9, <1>3, <1>12 DEF CoordInv, Extracting, Progress
  <2>11. app'.readiness = "ready" => committed = None
    BY <1>12 DEF CoordInv, Privacy, Reported, Becomes
  <2>12. Shown'
    BY <2>8, <2>11, <1>3 DEF CoordInv, Shown
  <2> QED BY <2>5, <2>6, <2>10, <2>12, <1>4, <1>5, <1>8 DEF CoordInv
<1>13. CASE ~Mounted /\ app' # app
  <2>1. app'.status \in {"failed", "idle"} /\ app'.mutation = "none"
    BY <1>13 DEF Reported
  <2>2. Activity'
    BY <1>3, <1>10, <1>13 DEF IsCurrent
  <2>3. Chain' /\ Order'
    <3>1. \A m \in Mutations : BusyStays(m)
      BY <1>3, <1>13 DEF BusyStays, Busy
    <3> QED BY <3>1, <1>9, <1>13
  <2>4. Extracting' /\ Progress' /\ Shown'
    BY <2>1, <1>3, <1>13 DEF Extracting, Progress, Shown
  <2> QED BY <2>2, <2>3, <2>4, <1>4, <1>5, <1>8 DEF CoordInv
<1> QED BY <1>11, <1>12, <1>13 DEF Reported

-----------------------------------------------------------------------------
(* The registry answers, or the deadline passes: exact cleanups            *)

LEMMA FewerIs == \A n \in Int : Fewer(n) \in Int
BY DEF Fewer

\* The sweeps after a call: their fences only.
LEMMA SweepsShift ==
    ASSUME sweeps \in Seq(Sweeps), NEW s, s = SweepsAfterCall
    PROVE  /\ s \in Seq(Sweeps) /\ DOMAIN s = DOMAIN sweeps /\ Len(s) = Len(sweeps)
           /\ s = <<>> <=> sweeps = <<>>
           /\ \A i \in DOMAIN sweeps : s[i].shown = sweeps[i].shown /\ s[i].at = sweeps[i].at
<1>1. /\ DOMAIN s = DOMAIN sweeps /\ s = [i \in DOMAIN sweeps |-> s[i]]
      /\ \A i \in DOMAIN sweeps : s[i] = [sweeps[i] EXCEPT !.fence = Fewer(@)]
  BY DEF SweepsAfterCall
<1>2. ASSUME NEW i \in DOMAIN sweeps
      PROVE  s[i] \in Sweeps /\ s[i].shown = sweeps[i].shown /\ s[i].at = sweeps[i].at
  <2>1. PICK x \in Sweeps : x = sweeps[i]
    OBVIOUS
  <2>2. x.fence \in Int
    BY DEF Sweeps
  <2>3. PICK v \in Int : v = Fewer(x.fence)
    BY <2>2, FewerIs
  <2>4. s[i] = [x EXCEPT !.fence = v]
    BY <1>1, <2>1, <2>3
  <2>5. s[i] \in Sweeps /\ s[i].shown = x.shown /\ s[i].at = x.at
    BY <2>4 DEF Sweeps
  <2> QED BY <2>1, <2>5
<1> QED BY <1>1, <1>2, QueueMapped

\* The call at the head of the port is over.
LEMMA PortAdvances ==
    ASSUME CoordInv, port # <<>>, port' = Tail(port), Claimed' \subseteq Claimed, Handed' = Handed,
           running' = running \/ (Exact(1) /\ ~port[1].late /\ running' = running \ {port[1].pdf})
    PROVE  /\ port' \in Seq(PortCalls) /\ Answers'
           /\ \A i \in DOMAIN port' : i + 1 \in DOMAIN port /\ i + 1 # 1 /\ port'[i] = port[i + 1]
           /\ Head(port) = port[1] /\ 1 \in DOMAIN port /\ port[1] \in PortCalls
<1>1. port \in Seq(PortCalls) /\ Answers
  BY DEF CoordInv, CopyTypes
<1>2. /\ port' \in Seq(PortCalls) /\ Head(port) = port[1] /\ 1 \in DOMAIN port /\ port[1] \in PortCalls
      /\ \A i \in DOMAIN port' : i \in Int /\ i + 1 \in DOMAIN port /\ i + 1 # 1 /\ port'[i] = port[i + 1]
  BY <1>1, QueueEnds
<1>3. ASSUME NEW i \in DOMAIN port', Exact(i)'
      PROVE  /\ port'[i].pdf \in Handed'
             /\ IF port'[i].late THEN port'[i].pdf \notin Claimed' ELSE port'[i].pdf \in running'
  <2>1. PICK k \in DOMAIN port : k = i + 1 /\ k # 1 /\ port'[i] = port[k]
    BY <1>2
  <2>2. Exact(k)
    BY <2>1, <1>3 DEF Exact
  <2>3. CASE port[k].late
    BY <2>1, <2>2, <2>3, <1>1 DEF Answers
  <2>4. CASE ~port[k].late
    <3>1. port[k].pdf \in running
      BY <2>2, <2>4, <1>1 DEF Answers
    <3>2. Exact(1) /\ ~port[1].late => port[k].pdf # port[1].pdf
      BY <2>1, <2>2, <2>4, <1>1, <1>2 DEF Answers
    <3> QED BY <2>1, <2>2, <2>4, <3>1, <3>2, <1>1 DEF Answers
  <2> QED BY <2>3, <2>4
<1>4. ASSUME NEW i \in DOMAIN port', NEW j \in DOMAIN port', Exact(i)', Exact(j)',
             ~port'[i].late, ~port'[j].late, port'[i].pdf = port'[j].pdf
      PROVE  i = j
  <2>1. PICK k \in DOMAIN port : k = i + 1 /\ port'[i] = port[k]
    BY <1>2
  <2>2. PICK l \in DOMAIN port : l = j + 1 /\ port'[j] = port[l]
    BY <1>2
  <2>3. Exact(k) /\ Exact(l)
    BY <2>1, <2>2, <1>4 DEF Exact
  <2>4. k = l
    BY <2>1, <2>2, <2>3, <1>4, <1>1 DEF Answers
  <2> QED BY <2>1, <2>2, <2>4, <1>2
<1> QED BY <1>2, <1>3, <1>4 DEF Answers

\* The copies of the picked PDFs behind the call are made.
LEMMA BehindStaged ==
    ASSUME CoordInv, NEW kind, Answered(kind)
    PROVE  /\ pick' \in [Pdfs -> Picks] /\ Handed' = Handed /\ \A q \in Handed : pick'[q] = pick[q]
           /\ Staged' = Staged \cup Behind /\ Behind \subseteq Pdfs
           /\ port # <<>> /\ Head(port).kind = kind /\ requireLocalPdfReview' = requireLocalPdfReview
<1>1. pick \in [Pdfs -> Picks] /\ pick' = [p \in Pdfs |-> IF p \in Behind THEN "staged" ELSE pick[p]]
  BY DEF CoordInv, CopyTypes, Answered
<1>2. Behind = {p \in Pdfs : pick[p] = "waiting"}
  BY DEF Behind
<1>3. /\ pick' \in [Pdfs -> Picks]
      /\ \A q \in Pdfs : pick'[q] = IF q \in Behind THEN "staged" ELSE pick[q]
  BY <1>1, <1>2 DEF Picks
<1>4. Handed' = Handed /\ \A q \in Handed : pick'[q] = pick[q]
  BY <1>2, <1>3 DEF Handed
<1>5. Staged' = Staged \cup Behind
  BY <1>2, <1>3 DEF Staged
<1> QED BY <1>2, <1>3, <1>4, <1>5 DEF Answered, given

LEMMA ExactAnsweredKeeps == ASSUME CoordInv, Quiet, ExactAnswered PROVE CoordInv'
<1> DEFINE p == Head(port).pdf
<1>1. /\ pick' \in [Pdfs -> Picks] /\ Handed' = Handed /\ \A q \in Handed : pick'[q] = pick[q]
      /\ Staged' = Staged \cup Behind /\ Behind \subseteq Pdfs
      /\ port # <<>> /\ Head(port).kind = "exact" /\ requireLocalPdfReview' = requireLocalPdfReview
  BY BehindStaged DEF ExactAnswered
<1>2. PICK ok \in BOOLEAN :
        /\ ok => p \in leased
        /\ disk' = Behind \cup (IF ok THEN disk \ {p} ELSE disk)
        /\ leased' = Behind \cup (leased \ {p})
        /\ IF Head(port).late
           THEN /\ port' = Tail(port)
                /\ fence' = Fewer(fence)
                /\ UNCHANGED <<app, tokens, tasks, own, running, owed, epochs>>
           ELSE Settle(p, ok, Tail(port))
  BY DEF ExactAnswered
<1>3. sweeps' = SweepsAfterCall /\ UNCHANGED <<recoveries, starting>> /\ sweeps \in Seq(Sweeps)
  BY DEF ExactAnswered, CoordInv, SweepTypes
<1>4. /\ sweeps' \in Seq(Sweeps) /\ DOMAIN sweeps' = DOMAIN sweeps
      /\ sweeps' = <<>> <=> sweeps = <<>>
      /\ \A i \in DOMAIN sweeps : sweeps'[i].shown = sweeps[i].shown /\ sweeps'[i].at = sweeps[i].at
      /\ sweeps # <<>> => 1 \in DOMAIN sweeps
  BY <1>3, SweepsShift, QueueEnds
<1>5. /\ port \in Seq(PortCalls) /\ disk \subseteq Pdfs \cup {Leftover} /\ leased \subseteq disk \cap Pdfs
      /\ Claimed \cup Staged \subseteq leased
  BY DEF CoordInv, CopyTypes, Leases
<1>6. Head(port) = port[1] /\ 1 \in DOMAIN port /\ port[1] \in PortCalls /\ Exact(1)
  BY <1>1, <1>5, QueueEnds DEF Exact
<1>7. /\ p \in Handed /\ p \in Pdfs /\ p \notin Staged
      /\ IF port[1].late THEN p \notin Claimed ELSE p \in running
  BY <1>6 DEF CoordInv, Answers, Handed, Staged
<1> HIDE DEF p
<1>8. port' = Tail(port)
  BY <1>2 DEF Settle
<1>9. Claimed' = (IF port[1].late THEN Claimed ELSE Claimed \ {p})
      /\ running' = IF port[1].late THEN running ELSE running \ {p}
  <2>1. CASE port[1].late
    BY <1>2, <1>6, <2>1 DEF own, Claimed
  <2>2. CASE ~port[1].late
    BY <1>2, <1>6, <2>2, ClaimRetired DEF Settle, CoordInv
  <2> QED BY <2>1, <2>2
<1>10. /\ port' \in Seq(PortCalls) /\ Answers'
       /\ \A i \in DOMAIN port' : i + 1 \in DOMAIN port /\ i + 1 # 1 /\ port'[i] = port[i + 1]
  BY <1>1, <1>6, <1>8, <1>9, PortAdvances DEF p
<1>11. RegistryCalls'
  <2>1. ~starting
    BY <1>6 DEF CoordInv, RegistryCalls, Exact
  <2>2. ASSUME NEW i \in DOMAIN port', port'[i].kind = "sweep", ~port'[i].late
        PROVE  /\ sweeps' # <<>> /\ sweeps'[1].at = "port"
               /\ \A j \in DOMAIN port' : port'[j].kind = "sweep" /\ ~port'[j].late => i = j
    <3>1. PICK k \in DOMAIN port : k = i + 1 /\ port'[i] = port[k]
      BY <1>10
    <3>2. sweeps # <<>> /\ sweeps[1].at = "port"
          /\ \A j \in DOMAIN port : port[j].kind = "sweep" /\ ~port[j].late => k = j
      BY <2>2, <3>1 DEF CoordInv, RegistryCalls
    <3>3. ASSUME NEW j \in DOMAIN port', port'[j].kind = "sweep", ~port'[j].late PROVE i = j
      <4>1. j + 1 = k /\ i \in Int /\ j \in Int
        BY <1>10, <3>2, <3>3
      <4> QED BY <3>1, <4>1
    <3> QED BY <1>4, <3>2, <3>3
  <2> QED BY <2>1, <2>2, <1>3 DEF RegistryCalls
<1>12. /\ disk' \subseteq Pdfs \cup {Leftover} /\ leased' \subseteq disk' \cap Pdfs
       /\ Staged' \subseteq leased' /\ Claimed \ {p} \subseteq leased'
       /\ disk' \ Staged' \subseteq disk \ Staged
       /\ ok => disk' \ Staged' \subseteq disk \ ({p} \cup Staged)
  BY <1>1, <1>2, <1>5, <1>7
<1>13. CASE ~port[1].late
  <2>1. Settle(p, ok, Tail(port)) /\ p \in running
    BY <1>2, <1>6, <1>7, <1>13
  <2> QED BY <2>1, <1>1, <1>3, <1>4, <1>7, <1>10, <1>11, <1>12, SettleKeeps
<1>14. CASE port[1].late
  <2>1. /\ UNCHANGED <<app, gen, active, acts, vision, queue, disposal, claims, committed, running,
                       owed, epochs>>
        /\ fence' = Fewer(fence) /\ Claimed \subseteq leased' /\ Claimed' = Claimed /\ Mounted' = Mounted
    BY <1>2, <1>6, <1>7, <1>9, <1>12, <1>14 DEF tokens, tasks, own, Mounted
  <2>2. SweepTypes'
    BY <2>1, <1>3, <1>4, FewerIs DEF CoordInv, SweepTypes
  <2>3. Leftover \in disk' => Leftover \in disk
    BY <1>1, <1>12, CoordinatorConstants DEF Staged
  <2>4. Privacy'
    BY <2>1, <2>3, <1>3, <1>12 DEF CoordInv, Privacy
  <2> QED BY <2>1, <2>2, <2>4, <1>1, <1>3, <1>10, <1>11, <1>12, RegistryKeeps DEF Reported
<1> QED BY <1>13, <1>14

\* Nobody waits for the call any more.
LEMMA CallIsLate ==
    ASSUME CoordInv, NEW i \in DOMAIN port, port' = Late(i), Handed' = Handed, Claimed' \subseteq Claimed,
           IF Exact(i) THEN ~port[i].late /\ port[i].pdf \notin Claimed' /\ running' = running \ {port[i].pdf}
                       ELSE running' = running
    PROVE  /\ port' \in Seq(PortCalls) /\ Answers' /\ port' # <<>>
           /\ DOMAIN port' = DOMAIN port /\ \A j \in DOMAIN port \ {i} : port'[j] = port[j]
           /\ port'[i].late = TRUE /\ port'[i].kind = port[i].kind
<1> DEFINE n == [port[i] EXCEPT !.late = TRUE]
<1>1. port \in Seq(PortCalls) /\ Answers /\ port[i] \in PortCalls
  BY DEF CoordInv, CopyTypes
<1>2. /\ n \in PortCalls /\ n.kind = port[i].kind /\ n.late = TRUE
      /\ port[i].kind = "exact" => n.pdf = port[i].pdf
  BY <1>1, PortCallChanges
<1>3. port' = [port EXCEPT ![i] = n]
  BY DEF Late
<1> HIDE DEF n
<1>4. /\ DOMAIN port' = DOMAIN port /\ \A j \in DOMAIN port \ {i} : port'[j] = port[j]
      /\ port'[i] = n /\ port' \in Seq(PortCalls) /\ port' # <<>>
  BY <1>1, <1>2, <1>3
<1>5. ASSUME NEW j \in DOMAIN port', Exact(j)'
      PROVE  /\ port'[j].pdf \in Handed'
             /\ IF port'[j].late THEN port'[j].pdf \notin Claimed' ELSE port'[j].pdf \in running'
  <2>1. CASE j = i
    BY <2>1, <1>1, <1>2, <1>4, <1>5 DEF Answers, Exact
  <2>2. CASE j # i
    <3>1. port'[j] = port[j] /\ j \in DOMAIN port /\ Exact(j)
      BY <2>2, <1>4, <1>5 DEF Exact
    <3>2. ~port[j].late /\ Exact(i) => port[j].pdf # port[i].pdf
      BY <2>2, <3>1, <1>1 DEF Answers
    <3> QED BY <3>1, <3>2, <1>1 DEF Answers
  <2> QED BY <2>1, <2>2
<1>6. \A j, k \in DOMAIN port' :
         Exact(j)' /\ Exact(k)' /\ ~port'[j].late /\ ~port'[k].late /\ port'[j].pdf = port'[k].pdf => j = k
  <2>1. \A j \in DOMAIN port' : Exact(j)' /\ ~port'[j].late => Exact(j) /\ port'[j] = port[j] /\ j \in DOMAIN port
    BY <1>2, <1>4 DEF Exact
  <2> QED BY <2>1, <1>1 DEF Answers
<1> QED BY <1>2, <1>4, <1>5, <1>6 DEF Answers

LEMMA ExactTimesOutKeeps == ASSUME CoordInv, Quiet, ExactTimesOut PROVE CoordInv'
<1>1. PICK i \in DOMAIN port :
          /\ port[i].kind = "exact" /\ ~port[i].late
          /\ Settle(port[i].pdf, FALSE, Late(i))
  BY DEF ExactTimesOut
<1>2. UNCHANGED <<sweeps, recoveries, starting, disk, leased, pick, requireLocalPdfReview>>
  BY DEF ExactTimesOut, files, given
<1>3. PICK p \in Pdfs : p = port[i].pdf /\ p \in running
  BY <1>1 DEF CoordInv, Answers, Exact, CopyTypes
<1>4. port' = Late(i) /\ running' = running \ {p} /\ Claimed' = Claimed \ {p} /\ Handed' = Handed
  BY <1>1, <1>2, <1>3, ClaimRetired DEF Settle, CoordInv, Handed
<1>5. /\ port' \in Seq(PortCalls) /\ Answers' /\ port' # <<>>
      /\ DOMAIN port' = DOMAIN port /\ \A j \in DOMAIN port \ {i} : port'[j] = port[j]
      /\ port'[i].late = TRUE /\ port'[i].kind = port[i].kind
  BY <1>1, <1>3, <1>4, CallIsLate DEF Exact
<1>6. RegistryCalls'
  <2>1. starting => i # 1
    BY <1>1 DEF CoordInv, RegistryCalls
  <2>2. starting => 1 \in DOMAIN port
    BY QueueEnds DEF CoordInv, RegistryCalls, CopyTypes
  <2> QED BY <2>1, <2>2, <1>1, <1>2, <1>5 DEF CoordInv, RegistryCalls
<1>7. /\ disk \subseteq Pdfs \cup {Leftover} /\ leased \subseteq disk \cap Pdfs
      /\ Claimed \cup Staged \subseteq leased /\ sweeps \in Seq(Sweeps) /\ pick \in [Pdfs -> Picks]
  BY DEF CoordInv, CopyTypes, Leases, SweepTypes
<1>8. Staged' = Staged
  BY <1>2 DEF Staged
<1>9. Settle(p, FALSE, Late(i)) /\ FALSE \in BOOLEAN
  BY <1>1, <1>3
<1> QED BY <1>2, <1>3, <1>4, <1>5, <1>6, <1>7, <1>8, <1>9, SettleKeeps

-----------------------------------------------------------------------------
(* The startup sweep                                                       *)

\* A sweep of the cache leaves the copies of the live leases.
LEMMA SweepingLeaves ==
    ASSUME CoordInv, NEW ok \in BOOLEAN, Sweeping(ok), Behind \subseteq Pdfs, Staged' = Staged \cup Behind
    PROVE  /\ disk' \subseteq Pdfs \cup {Leftover} /\ leased' \subseteq disk' \cap Pdfs
           /\ Claimed \cup Staged' \subseteq leased'
           /\ disk' \ Staged' \subseteq disk \ Staged
           /\ Leftover \in disk' => Leftover \in disk
           /\ ok => Claimed = {} /\ disk' \subseteq Staged'
<1>1. PICK left \in SUBSET disk :
         /\ disk \cap leased \subseteq left
         /\ ok => left = {}
         /\ disk' = left \cup Behind /\ leased' = leased \cup Behind
  BY DEF Sweeping
<1>2. /\ disk \subseteq Pdfs \cup {Leftover} /\ leased \subseteq disk \cap Pdfs
      /\ Claimed \cup Staged \subseteq leased
  BY DEF CoordInv, CopyTypes, Leases
<1>3. Leftover \notin Behind
  BY CoordinatorConstants
<1> QED BY <1>1, <1>2, <1>3

\* What a call that is not an exact cleanup leaves of the calls behind it.
LEMMA CallsAdvance ==
    ASSUME CoordInv, NEW kind, kind # "exact", Answered(kind), port' = Tail(port),
           UNCHANGED <<claims, running>>
    PROVE  /\ port' \in Seq(PortCalls) /\ Answers'
           /\ \A i \in DOMAIN port' : i + 1 \in DOMAIN port /\ i + 1 # 1 /\ port'[i] = port[i + 1]
           /\ Head(port) = port[1] /\ 1 \in DOMAIN port /\ port[1].kind = kind
<1>1. Handed' = Handed /\ port # <<>> /\ Claimed' = Claimed
  BY BehindStaged DEF Claimed
<1>2. /\ port' \in Seq(PortCalls) /\ Answers'
      /\ \A i \in DOMAIN port' : i + 1 \in DOMAIN port /\ i + 1 # 1 /\ port'[i] = port[i + 1]
      /\ Head(port) = port[1] /\ 1 \in DOMAIN port /\ port[1] \in PortCalls
  BY <1>1, PortAdvances
<1> QED BY <1>2 DEF Answered

\* A sweep's call behind the head stays the only one.
LEMMA SweepCallsStay ==
    ASSUME CoordInv, \A i \in DOMAIN port' : i + 1 \in DOMAIN port /\ i + 1 # 1 /\ port'[i] = port[i + 1],
           port' \in Seq(PortCalls), ~starting',
           sweeps' = <<>> <=> sweeps = <<>>, sweeps # <<>> => sweeps'[1].at = sweeps[1].at
    PROVE  RegistryCalls'
<1>1. ASSUME NEW i \in DOMAIN port', port'[i].kind = "sweep", ~port'[i].late
      PROVE  /\ sweeps' # <<>> /\ sweeps'[1].at = "port"
             /\ \A j \in DOMAIN port' : port'[j].kind = "sweep" /\ ~port'[j].late => i = j
  <2>1. PICK k \in DOMAIN port : k = i + 1 /\ port'[i] = port[k]
    OBVIOUS
  <2>2. sweeps # <<>> /\ sweeps[1].at = "port"
        /\ \A j \in DOMAIN port : port[j].kind = "sweep" /\ ~port[j].late => k = j
    BY <1>1, <2>1 DEF CoordInv, RegistryCalls
  <2>3. ASSUME NEW j \in DOMAIN port', port'[j].kind = "sweep", ~port'[j].late PROVE i = j
    <3>1. j + 1 = k /\ i \in Int /\ j \in Int
      BY <2>2, <2>3
    <3> QED BY <2>1, <3>1
  <2> QED BY <2>2, <2>3
<1> QED BY <1>1 DEF RegistryCalls

LEMMA InitializationAnsweredKeeps == ASSUME CoordInv, InitializationAnswered PROVE CoordInv'
<1>1. PICK ok \in BOOLEAN :
          /\ Sweeping(ok)
          /\ IF Head(port).late THEN UNCHANGED <<app, starting>>
                                ELSE Initialized(ok)
  BY DEF InitializationAnswered
<1>2. /\ port' = Tail(port) /\ fence' = Fewer(fence) /\ sweeps' = SweepsAfterCall
      /\ UNCHANGED <<gen, active, acts, vision, queue, disposal, claims, committed, running, owed,
                     epochs, recoveries>>
      /\ Answered("initialize")
  BY DEF InitializationAnswered, tokens, tasks, own
<1>3. /\ pick' \in [Pdfs -> Picks] /\ Handed' = Handed /\ \A q \in Handed : pick'[q] = pick[q]
      /\ Staged' = Staged \cup Behind /\ Behind \subseteq Pdfs
      /\ requireLocalPdfReview' = requireLocalPdfReview
  BY <1>2, BehindStaged
<1>4. /\ disk' \subseteq Pdfs \cup {Leftover} /\ leased' \subseteq disk' \cap Pdfs
      /\ Claimed \cup Staged' \subseteq leased'
      /\ disk' \ Staged' \subseteq disk \ Staged
      /\ Leftover \in disk' => Leftover \in disk
      /\ ok => Claimed = {} /\ disk' \subseteq Staged'
  BY <1>1, <1>3, SweepingLeaves
<1>5. /\ port' \in Seq(PortCalls) /\ Answers'
      /\ \A i \in DOMAIN port' : i + 1 \in DOMAIN port /\ i + 1 # 1 /\ port'[i] = port[i + 1]
      /\ Head(port) = port[1] /\ 1 \in DOMAIN port /\ port[1].kind = "initialize"
  BY <1>2, CallsAdvance
<1>6. sweeps \in Seq(Sweeps) /\ app \in Apps
  BY DEF CoordInv, SweepTypes, TaskTypes
<1>7. /\ sweeps' \in Seq(Sweeps) /\ DOMAIN sweeps' = DOMAIN sweeps
      /\ sweeps' = <<>> <=> sweeps = <<>>
      /\ \A i \in DOMAIN sweeps : sweeps'[i].shown = sweeps[i].shown /\ sweeps'[i].at = sweeps[i].at
      /\ sweeps # <<>> => 1 \in DOMAIN sweeps
  BY <1>2, <1>6, SweepsShift, QueueEnds
<1>8. ~starting' /\ (starting' # starting => ~(Mounted /\ app'.readiness = "checking"))
  <2>1. CASE port[1].late
    BY <1>1, <1>5, <2>1 DEF CoordInv, RegistryCalls
  <2>2. CASE ~port[1].late
    <3>1. starting' = FALSE
          /\ app' = IF ~Mounted \/ app.readiness # "checking" THEN app
                    ELSE IF ok /\ owed = 0 THEN [app EXCEPT !.readiness = "ready"]
                    ELSE PrivacyBlocked(FALSE)
      BY <1>1, <1>5, <2>2 DEF Initialized
    <3>2. PrivacyBlocked(FALSE).readiness = "blocked" /\ [app EXCEPT !.readiness = "ready"].readiness = "ready"
      BY <1>6, PrivacyBlockedIs, AppReady DEF Becomes
    <3> QED BY <3>1, <3>2
  <2> QED BY <2>1, <2>2
<1>9. RegistryCalls'
  BY <1>5, <1>7, <1>8, SweepCallsStay
<1>10. \/ app' = app
       \/ /\ Mounted /\ app.readiness = "checking" /\ ok /\ owed = 0
          /\ Becomes(app', app.status, "ready", app.source, app.mutation)
       \/ /\ Mounted /\ app.readiness = "checking"
          /\ Becomes(app', "failed", "blocked", app.source, "none")
  BY <1>1, <1>6, PrivacyBlockedIs, AppReady DEF Initialized, Unless
<1>11. Reported
  BY <1>10 DEF Reported
<1>12. Mounted' = Mounted /\ Claimed' = Claimed
  BY <1>2 DEF Mounted, Claimed
<1>13. SweepTypes'
  BY <1>2, <1>7, <1>12, FewerIs DEF CoordInv, SweepTypes
<1>14. Privacy'
  <2>1. app'.readiness # "blocked" => owed' = 0
    BY <1>2, <1>10 DEF CoordInv, Privacy, Becomes
  <2>2. owed' = 0 => disk' \subseteq Claimed' \cup Staged' \cup {Leftover}
    BY <1>2, <1>4, <1>12 DEF CoordInv, Privacy
  <2>3. owed' = 0 /\ Leftover \in disk' =>
          epochs' = 0 /\ app'.readiness # "ready" /\ (Mounted' \/ disposal'.readiness # "ready")
    <3>1. ok => Leftover \notin disk'
      BY <1>3, <1>4, CoordinatorConstants DEF Staged
    <3> QED BY <3>1, <1>2, <1>4, <1>10, <1>12 DEF CoordInv, Privacy, Becomes
  <2>4. Mounted' /\ app'.readiness # "ready" /\ owed' = 0 => Claimed' \subseteq running'
    BY <1>2, <1>10, <1>12 DEF CoordInv, Privacy, Becomes
  <2>5. Mounted' /\ app'.readiness = "checking" => committed' = None /\ starting'
    BY <1>2, <1>8, <1>10, <1>12 DEF CoordInv, Privacy, Becomes
  <2> QED BY <2>1, <2>2, <2>3, <2>4, <2>5 DEF Privacy
<1> QED BY <1>2, <1>3, <1>4, <1>5, <1>9, <1>11, <1>13, <1>14, RegistryKeeps

LEMMA InitializationTimesOutKeeps == ASSUME CoordInv, InitializationTimesOut PROVE CoordInv'
<1>1. /\ starting /\ Initialized(FALSE) /\ port' = Late(1)
      /\ UNCHANGED <<gen, active, acts, vision, queue, disposal, claims, committed, running, owed, epochs,
                     fence, sweeps, recoveries, disk, leased, pick, requireLocalPdfReview>>
  BY DEF InitializationTimesOut, tokens, tasks, own, privacy, files, given
<1>2. port # <<>> /\ port[1].kind = "initialize" /\ ~port[1].late /\ 1 \in DOMAIN port
  BY <1>1, QueueEnds DEF CoordInv, RegistryCalls, CopyTypes
<1>3. Handed' = Handed /\ Claimed' = Claimed /\ Mounted' = Mounted /\ Staged' = Staged
  BY <1>1 DEF Handed, Claimed, Mounted, Staged
<1>4. /\ port' \in Seq(PortCalls) /\ Answers' /\ port' # <<>>
      /\ DOMAIN port' = DOMAIN port /\ \A j \in DOMAIN port \ {1} : port'[j] = port[j]
      /\ port'[1].late = TRUE /\ port'[1].kind = port[1].kind
  BY <1>1, <1>2, <1>3, CallIsLate DEF Exact
<1>5. RegistryCalls'
  BY <1>1, <1>2, <1>4 DEF CoordInv, RegistryCalls, Initialized
<1>6. app \in Apps
  BY DEF CoordInv, TaskTypes
<1>7. \/ app' = app /\ ~(Mounted /\ app.readiness = "checking")
      \/ /\ Mounted /\ app.readiness = "checking"
         /\ Becomes(app', "failed", "blocked", app.source, "none")
  BY <1>1, <1>6, PrivacyBlockedIs DEF Initialized, Unless
<1>8. Reported
  BY <1>7 DEF Reported
<1>9. SweepTypes'
  BY <1>1, <1>3 DEF CoordInv, SweepTypes
<1>10. Privacy'
  BY <1>1, <1>3, <1>7 DEF CoordInv, Privacy, Becomes
<1>11. /\ disk \subseteq Pdfs \cup {Leftover} /\ leased \subseteq disk \cap Pdfs
       /\ Claimed \cup Staged \subseteq leased /\ pick \in [Pdfs -> Picks]
  BY DEF CoordInv, CopyTypes, Leases
<1> QED BY <1>1, <1>3, <1>4, <1>5, <1>8, <1>9, <1>10, <1>11, RegistryKeeps

\* A step of the sweeps or of the recoveries, beside the files and the screen.
LEMMA SweepsKeep ==
    ASSUME CoordInv, port' \in Seq(PortCalls), Answers', RegistryCalls', sweeps' \in Seq(Sweeps),
           \A i \in DOMAIN sweeps' : ~sweeps'[i].shown \/ ~Mounted,
           recoveries' # {} => recoveries # {},
           Reported, app' = app \/ (app'.readiness = "ready" /\ running = {} /\ owed = 0 /\ recoveries # {}),
           UNCHANGED <<gen, active, acts, vision, queue, disposal, claims, committed, running, owed, epochs,
                       fence, starting, disk, leased, pick, requireLocalPdfReview>>
    PROVE  CoordInv'
<1>1. Handed' = Handed /\ Claimed' = Claimed /\ Mounted' = Mounted /\ Staged' = Staged
  BY DEF Handed, Claimed, Mounted, Staged
<1>2. SweepTypes'
  BY <1>1 DEF CoordInv, SweepTypes
<1>3. Privacy'
  <2>1. recoveries # {} => epochs # 0
    BY DEF CoordInv, SweepTypes
  <2> QED BY <2>1, <1>1 DEF CoordInv, Privacy
<1>4. /\ disk \subseteq Pdfs \cup {Leftover} /\ leased \subseteq disk \cap Pdfs
      /\ Claimed \cup Staged \subseteq leased /\ pick \in [Pdfs -> Picks]
  BY DEF CoordInv, CopyTypes, Leases
<1> QED BY <1>1, <1>2, <1>3, <1>4, RegistryKeeps

-----------------------------------------------------------------------------
(* The sweeps of an obligation, and recovery                               *)

\* The sweep at the head is over, or its place in its own steps changes.
LEMMA SweepsMove ==
    ASSUME CoordInv, sweeps # <<>>
    PROVE  /\ sweeps \in Seq(Sweeps) /\ Head(sweeps) = sweeps[1] /\ 1 \in DOMAIN sweeps
           /\ \A rest \in Seq(Sweeps) : rest # <<>> =>
                 /\ Tail(rest) \in Seq(Sweeps)
                 /\ \A i \in DOMAIN Tail(rest) : i + 1 \in DOMAIN rest /\ Tail(rest)[i] = rest[i + 1]
           /\ \A i \in DOMAIN sweeps : ~sweeps[i].shown \/ ~Mounted
           /\ \A v \in {"fence", "port"} :
                LET s == <<[Head(sweeps) EXCEPT !.at = v]>> \o Tail(sweeps)
                IN  /\ s \in Seq(Sweeps) /\ s # <<>> /\ s[1].at = v
                    /\ \A i \in DOMAIN s : ~s[i].shown \/ ~Mounted
<1>1. sweeps \in Seq(Sweeps) /\ \A i \in DOMAIN sweeps : ~sweeps[i].shown \/ ~Mounted
  BY DEF CoordInv, SweepTypes
<1>2. Head(sweeps) = sweeps[1] /\ 1 \in DOMAIN sweeps
  BY <1>1, QueueEnds
<1>3. ASSUME NEW rest \in Seq(Sweeps), rest # <<>>
      PROVE  /\ Tail(rest) \in Seq(Sweeps)
             /\ \A i \in DOMAIN Tail(rest) : i + 1 \in DOMAIN rest /\ Tail(rest)[i] = rest[i + 1]
  BY <1>3, QueueEnds
<1>4. ASSUME NEW v \in {"fence", "port"}
      PROVE  LET s == <<[Head(sweeps) EXCEPT !.at = v]>> \o Tail(sweeps)
             IN  /\ s \in Seq(Sweeps) /\ s # <<>> /\ s[1].at = v
                 /\ \A i \in DOMAIN s : ~s[i].shown \/ ~Mounted
  <2> DEFINE n == [Head(sweeps) EXCEPT !.at = v]
  <2>1. Head(sweeps) \in Sweeps
    BY <1>1, <1>2
  <2>2. n \in Sweeps /\ n.at = v /\ n.shown = sweeps[1].shown
    BY <1>2, <2>1 DEF Sweeps
  <2> HIDE DEF n
  <2>3. /\ <<n>> \o Tail(sweeps) \in Seq(Sweeps) /\ <<n>> \o Tail(sweeps) # <<>>
        /\ DOMAIN (<<n>> \o Tail(sweeps)) = DOMAIN sweeps
        /\ (<<n>> \o Tail(sweeps))[1] = n
        /\ \A i \in DOMAIN sweeps \ {1} : (<<n>> \o Tail(sweeps))[i] = sweeps[i]
    BY <1>1, <2>2, QueueChanges
  <2>4. \A i \in DOMAIN sweeps : ~(<<n>> \o Tail(sweeps))[i].shown \/ ~Mounted
    BY <1>1, <1>2, <2>2, <2>3
  <2> QED BY <2>2, <2>3, <2>4 DEF n
<1> QED BY <1>1, <1>2, <1>3, <1>4

LEMMA SweepAnsweredKeeps == ASSUME CoordInv, SweepAnswered PROVE CoordInv'
<1>1. PICK ok \in BOOLEAN :
          /\ Sweeping(ok)
          /\ IF Head(port).late
             THEN /\ fence' = Fewer(fence) /\ sweeps' = SweepsAfterCall
                  /\ UNCHANGED <<app, owed, recoveries>>
             ELSE LET cleared == Cleared(ok)
                  IN  /\ owed' = IF cleared THEN 0 ELSE owed
                      /\ fence' = IF cleared THEN 0 ELSE Fewer(fence)
                      /\ app' = IF Head(sweeps).shown THEN DisposedApp(owed') ELSE app
                      /\ SweepEnds(SweepsAfterCall, cleared)
  BY DEF SweepAnswered
<1>2. /\ port' = Tail(port)
      /\ UNCHANGED <<gen, active, acts, vision, queue, disposal, claims, committed, running,
                     epochs, starting>>
      /\ Answered("sweep")
  BY DEF SweepAnswered, Unswept, tokens, tasks, own
<1>3. /\ pick' \in [Pdfs -> Picks] /\ Handed' = Handed /\ \A q \in Handed : pick'[q] = pick[q]
      /\ Staged' = Staged \cup Behind /\ Behind \subseteq Pdfs
      /\ requireLocalPdfReview' = requireLocalPdfReview
  BY <1>2, BehindStaged
<1>4. /\ disk' \subseteq Pdfs \cup {Leftover} /\ leased' \subseteq disk' \cap Pdfs
      /\ Claimed \cup Staged' \subseteq leased'
      /\ disk' \ Staged' \subseteq disk \ Staged
      /\ Leftover \in disk' => Leftover \in disk
      /\ ok => Claimed = {} /\ disk' \subseteq Staged'
  BY <1>1, <1>3, SweepingLeaves
<1>5. /\ port' \in Seq(PortCalls) /\ Answers'
      /\ \A i \in DOMAIN port' : i + 1 \in DOMAIN port /\ i + 1 # 1 /\ port'[i] = port[i + 1]
      /\ Head(port) = port[1] /\ 1 \in DOMAIN port /\ port[1].kind = "sweep"
  BY <1>2, CallsAdvance
<1>6. /\ sweeps \in Seq(Sweeps) /\ app \in Apps /\ disposal \in Disposals /\ owed \in {0, epochs}
      /\ fence \in Int
  BY DEF CoordInv, SweepTypes, TaskTypes
<1>7. /\ SweepsAfterCall \in Seq(Sweeps) /\ DOMAIN SweepsAfterCall = DOMAIN sweeps
      /\ SweepsAfterCall = <<>> <=> sweeps = <<>>
      /\ \A i \in DOMAIN sweeps : /\ SweepsAfterCall[i].shown = sweeps[i].shown
                                  /\ SweepsAfterCall[i].at = sweeps[i].at
      /\ sweeps # <<>> => 1 \in DOMAIN sweeps
  BY <1>6, SweepsShift, QueueEnds
<1>8. ~starting'
  BY <1>2, <1>5 DEF CoordInv, RegistryCalls
<1>9. Mounted' = Mounted /\ Claimed' = Claimed
  BY <1>2 DEF Mounted, Claimed
<1>10. CASE port[1].late
  <2>1. /\ fence' = Fewer(fence) /\ sweeps' = SweepsAfterCall
        /\ UNCHANGED <<app, owed, recoveries>>
    BY <1>1, <1>5, <1>10
  <2>2. RegistryCalls'
    BY <2>1, <1>5, <1>7, <1>8, SweepCallsStay
  <2>3. SweepTypes'
    BY <2>1, <1>2, <1>7, <1>9, FewerIs DEF CoordInv, SweepTypes
  <2>4. Privacy'
    BY <2>1, <1>2, <1>4, <1>9 DEF CoordInv, Privacy
  <2> QED BY <2>1, <2>2, <2>3, <2>4, <1>2, <1>3, <1>4, <1>5, RegistryKeeps DEF Reported
<1>11. CASE ~port[1].late
  <2> DEFINE cleared == Cleared(ok)
  <2>1. /\ owed' = IF cleared THEN 0 ELSE owed
        /\ fence' = IF cleared THEN 0 ELSE Fewer(fence)
        /\ app' = IF Head(sweeps).shown THEN DisposedApp(owed') ELSE app
        /\ SweepEnds(SweepsAfterCall, cleared)
        /\ cleared => ok
    BY <1>1, <1>5, <1>11 DEF Cleared
  <2> HIDE DEF cleared
  <2>2. sweeps # <<>> /\ \A i \in DOMAIN port : port[i].kind = "sweep" /\ ~port[i].late => i = 1
    BY <1>5, <1>11 DEF CoordInv, RegistryCalls
  <2>3. RegistryCalls'
    BY <2>2, <1>5, <1>8 DEF RegistryCalls
  <2>4. /\ sweeps' \in Seq(Sweeps)
        /\ \A i \in DOMAIN sweeps' : i + 1 \in DOMAIN sweeps /\ sweeps'[i].shown = sweeps[i + 1].shown
        /\ recoveries' # {} => recoveries # {}
    <3>1. sweeps' = Tail(SweepsAfterCall)
      BY <2>1 DEF SweepEnds
    <3>2. recoveries' # {} => recoveries # {}
      BY <2>1 DEF SweepEnds
    <3>3. /\ sweeps' \in Seq(Sweeps)
          /\ \A i \in DOMAIN sweeps' : i + 1 \in DOMAIN SweepsAfterCall /\ sweeps'[i] = SweepsAfterCall[i + 1]
      BY <3>1, <2>2, <1>7, QueueEnds
    <3> QED BY <3>2, <3>3, <1>7
  <2>5. SweepTypes'
    <3>1. fence' \in Int
      BY <2>1, <1>6, FewerIs
    <3>2. \A i \in DOMAIN sweeps' : sweeps'[i].shown => ~Mounted'
      BY <2>4, <1>9 DEF CoordInv, SweepTypes
    <3> QED BY <3>1, <3>2, <2>1, <2>4, <1>2 DEF CoordInv, SweepTypes
  <2>6. \/ app' = app
        \/ /\ ~Mounted /\ app' \in Apps /\ app'.status \in {"failed", "idle"} /\ app'.mutation = "none"
           /\ app'.readiness = IF owed' # 0 THEN "blocked" ELSE disposal.readiness
    <3>1. Head(sweeps).shown => ~Mounted
      BY <2>2, <1>6, <1>7, QueueEnds DEF CoordInv, SweepTypes
    <3> QED BY <3>1, <2>1, <1>6, DisposedAppIs
  <2>7. Reported
    BY <2>6 DEF Reported
  <2>8. Privacy'
    <3>1. app'.readiness # "blocked" => owed' = 0
      BY <2>1, <2>6 DEF CoordInv, Privacy
    <3>2. owed' = 0 => disk' \subseteq Claimed' \cup Staged' \cup {Leftover}
      BY <2>1, <1>4, <1>9 DEF CoordInv, Privacy
    <3>3. owed' = 0 /\ Leftover \in disk' =>
            epochs' = 0 /\ app'.readiness # "ready" /\ (Mounted' \/ disposal'.readiness # "ready")
      <4>1. cleared => Leftover \notin disk'
        BY <2>1, <1>3, <1>4, CoordinatorConstants DEF Staged
      <4> QED BY <4>1, <2>1, <2>6, <1>2, <1>4, <1>9 DEF CoordInv, Privacy
    <3>4. Mounted' /\ app'.readiness # "ready" /\ owed' = 0 => Claimed' \subseteq running'
      BY <2>1, <2>6, <1>2, <1>4, <1>9 DEF CoordInv, Privacy
    <3>5. Mounted' /\ app'.readiness = "checking" => committed' = None /\ starting'
      BY <2>6, <1>2, <1>9 DEF CoordInv, Privacy
    <3> QED BY <3>1, <3>2, <3>3, <3>4, <3>5 DEF Privacy
  <2> QED BY <2>3, <2>5, <2>7, <2>8, <1>2, <1>3, <1>4, <1>5, RegistryKeeps
<1> QED BY <1>10, <1>11

\* The end of a sweep that made no call, or whose call is late.
LEMMA SweepEndsIs ==
    ASSUME CoordInv, sweeps # <<>>, SweepEnds(sweeps, FALSE)
    PROVE  /\ sweeps' \in Seq(Sweeps) /\ (recoveries' # {} => recoveries # {})
           /\ \A i \in DOMAIN sweeps' : ~sweeps'[i].shown \/ ~Mounted
<1>1. sweeps' = Tail(sweeps) /\ sweeps \in Seq(Sweeps)
  BY DEF SweepEnds, CoordInv, SweepTypes
<1>2. recoveries' # {} => recoveries # {}
  BY DEF SweepEnds
<1> QED BY <1>1, <1>2, SweepsMove

LEMMA SweepProceedsKeeps == ASSUME CoordInv, SweepProceeds PROVE CoordInv'
<1>1. /\ sweeps # <<>>
      /\ UNCHANGED <<app, gen, active, acts, vision, queue, disposal, claims, committed, running, owed, epochs,
                     fence, starting, disk, leased, pick, requireLocalPdfReview>>
  BY DEF SweepProceeds, Unswept, tokens, tasks, own, files, given
<1>2. /\ Answers /\ RegistryCalls /\ port \in Seq(PortCalls) /\ Head(sweeps) = sweeps[1]
      /\ Handed' = Handed /\ Claimed' = Claimed
  BY <1>1, SweepsMove DEF CoordInv, CopyTypes, Handed, Claimed
<1>3. Head(sweeps).at # "port" => \A i \in DOMAIN port : ~(port[i].kind = "sweep" /\ ~port[i].late)
  BY <1>2 DEF RegistryCalls
<1>4. CASE /\ Head(sweeps).at \in {"prior", "fence"} /\ SweepEnds(sweeps, FALSE) /\ UNCHANGED port
  <2>1. Answers' /\ RegistryCalls'
    BY <1>1, <1>2, <1>3, <1>4 DEF Answers, Exact, RegistryCalls
  <2>2. /\ sweeps' \in Seq(Sweeps) /\ (recoveries' # {} => recoveries # {})
        /\ \A i \in DOMAIN sweeps' : ~sweeps'[i].shown \/ ~Mounted
    BY <1>1, <1>4, SweepEndsIs
  <2> QED BY <2>1, <2>2, <1>1, <1>2, <1>4, SweepsKeep DEF Reported
<1>5. CASE /\ Head(sweeps).at = "prior"
           /\ sweeps' = <<[Head(sweeps) EXCEPT !.at = "fence"]>> \o Tail(sweeps)
           /\ UNCHANGED <<port, recoveries>>
  <2>1. Answers' /\ RegistryCalls'
    BY <1>1, <1>2, <1>3, <1>5 DEF Answers, Exact, RegistryCalls
  <2>2. sweeps' \in Seq(Sweeps) /\ \A i \in DOMAIN sweeps' : ~sweeps'[i].shown \/ ~Mounted
    BY <1>1, <1>5, SweepsMove
  <2> QED BY <2>1, <2>2, <1>1, <1>2, <1>5, SweepsKeep DEF Reported
<1>6. CASE /\ Head(sweeps).at = "fence"
           /\ sweeps' = <<[Head(sweeps) EXCEPT !.at = "port"]>> \o Tail(sweeps)
           /\ port' = Append(port, [kind |-> "sweep", late |-> FALSE])
           /\ UNCHANGED recoveries
  <2> DEFINE c == [kind |-> "sweep", late |-> FALSE]
  <2>1. c \in PortCalls /\ c.kind = "sweep"
    BY DEF PortCalls
  <2> HIDE DEF c
  <2>2. /\ port' \in Seq(PortCalls) /\ DOMAIN port' = DOMAIN port \cup {Len(port) + 1} /\ port' # <<>>
        /\ port'[Len(port) + 1] = c /\ Len(port) + 1 \notin DOMAIN port
        /\ \A i \in DOMAIN port : port'[i] = port[i]
        /\ port # <<>> => 1 \in DOMAIN port
    BY <2>1, <1>2, <1>6 DEF c
  <2>3. Answers'
    <3>1. \A i \in DOMAIN port' : Exact(i)' => i \in DOMAIN port /\ Exact(i) /\ port'[i] = port[i]
      BY <2>1, <2>2 DEF Exact
    <3> QED BY <3>1, <1>1, <1>2 DEF Answers
  <2>4. sweeps' \in Seq(Sweeps) /\ sweeps' # <<>> /\ sweeps'[1].at = "port"
        /\ \A i \in DOMAIN sweeps' : ~sweeps'[i].shown \/ ~Mounted
    BY <1>1, <1>6, SweepsMove
  <2>5. RegistryCalls'
    BY <2>2, <2>4, <1>1, <1>2, <1>3, <1>6 DEF RegistryCalls
  <2> QED BY <2>2, <2>3, <2>4, <2>5, <1>1, <1>6, SweepsKeep DEF Reported
<1> QED BY <1>4, <1>5, <1>6 DEF SweepProceeds

LEMMA SweepTimesOutKeeps == ASSUME CoordInv, SweepTimesOut PROVE CoordInv'
<1>1. /\ sweeps # <<>> /\ SweepEnds(sweeps, FALSE)
      /\ UNCHANGED <<app, gen, active, acts, vision, queue, disposal, claims, committed, running, owed, epochs,
                     fence, starting, disk, leased, pick, requireLocalPdfReview>>
  BY DEF SweepTimesOut, Unswept, tokens, tasks, own, files, given
<1>2. /\ Answers /\ RegistryCalls /\ port \in Seq(PortCalls) /\ Head(sweeps) = sweeps[1]
      /\ Handed' = Handed /\ Claimed' = Claimed
  BY <1>1, SweepsMove DEF CoordInv, CopyTypes, Handed, Claimed
<1>3. /\ sweeps' \in Seq(Sweeps) /\ (recoveries' # {} => recoveries # {})
      /\ \A i \in DOMAIN sweeps' : ~sweeps'[i].shown \/ ~Mounted
  BY <1>1, SweepEndsIs
<1>4. port' \in Seq(PortCalls) /\ Answers' /\ RegistryCalls'
  <2>1. CASE Head(sweeps).at = "fence" /\ UNCHANGED port
    BY <2>1, <1>1, <1>2 DEF Answers, Exact, RegistryCalls
  <2>2. ASSUME NEW i \in DOMAIN port, port[i].kind = "sweep", ~port[i].late, port' = Late(i)
        PROVE  port' \in Seq(PortCalls) /\ Answers' /\ RegistryCalls'
    <3>1. /\ port' \in Seq(PortCalls) /\ Answers' /\ port' # <<>>
          /\ DOMAIN port' = DOMAIN port /\ \A j \in DOMAIN port \ {i} : port'[j] = port[j]
          /\ port'[i].late = TRUE
      BY <2>2, <1>1, <1>2, CallIsLate DEF Exact
    <3>2. \A j \in DOMAIN port : port[j].kind = "sweep" /\ ~port[j].late => i = j
      BY <2>2, <1>2 DEF RegistryCalls
    <3>3. starting => i # 1 /\ 1 \in DOMAIN port
      BY <2>2, <1>2, QueueEnds DEF RegistryCalls
    <3> QED BY <3>1, <3>2, <3>3, <1>1, <1>2 DEF RegistryCalls
  <2> QED BY <2>1, <2>2 DEF SweepTimesOut
<1> QED BY <1>1, <1>3, <1>4, SweepsKeep DEF Reported

LEMMA RecoveryKeeps == ASSUME CoordInv, Recovery PROVE CoordInv'
<1>1. PICK r \in recoveries : RecoveryProceeds(r) \/ RecoveryEnds(r)
  BY DEF Recovery
<1>2. UNCHANGED <<gen, active, acts, vision, queue, disposal, claims, committed, running, port, owed, epochs,
                  fence, starting, disk, leased, pick, requireLocalPdfReview>>
  BY DEF Recovery, tokens, tasks, own, cleanup, files, given
<1>3. /\ Answers /\ RegistryCalls /\ port \in Seq(PortCalls) /\ sweeps \in Seq(Sweeps)
      /\ Handed' = Handed /\ Claimed' = Claimed /\ recoveries # {} /\ app \in Apps
      /\ \A i \in DOMAIN sweeps : ~sweeps[i].shown \/ ~Mounted
      /\ owed \in Nat /\ fence \in Int
  BY <1>1, <1>2 DEF CoordInv, CopyTypes, SweepTypes, TaskTypes, Handed, Claimed
<1>4. Answers'
  BY <1>2, <1>3 DEF Answers, Exact
<1>5. CASE sweeps' = sweeps /\ app' = app
  <2>1. RegistryCalls'
    BY <1>2, <1>3, <1>5 DEF RegistryCalls
  <2> QED BY <2>1, <1>2, <1>3, <1>4, <1>5, SweepsKeep DEF Reported
<1>6. CASE sweeps' = WithSweep(r.epoch) /\ owed = r.epoch /\ app' = app /\ sweeps' # sweeps
  <2> DEFINE s == [epoch |-> r.epoch, at |-> "prior", fence |-> fence, shown |-> FALSE]
  <2>1. s \in Sweeps /\ s.shown = FALSE
    BY <1>3, <1>6 DEF Sweeps
  <2> HIDE DEF s
  <2>2. sweeps' = Append(sweeps, s)
    BY <1>6 DEF WithSweep, s
  <2>3. /\ sweeps' \in Seq(Sweeps) /\ sweeps' # <<>> /\ (sweeps # <<>> => sweeps'[1] = sweeps[1])
        /\ DOMAIN sweeps' = DOMAIN sweeps \cup {Len(sweeps) + 1}
        /\ sweeps'[Len(sweeps) + 1] = s /\ \A i \in DOMAIN sweeps : sweeps'[i] = sweeps[i]
    <3>1. sweeps # <<>> => 1 \in DOMAIN sweeps
      BY <1>3, QueueEnds
    <3> QED BY <3>1, <2>1, <2>2, <1>3
  <2>4. RegistryCalls'
    BY <2>3, <1>2, <1>3 DEF RegistryCalls
  <2>5. \A i \in DOMAIN sweeps' : ~sweeps'[i].shown \/ ~Mounted
    BY <2>1, <2>3, <1>3
  <2> QED BY <2>3, <2>4, <2>5, <1>2, <1>3, <1>4, <1>6, SweepsKeep DEF Reported
<1>7. CASE /\ running = {} /\ Mounted /\ owed = 0 /\ app.readiness = "blocked"
           /\ app' = PrivacyRecovered /\ sweeps' = sweeps
  <2>1. Becomes(app', StatusOf(app.source), "ready", app.source, "none")
    BY <1>3, <1>7, PrivacyRecoveredIs
  <2>2. committed = None
    BY <1>7 DEF CoordInv, Privacy, Leases
  <2>3. Reported /\ app'.readiness = "ready"
    BY <2>1, <2>2, <1>7 DEF Reported, Becomes
  <2>4. RegistryCalls'
    BY <1>2, <1>3, <1>7 DEF RegistryCalls
  <2> QED BY <2>3, <2>4, <1>2, <1>3, <1>4, <1>7, SweepsKeep
<1> QED BY <1>1, <1>5, <1>6, <1>7 DEF RecoveryProceeds, RecoveryEnds

-----------------------------------------------------------------------------
(* A pick that fails, and disposal                                         *)

LEMMA PdfPickFailedKeeps == ASSUME CoordInv, Quiet, NEW p \in Pdfs, PdfPickFailed(p) PROVE CoordInv'
<1> DEFINE s == [epoch |-> owed', at |-> "prior", fence |-> fence', shown |-> TRUE]
<1>1. /\ pick[p] = "staged" /\ pick' = [pick EXCEPT ![p] = "ended"] /\ leased' = leased \ {p}
      /\ MarkAbandoned(port) /\ BlockPrivacy(FALSE)
      /\ acts' = Blocked(FALSE, acts) /\ vision' = Stopped(FALSE, vision)
      /\ sweeps' = IF Mounted THEN sweeps ELSE Append(sweeps, s)
      /\ UNCHANGED <<active, queue, disposal, claims, committed, running, port, recoveries, starting, disk,
                     requireLocalPdfReview>>
  BY DEF PdfPickFailed, Picked, own, cleanup, given
<1>2. /\ app \in Apps /\ gen \in Nat /\ epochs \in Nat /\ disposal \in Disposals /\ port \in Seq(PortCalls)
      /\ pick \in [Pdfs -> Picks] /\ sweeps \in Seq(Sweeps)
      /\ disk \subseteq Pdfs \cup {Leftover} /\ leased \subseteq disk \cap Pdfs
      /\ Claimed \cup Staged \subseteq leased /\ Claimed \subseteq Handed
  BY DEF CoordInv, TaskTypes, CopyTypes, SweepTypes, Leases
<1>3. epochs' = epochs + 1 /\ owed' = epochs' /\ epochs' \in Nat /\ owed' # 0 /\ fence' \in Int
  <2>1. fence' \in Int
    BY <1>1, <1>2, FenceIs
  <2>2. epochs' = epochs + 1 /\ owed' = epochs + 1
    BY <1>1 DEF MarkAbandoned
  <2> QED BY <1>2, <2>1, <2>2
<1>4. /\ app' \in Apps /\ app'.readiness = "blocked" /\ app'.mutation = "none"
      /\ app'.status \in {"failed", "idle"}
      /\ IF Mounted THEN gen' = gen + 1 /\ app'.source = app.source ELSE gen' = gen
  <2>1. CASE Mounted
    <3>1. gen' = gen + 1 /\ app' = PrivacyBlocked(FALSE)
      BY <1>1, <2>1 DEF BlockPrivacy, Supersede
    <3> QED BY <2>1, <3>1, <1>2, PrivacyBlockedIs DEF Becomes, Unless
  <2>2. CASE ~Mounted
    <3>1. gen' = gen /\ app' = DisposedApp(epochs + 1) /\ epochs + 1 # 0
      BY <1>1, <1>2, <2>2 DEF BlockPrivacy, tokens
    <3> QED BY <2>2, <3>1, <1>2, DisposedAppIs
  <2> QED BY <2>1, <2>2
<1>5. /\ pick' \in [Pdfs -> Picks] /\ Handed' = Handed /\ Staged' = Staged \ {p} /\ p \notin Handed
      /\ \A q \in Pdfs : q # p => pick'[q] = pick[q]
  BY <1>1, <1>2 DEF Handed, Staged, Picks
<1>6. /\ Mounted' = Mounted /\ Claimed' = Claimed /\ HandedGrows
      /\ gen' \in Nat /\ gen <= gen' /\ (~Mounted' \/ gen < gen')
  BY <1>1, <1>2, <1>4, <1>5, ClaimedArePdfs DEF Mounted, Claimed, HandedGrows, CoordInv
<1>7. ActsHear(None) /\ VisionHears(None) /\ MutationsHear(None) /\ Hears(disposal'.on, disposal.on, None)
  <2>1. (acts' = acts \/ acts' = AbortActive(acts)) /\ (vision' = vision \/ vision' = CancelVision(vision))
    BY <1>1 DEF Blocked, Stopped
  <2> QED BY <2>1, <1>1, AbortedActs, CancelledVision, QueueHearsNothing, HearsNothing
<1>8. /\ sweeps' \in Seq(Sweeps)
      /\ \A i \in DOMAIN sweeps' : sweeps'[i].shown => ~Mounted
      /\ sweeps # <<>> => sweeps' # <<>> /\ sweeps'[1] = sweeps[1]
  <2>1. s \in Sweeps
    BY <1>3 DEF Sweeps
  <2> HIDE DEF s
  <2>2. \A i \in DOMAIN sweeps : sweeps[i].shown => ~Mounted
    BY DEF CoordInv, SweepTypes
  <2>3. CASE Mounted
    BY <1>1, <1>2, <2>2, <2>3
  <2>4. CASE ~Mounted
    <3>1. sweeps' = Append(sweeps, s) /\ (sweeps # <<>> => 1 \in DOMAIN sweeps)
      BY <1>1, <1>2, <2>4, QueueEnds
    <3> QED BY <2>1, <2>4, <3>1, <1>2
  <2> QED BY <2>3, <2>4
<1>9. TaskTypes' /\ CopyTypes' /\ SweepTypes' /\ Leases'
  <2>1. TaskTypes'
    BY <1>1, <1>4, <1>6, <1>7 DEF CoordInv, TaskTypes, ActsHear, VisionHears
  <2>2. CopyTypes'
    BY <1>1, <1>2, <1>5 DEF CoordInv, CopyTypes
  <2>3. SweepTypes'
    BY <1>3, <1>6, <1>8 DEF SweepTypes
  <2>4. Leases'
    BY <1>1, <1>2, <1>5, <1>6 DEF CoordInv, Leases
  <2> QED BY <2>1, <2>2, <2>3, <2>4
<1>10. None \notin Claimed' /\ None \notin running'
  BY <1>9, NoneFree
<1>11. Waits'
  <2>1. \A q \in Pdfs : pick[q] = "discarded" => pick'[q] = "discarded"
    BY <1>1, <1>5
  <2> QED BY <2>1, <1>1, <1>7, <1>10, WaitsHold
<1>12. Ending' /\ Owners' /\ Answers'
  <2>1. vision' # None => vision # None
    BY <1>7 DEF VisionHears
  <2> QED BY <2>1, <1>1, <1>5, <1>6 DEF CoordInv, Ending, Owners, ToCommit, Answers, Exact
<1>13. RegistryCalls' /\ Privacy'
  BY <1>1, <1>3, <1>4, <1>8 DEF CoordInv, RegistryCalls, Privacy
<1>14. Chain' /\ Order' /\ Fresh'
  <2>1. \A m \in Mutations : m.gen <= gen => BusyStays(m)
    BY <1>4 DEF BusyStays, Busy
  <2>2. \A i \in DOMAIN queue : ~Commits(queue[i])
    BY QuietFacts
  <2>3. queue' \in Seq(Mutations) /\ DOMAIN queue' = DOMAIN queue /\ committed' \in {committed, None}
    BY <1>1 DEF CoordInv, TaskTypes
  <2>4. \A q \in Pdfs : pick[q] = "selected" => pick'[q] = "selected"
    BY <1>1, <1>5
  <2> QED BY <2>1, <2>2, <2>3, <2>4, <1>6, <1>7, <1>10, QueueHolds
<1>15. Activity' /\ Extraction'
  <2>1. \A a \in Activations : acts[a] # None => acts[a].at # "call"
    BY QuietFacts
  <2> QED BY <2>1, <1>1, <1>6, <1>7, <1>10, ActivityPast, ExtractionHolds
<1>16. Extracting' /\ Progress'
  BY <1>4 DEF Extracting, Progress
<1>17. Shown'
  BY <1>1, <1>4, <1>6 DEF CoordInv, Shown
<1> QED
  BY <1>9, <1>11, <1>12, <1>13, <1>14, <1>15, <1>16, <1>17 DEF CoordInv

LEMMA DisposeKeeps == ASSUME CoordInv, Quiet, Dispose PROVE CoordInv'
<1>1. /\ Mounted /\ gen' = gen + 1
      /\ disposal' = [disposal EXCEPT !.at = "tasks", !.readiness = app.readiness]
      /\ acts' = AbortActive(acts) /\ vision' = CancelVision(vision)
      /\ UNCHANGED <<app, active, queue, claims, committed, running, port, owed, epochs, fence, sweeps,
                     recoveries, starting, disk, leased, pick, requireLocalPdfReview>>
  BY DEF Dispose, Supersede, own, cleanup, privacy, files, given
<1>2. gen \in Nat /\ disposal \in Disposals /\ app.readiness \in {"checking", "ready", "blocked"}
  BY AppFields DEF CoordInv, TaskTypes
<1>3. /\ disposal' \in Disposals /\ disposal'.at = "tasks" /\ disposal'.todo = disposal.todo
      /\ disposal'.on = disposal.on /\ disposal'.readiness = app.readiness
  <2>1. disposal' \in Disposals
    BY <1>1, <1>2 DEF Disposals
  <2> QED BY <1>1, <1>2, <2>1 DEF Disposals
<1>4. /\ ~Mounted' /\ disposal.at = "mounted" /\ Handed' = Handed /\ Claimed' = Claimed /\ Staged' = Staged
      /\ HandedGrows /\ gen' \in Nat /\ gen <= gen'
  BY <1>1, <1>2, <1>3, ClaimedArePdfs DEF Mounted, Handed, Claimed, Staged, HandedGrows, CoordInv
<1>5. ActsHear(None) /\ VisionHears(None) /\ MutationsHear(None) /\ Hears(disposal'.on, disposal.on, None)
  BY <1>1, <1>3, AbortedActs, CancelledVision, QueueHearsNothing, HearsNothing
<1>6. TaskTypes' /\ CopyTypes' /\ SweepTypes' /\ Leases'
  <2>1. TaskTypes'
    BY <1>1, <1>3, <1>4, <1>5 DEF CoordInv, TaskTypes, ActsHear, VisionHears
  <2>2. CopyTypes' /\ SweepTypes' /\ Leases'
    BY <1>1, <1>4 DEF CoordInv, CopyTypes, SweepTypes, Leases
  <2> QED BY <2>1, <2>2
<1>7. None \notin Claimed' /\ None \notin running'
  BY <1>6, NoneFree
<1>8. Waits'
  BY <1>1, <1>5, <1>7, WaitsHold
<1>9. Ending' /\ Owners' /\ Answers' /\ RegistryCalls'
  BY <1>1, <1>3, <1>4 DEF CoordInv, Ending, Owners, ToCommit, Answers, Exact, RegistryCalls
<1>10. Privacy'
  BY <1>1, <1>3, <1>4 DEF CoordInv, Privacy
<1>11. Chain' /\ Order' /\ Fresh'
  <2>1. \A m \in Mutations : m.gen <= gen => BusyStays(m)
    BY <1>4 DEF BusyStays, Busy
  <2>2. \A i \in DOMAIN queue : ~Commits(queue[i])
    BY QuietFacts
  <2>3. queue' \in Seq(Mutations) /\ DOMAIN queue' = DOMAIN queue /\ committed' \in {committed, None}
    BY <1>1 DEF CoordInv, TaskTypes
  <2> QED BY <2>1, <2>2, <2>3, <1>1, <1>4, <1>5, <1>7, QueueHolds
<1>12. Activity' /\ Extraction'
  <2>1. \A a \in Activations : acts[a] # None => acts[a].at # "call"
    BY QuietFacts
  <2> QED BY <2>1, <1>1, <1>4, <1>5, <1>7, ActivityPast, ExtractionHolds
<1>13. Extracting' /\ Progress' /\ Shown'
  BY <1>1, <1>4 DEF CoordInv, Extracting, Progress, Shown, ReviewFirst
<1> QED
  BY <1>6, <1>8, <1>9, <1>10, <1>11, <1>12, <1>13 DEF CoordInv

\* A step of the disposal, once the tasks are over.
LEMMA DisposalStepKeeps ==
    ASSUME CoordInv, ~Mounted, ~Mounted', queue = <<>>, active = None, vision = None,
           app' = app \/ (app' \in Apps /\ app'.status \in {"failed", "idle"}),
           committed' \in {committed, None}, disposal' \in Disposals,
           NEW w \in Pdfs \cup {None}, Cleans(w), w = disposal'.on, disposal.on = None,
           RegistryCalls', SweepTypes', Ending', Owners', Privacy',
           UNCHANGED <<gen, active, acts, vision, queue, claims, disk, leased, pick, requireLocalPdfReview>>
    PROVE  CoordInv'
<1>1. Handed' = Handed /\ Claimed' = Claimed /\ Staged' = Staged /\ HandedGrows
  BY ClaimedArePdfs DEF Handed, Claimed, Staged, HandedGrows, CoordInv
<1>2. /\ running' = (IF w = None THEN running ELSE running \cup {w})
      /\ running' \subseteq Pdfs /\ port' \in Seq(PortCalls)
      /\ Answers'
  BY <1>1, CleansKeep DEF CoordInv, CopyTypes
<1>3. TaskTypes' /\ CopyTypes' /\ Leases'
  <2>1. TaskTypes'
    BY DEF CoordInv, TaskTypes
  <2>2. CopyTypes' /\ Leases'
    BY <1>1, <1>2 DEF CoordInv, CopyTypes, Leases
  <2> QED BY <2>1, <2>2
<1>4. Waits'
  <2>1. ASSUME NEW q \in running' PROVE Waiter(q)'
    <3>1. CASE q = w
      BY <3>1 DEF Waiter
    <3>2. CASE q # w
      <4>1. Waiter(q) /\ q # disposal.on
        BY <3>2, <1>2, CoordinatorConstants DEF CoordInv, Waits, CopyTypes
      <4> QED BY <4>1 DEF Waiter
    <3> QED BY <3>1, <3>2
  <2> QED BY <2>1 DEF Waits
<1>5. Chain' /\ Order' /\ Fresh'
  BY DEF Chain, Order, Fresh
<1>6. Activity'
  <2>1. ASSUME NEW a \in Activations, acts[a] # None PROVE ActAt(a)'
    <3>1. ActAt(a)
      BY <2>1 DEF CoordInv, Activity
    <3>2. ~IsCurrent(a) /\ ~IsCurrent(a)'
      BY DEF IsCurrent
    <3> QED BY <2>1, <3>1, <3>2, <1>1 DEF ActAt, Owned
  <2> QED BY <2>1 DEF CoordInv, Activity
<1>7. Extraction' /\ Extracting' /\ Shown'
  BY DEF Extraction, Extracting, Shown
<1>8. Progress'
  BY DEF CoordInv, Progress, ReviewFirst
<1> QED
  BY <1>2, <1>3, <1>4, <1>5, <1>6, <1>7, <1>8 DEF CoordInv

LEMMA DisposalKeeps == ASSUME CoordInv, Disposal PROVE CoordInv'
<1>1. /\ DisposalProceeds
      /\ UNCHANGED <<gen, active, acts, vision, queue, owed, epochs, fence, recoveries, starting, disk, leased,
                     pick, requireLocalPdfReview>>
  BY DEF Disposal, tokens, files, given
<1>2. /\ disposal \in Disposals /\ claims \in Seq(Pdfs) /\ sweeps \in Seq(Sweeps) /\ app \in Apps
      /\ owed \in Nat /\ fence \in Int
      /\ Claimed \subseteq Handed
  BY DEF CoordInv, TaskTypes, CopyTypes, SweepTypes, Leases
<1>3. disposal.todo \in Seq(Pdfs)
  BY <1>2, DisposalFields
<1>4. CASE /\ disposal.at = "tasks"
           /\ queue = <<>> /\ active = None /\ vision = None
           /\ disposal' = [disposal EXCEPT !.at = "owned", !.todo = claims]
           /\ UNCHANGED <<app, own, cleanup, sweeps>>
  <2>1. /\ disposal' \in Disposals /\ disposal'.at = "owned" /\ disposal'.todo = claims
        /\ disposal'.on = disposal.on /\ disposal'.readiness = disposal.readiness /\ disposal.on = None
    <3>1. disposal' \in Disposals
      BY <1>2, <1>4 DEF Disposals
    <3>2. disposal.on = None
      BY <1>4 DEF CoordInv, Ending
    <3> QED BY <1>2, <1>4, <3>1, <3>2 DEF Disposals
  <2>2. /\ UNCHANGED <<claims, committed, running, port, sweeps, app>> /\ Handed' = Handed /\ Claimed' = Claimed
        /\ Staged' = Staged /\ ~Mounted /\ ~Mounted'
    BY <1>1, <1>4, <2>1 DEF own, cleanup, Handed, Claimed, Staged, Mounted
  <2>3. Ending' /\ Owners'
    BY <1>1, <1>2, <1>4, <2>1, <2>2 DEF CoordInv, Ending, Owners, ToCommit, Claimed
  <2>4. RegistryCalls' /\ SweepTypes' /\ Privacy'
    BY <1>1, <2>1, <2>2 DEF CoordInv, RegistryCalls, SweepTypes, Privacy
  <2>5. Cleans(None)
    BY <2>2 DEF Cleans, cleanup
  <2> QED BY <1>1, <1>4, <2>1, <2>2, <2>3, <2>4, <2>5, DisposalStepKeeps
<1>5. CASE DisposalCleans
  <2> DEFINE p == Head(disposal.todo)
             t == Tail(disposal.todo)
  <2>1. /\ disposal.at = "owned" /\ disposal.on = None /\ disposal.todo # <<>>
        /\ CleanupClaim(p) /\ disposal' = [disposal EXCEPT !.on = p, !.todo = t]
        /\ UNCHANGED <<app, claims, committed, sweeps>>
    BY <1>5 DEF DisposalCleans, own
  <2>2. /\ p \in Pdfs /\ t \in Seq(Pdfs) /\ p = disposal.todo[1] /\ 1 \in DOMAIN disposal.todo
        /\ \A i \in DOMAIN t : i + 1 \in DOMAIN disposal.todo /\ t[i] = disposal.todo[i + 1]
        /\ \A i \in DOMAIN disposal.todo \ {1} : i - 1 \in DOMAIN t /\ t[i - 1] = disposal.todo[i]
    BY <1>3, <2>1, QueueEnds
  <2> HIDE DEF p, t
  <2>3. /\ disposal' \in Disposals /\ disposal'.at = "owned" /\ disposal'.todo = t
        /\ disposal'.on = p /\ disposal'.readiness = disposal.readiness
    <3>1. disposal' \in Disposals
      BY <1>2, <2>1, <2>2 DEF Disposals
    <3> QED BY <1>2, <2>1, <3>1 DEF Disposals
  <2>4. ToSet(t) \subseteq ToSet(disposal.todo) /\ ToSet(disposal.todo) = ToSet(t) \cup {p}
    <3>1. ToSet(t) \subseteq ToSet(disposal.todo) /\ p \in ToSet(disposal.todo)
      BY <2>2 DEF ToSet
    <3>2. ASSUME NEW i \in DOMAIN disposal.todo PROVE disposal.todo[i] \in ToSet(t) \cup {p}
      <4>1. CASE i = 1
        BY <2>2, <4>1
      <4>2. CASE i # 1
        <5>1. PICK k \in DOMAIN t : t[k] = disposal.todo[i]
          BY <2>2, <4>2
        <5> QED BY <5>1 DEF ToSet
      <4> QED BY <4>1, <4>2
    <3>3. ToSet(disposal.todo) \subseteq ToSet(t) \cup {p}
      BY <3>2 DEF ToSet
    <3> QED BY <3>1, <3>3
  <2>5. p \in Handed /\ queue = <<>> /\ active = None /\ vision = None
    BY <2>1, <2>4 DEF CoordInv, Ending
  <2>6. Handed' = Handed /\ Claimed' = Claimed /\ Staged' = Staged /\ ~Mounted /\ ~Mounted'
        /\ running' = running \cup {p}
    BY <1>1, <2>1, <2>3 DEF Handed, Claimed, Staged, Mounted, CleanupClaim
  <2>7. Cleans(p) /\ p # None
    BY <2>1, <2>2, <2>5, <2>6, CoordinatorConstants DEF Cleans
  <2>8. RegistryCalls'
    BY <1>1, <2>1, <2>2, <2>7, CleansKeepCalls DEF CoordInv
  <2>9. Ending' /\ Owners'
    BY <1>1, <2>1, <2>3, <2>4, <2>6 DEF CoordInv, Ending, Owners, ToCommit
  <2>10. SweepTypes' /\ Privacy'
    BY <1>1, <2>1, <2>3, <2>6 DEF CoordInv, SweepTypes, Privacy
  <2> QED BY <1>1, <2>1, <2>2, <2>3, <2>5, <2>6, <2>7, <2>8, <2>9, <2>10, DisposalStepKeeps
<1>6. CASE /\ disposal.at = "owned" /\ disposal.on = None /\ disposal.todo = <<>>
           /\ disposal' = [disposal EXCEPT !.at = "sweep", !.epoch = owed]
           /\ sweeps' = IF owed = 0 THEN sweeps ELSE WithSweep(owed)
           /\ UNCHANGED <<app, own, cleanup>>
  <2>1. /\ disposal' \in Disposals /\ disposal'.at = "sweep" /\ disposal'.todo = <<>>
        /\ disposal'.on = None /\ disposal'.readiness = disposal.readiness
    <3>1. disposal' \in Disposals
      BY <1>2, <1>6 DEF Disposals
    <3> QED BY <1>2, <1>6, <3>1 DEF Disposals
  <2>2. /\ UNCHANGED <<claims, committed, running, port, app>> /\ Handed' = Handed /\ Claimed' = Claimed
        /\ Staged' = Staged /\ ~Mounted /\ ~Mounted'
        /\ queue = <<>> /\ active = None /\ vision = None
    BY <1>1, <1>6, <2>1 DEF own, cleanup, Handed, Claimed, Staged, Mounted, CoordInv, Ending
  <2>3. Ending' /\ Owners'
    BY <1>1, <1>6, <2>1, <2>2 DEF CoordInv, Ending, Owners, ToCommit, ToSet
  <2>4. sweeps' \in Seq(Sweeps) /\ (sweeps # <<>> => sweeps' # <<>> /\ sweeps'[1] = sweeps[1])
    <3> DEFINE s == [epoch |-> owed, at |-> "prior", fence |-> fence, shown |-> FALSE]
    <3>1. s \in Sweeps
      BY <1>2 DEF Sweeps
    <3>2. sweeps' = sweeps \/ sweeps' = Append(sweeps, s)
      BY <1>6 DEF WithSweep
    <3> HIDE DEF s
    <3>3. sweeps # <<>> => 1 \in DOMAIN sweeps
      BY <1>2, QueueEnds
    <3> QED BY <3>1, <3>2, <3>3, <1>2
  <2>5. RegistryCalls' /\ SweepTypes' /\ Privacy'
    BY <1>1, <2>1, <2>2, <2>4 DEF CoordInv, RegistryCalls, SweepTypes, Privacy
  <2>6. Cleans(None)
    BY <2>2 DEF Cleans, cleanup
  <2> QED BY <1>1, <1>6, <2>1, <2>2, <2>3, <2>5, <2>6, DisposalStepKeeps
<1>7. CASE /\ disposal.at = "sweep"
           /\ disposal' = [disposal EXCEPT !.at = "disposed"]
           /\ committed' = None /\ retained' = None /\ app' = DisposedApp(owed)
           /\ UNCHANGED <<claims, cleanup, sweeps>>
  <2>1. /\ disposal' \in Disposals /\ disposal'.at = "disposed" /\ disposal'.todo = disposal.todo
        /\ disposal'.on = disposal.on /\ disposal'.readiness = disposal.readiness /\ disposal.on = None
    BY <1>2, <1>7, DisposalEnds DEF CoordInv, Ending
  <2>2. /\ UNCHANGED <<claims, running, port, sweeps>> /\ Handed' = Handed /\ Claimed' = Claimed
        /\ Staged' = Staged /\ ~Mounted /\ ~Mounted'
        /\ queue = <<>> /\ active = None /\ vision = None
    BY <1>1, <1>7, <2>1 DEF cleanup, Handed, Claimed, Staged, Mounted, CoordInv, Ending
  <2>3. /\ app' \in Apps /\ app'.status \in {"failed", "idle"}
        /\ app'.readiness = IF owed # 0 THEN "blocked" ELSE disposal.readiness
    BY <1>2, <1>7, DisposedAppIs
  <2>4. Ending' /\ Owners'
    BY <1>1, <1>7, <2>1, <2>2 DEF CoordInv, Ending, Owners
  <2>5. RegistryCalls' /\ SweepTypes' /\ Privacy'
    BY <1>1, <2>1, <2>2, <2>3 DEF CoordInv, RegistryCalls, SweepTypes, Privacy
  <2>6. Cleans(None)
    BY <2>2 DEF Cleans, cleanup
  <2> QED BY <1>1, <1>7, <2>1, <2>2, <2>3, <2>4, <2>5, <2>6, DisposalStepKeeps
<1> QED BY <1>1, <1>4, <1>5, <1>6, <1>7 DEF DisposalProceeds

-----------------------------------------------------------------------------
(* The invariant holds in every step                                       *)

LEMMA CoordInvInit == Init => CoordInv
<1> SUFFICES ASSUME Init PROVE CoordInv
  OBVIOUS
<1>0. /\ app = [status |-> "idle", readiness |-> "checking", source |-> None, review |-> FALSE,
                cleanupPending |-> FALSE, mutation |-> "none"]
      /\ gen = 0 /\ active = None /\ acts = [a \in Activations |-> None]
      /\ vision = None /\ queue = <<>>
      /\ disposal = [at |-> "mounted", todo |-> <<>>, on |-> None, clean |-> TRUE,
                     epoch |-> 0, readiness |-> "checking"]
      /\ claims = <<>> /\ committed = None
      /\ running = {} /\ port = <<[kind |-> "initialize", late |-> FALSE]>>
      /\ owed = 0 /\ epochs = 0 /\ fence = 0 /\ sweeps = <<>>
      /\ recoveries = {} /\ starting = TRUE
      /\ disk \subseteq {Leftover} /\ leased = {}
      /\ pick = [p \in Pdfs |-> "idle"]
  BY DEF Init, InitialApp
<1>1. /\ <<>> \in Seq(Mutations) /\ <<>> \in Seq(Pdfs) /\ <<>> \in Seq(Sweeps) /\ DOMAIN <<>> = {}
      /\ ToSet(<<>>) = {} /\ IsInjective(<<>>)
  BY DEF ToSet, IsInjective
<1> DEFINE c == [kind |-> "initialize", late |-> FALSE]
<1>2. c \in PortCalls
  BY DEF PortCalls
<1>3. port \in Seq(PortCalls) /\ port # <<>> /\ DOMAIN port = {1} /\ port[1] = c
  BY <1>0, <1>2
<1>4. disposal \in Disposals /\ app \in Apps
  BY <1>0, <1>1 DEF Disposals, Apps
<1>5. TaskTypes
  BY <1>0, <1>1, <1>4 DEF TaskTypes
<1>6. CopyTypes
  BY <1>0, <1>1, <1>3 DEF CopyTypes, Picks
<1>7. SweepTypes
  BY <1>0, <1>1 DEF SweepTypes
<1>8. Handed = {} /\ Claimed = {} /\ Staged = {} /\ Mounted
  BY <1>0, <1>1 DEF Handed, Claimed, Staged, Mounted
<1>9. Leases /\ Waits /\ Ending /\ Owners /\ Privacy
  BY <1>0, <1>1, <1>8 DEF Leases, Waits, Ending, Owners, Privacy
<1>10. Answers /\ RegistryCalls
  BY <1>0, <1>3 DEF Answers, RegistryCalls, Exact
<1>11. Chain /\ Order /\ Fresh
  BY <1>0, <1>1 DEF Chain, Order, Fresh
<1>12. Activity /\ Extraction /\ Extracting /\ Progress /\ Shown
  BY <1>0, <1>1 DEF Activity, Extraction, Extracting, Progress, Shown
<1> QED
  BY <1>5, <1>6, <1>7, <1>9, <1>10, <1>11, <1>12 DEF CoordInv

LEMMA CoordInvStays == ASSUME CoordInv, UNCHANGED vars PROVE CoordInv'
<1>0. UNCHANGED <<app, gen, active, acts, vision, queue, disposal, claims, committed, running, port, owed, epochs,
                  fence, sweeps, recoveries, starting, disk, leased, pick, requireLocalPdfReview>>
  BY DEF vars, tokens, tasks, own, cleanup, privacy, files, given
<1>1. TaskTypes' /\ CopyTypes' /\ SweepTypes'
  BY <1>0 DEF CoordInv, TaskTypes, CopyTypes, SweepTypes, Mounted
<1>2. Handed' = Handed /\ Claimed' = Claimed /\ Staged' = Staged /\ Mounted' = Mounted
  BY <1>0 DEF Handed, Claimed, Staged, Mounted
<1>3. Leases' /\ Answers' /\ RegistryCalls'
  BY <1>0, <1>2 DEF CoordInv, Leases, Answers, RegistryCalls, Exact
<1>4. Waits' /\ Ending' /\ Owners' /\ Privacy'
  BY <1>0, <1>2 DEF CoordInv, Waits, Waiter, Ending, Owners, ToCommit, Privacy
<1>5. \A m \in Mutations : MutationAt(m) => MutationAt(m)'
  BY <1>0, <1>2 DEF MutationAt, Requested, Concluded, Busy, Owned
<1>6. Chain' /\ Order' /\ Fresh'
  <2>1. \A i \in DOMAIN queue : queue[i] \in Mutations /\ MutationAt(queue[i])
    BY DEF CoordInv, TaskTypes, Chain
  <2>2. \A i \in DOMAIN queue : MutationAt(queue[i])'
    BY <2>1, <1>0, <1>5
  <2> QED BY <2>2, <1>0 DEF CoordInv, Chain, Order, Fresh, FreshAt
<1>7. Activity'
  <2>1. \A a \in Activations : ActAt(a) => ActAt(a)'
    BY <1>0, <1>2 DEF ActAt, IsCurrent, ReviewFirst, Owned
  <2> QED BY <2>1, <1>0 DEF CoordInv, Activity
<1>8. Extraction' /\ Extracting' /\ Progress' /\ Shown'
  BY <1>0, <1>2 DEF CoordInv, Extraction, Extracting, Progress, Shown, Owned, IsCurrent, ReviewFirst
<1> QED
  BY <1>1, <1>3, <1>4, <1>6, <1>7, <1>8 DEF CoordInv

LEMMA CoordInvStep == CoordInv /\ [Next]_vars => CoordInv'
<1> SUFFICES ASSUME CoordInv, [Next]_vars PROVE CoordInv'
  OBVIOUS
<1>1. CASE Continuation
  <2>1. Mutation => CoordInv'
    BY MutationIs, MutationGoesKeeps, MutationEndsKeeps
  <2> QED
    BY <1>1, <2>1, ActivationKeeps, VisionEndsKeeps, SweepProceedsKeeps, RecoveryKeeps, DisposalKeeps
    DEF Continuation
<1>2. CASE Quiet /\ Event
  <2>1. MutationVerifies => CoordInv'
    <3> SUFFICES ASSUME MutationVerifies PROVE CoordInv'
      OBVIOUS
    <3>1. MutationGoes \/ (queue # <<>> /\ MutationEnds(Head(queue)) /\ Mutation)
      BY MutationIs
    <3> QED BY <3>1, MutationGoesKeeps, MutationEndsKeeps
  <2>2. ASSUME NEW p \in Pdfs, PdfStaged(p) \/ PdfPicked(p) \/ PdfPickEmpty(p) \/ PdfPickFailed(p)
        PROVE  CoordInv'
    BY <1>2, <2>2, PdfStagedKeeps, PdfPickedKeeps, PdfPickEmptyKeeps, PdfPickFailedKeeps
  <2> QED
    BY <1>2, <2>1, <2>2, CommandKeeps, DisposeKeeps, ActivationKeeps, VisionAnsweredKeeps, ExactAnsweredKeeps,
       InitializationAnsweredKeeps, SweepAnsweredKeeps, ExactTimesOutKeeps, InitializationTimesOutKeeps,
       SweepTimesOutKeeps
    DEF Event
<1>3. CASE UNCHANGED vars
  BY <1>3, CoordInvStays
<1> QED BY <1>1, <1>2, <1>3 DEF Next

-----------------------------------------------------------------------------
(* What the invariant says                                                 *)

LEMMA AllHaveAnEnd == CoordInv => ReadyMeansClean /\ EveryPdfHasAnEnd /\ BusyHasATask
<1> SUFFICES ASSUME CoordInv PROVE ReadyMeansClean /\ EveryPdfHasAnEnd /\ BusyHasATask
  OBVIOUS
<1>1. ReadyMeansClean
  BY DEF CoordInv, Privacy, ReadyMeansClean, Claimed
<1>2. ASSUME queue = <<>>, NEW p \in (disk \cap Pdfs) \cup ({committed} \ {None}),
             p \notin Staged, p \notin running, app.readiness # "blocked"
      PROVE  /\ p = committed /\ Owned(p) /\ IsLive(p)
             /\ IF Mounted THEN p = app.source
                ELSE disposal.at = "tasks" \/ p \in ToSet(disposal.todo)
  <2>1. p \in Claimed
    BY <1>2, CoordinatorConstants, CoordinatorAssumption DEF CoordInv, Privacy, Leases
  <2>2. DOMAIN queue = {}
    BY <1>2
  <2>3. p = committed
    BY <2>1, <2>2, <1>2 DEF CoordInv, Owners, ToCommit
  <2>4. Owned(p) /\ IsLive(p)
    BY <2>1 DEF CoordInv, Leases, Owned, Claimed, IsLive
  <2>5. committed # None
    BY <2>1, <2>3, ClaimedArePdfs, CoordinatorConstants
  <2>6. Mounted => p = app.source
    BY <2>3, <2>5 DEF CoordInv, Shown
  <2>7. disposal.at \in {"mounted", "tasks", "owned", "sweep", "disposed"}
    BY DEF CoordInv, TaskTypes, Disposals
  <2>8. ~Mounted => disposal.at = "tasks" \/ p \in ToSet(disposal.todo)
    BY <2>1, <2>7, <1>2 DEF CoordInv, Owners, Mounted
  <2> QED BY <2>3, <2>4, <2>6, <2>8
<1>3. EveryPdfHasAnEnd
  BY <1>2 DEF EveryPdfHasAnEnd
<1>4. BusyHasATask
  <2> SUFFICES ASSUME Mounted, app.readiness = "ready"
               PROVE  /\ app.mutation = "extracting" => VisionExtractionIsCurrent
                      /\ app.mutation \notin {"none", "extracting"} =>
                             \E i \in DOMAIN queue : IsCurrentMutation(queue[i])
                      /\ app.status = "analyzing" => SomeActive
    BY DEF BusyHasATask
  <2>1. app.mutation = "extracting" => VisionExtractionIsCurrent
    BY DEF CoordInv, Extracting, VisionExtractionIsCurrent
  <2>2. ASSUME app.mutation \notin {"none", "extracting"}
        PROVE  \E i \in DOMAIN queue : IsCurrentMutation(queue[i])
    <3>1. queue \in Seq(Mutations) /\ queue # <<>> /\ queue[Len(queue)].gen = gen
      BY <2>2 DEF CoordInv, TaskTypes, Progress
    <3>2. Len(queue) \in DOMAIN queue
      BY <3>1
    <3> QED BY <2>2, <3>1, <3>2 DEF IsCurrentMutation
  <2>3. app.status = "analyzing" => SomeActive
    BY DEF CoordInv, Progress, Activity, IsCurrent, TaskTypes, SomeActive, ActivationIsCurrent
  <2> QED BY <2>1, <2>2, <2>3
<1> QED BY <1>1, <1>3, <1>4

LEMMA UploadsOfCurrent ==
    CoordInv /\ [Next]_vars =>
      \A a \in Activations :
         acts[a] # None /\ acts'[a] # None
         /\ acts[a].at = "call" /\ acts'[a].at = "api" =>
            /\ ActivationIsCurrent(a)
            /\ acts[a].source = app.source
            /\ app.readiness = "ready" /\ owed = 0
            /\ acts[a].source \in Pdfs => ~requireLocalPdfReview
            /\ acts[a].claim # None => IsLive(acts[a].claim) /\ acts[a].claim \notin running
<1> SUFFICES ASSUME CoordInv, [Next]_vars, NEW a \in Activations, acts[a] # None, acts'[a] # None,
                    acts[a].at = "call", acts'[a].at = "api"
             PROVE  /\ ActivationIsCurrent(a)
                    /\ acts[a].source = app.source
                    /\ app.readiness = "ready" /\ owed = 0
                    /\ acts[a].source \in Pdfs => ~requireLocalPdfReview
                    /\ acts[a].claim # None => IsLive(acts[a].claim) /\ acts[a].claim \notin running
  OBVIOUS
<1>1. Activation
  <2>1. acts' # acts
    OBVIOUS
  <2>2. ~Quiet
    BY QuietFacts
  <2>3. Mutation \/ VisionEnds \/ SweepProceeds \/ Recovery \/ Disposal \/ UNCHANGED vars => acts' = acts
    BY DEF Mutation, VisionEnds, SweepProceeds, Recovery, Disposal, vars, tasks, Unswept
  <2> QED BY <2>1, <2>2, <2>3 DEF Next, Continuation
<1>2. acts \in [Activations -> Acts \cup {None}] /\ acts[a] \in Acts /\ ActAt(a)
  BY DEF CoordInv, TaskTypes, Activity
<1>3. ~acts[a].aborted
  <2>1. PICK b \in Activations : ActivationAborted(b) \/ Upload(b) \/ ActivationEnds(b)
    BY <1>1 DEF Activation
  <2>2. a = b
    BY <2>1, <1>2 DEF ActivationAborted, Upload, ActivationEnds, Terminate, SetAct, EndAct
  <2>3. CASE ActivationAborted(b)
    <3>1. acts'[a].at = "terminal"
      <4> DEFINE x == [acts[a] EXCEPT !.at = "terminal", !.out = "cancelled"]
      <4>1. x \in Acts /\ x.at = "terminal"
        BY <1>2 DEF Acts
      <4> HIDE DEF x
      <4>2. Terminate(a, "cancelled")
        BY <2>2, <2>3 DEF ActivationAborted
      <4>3. \/ acts' = [acts EXCEPT ![a] = [x EXCEPT !.on = x.claim]]
            \/ acts' = [acts EXCEPT ![a] = [x EXCEPT !.clean = x.source \notin Pdfs]]
        BY <4>2 DEF Terminate, SetAct, x
      <4>4. /\ [x EXCEPT !.on = x.claim].at = "terminal"
            /\ [x EXCEPT !.clean = x.source \notin Pdfs].at = "terminal"
        BY <4>1 DEF Acts
      <4> QED BY <4>3, <4>4, <1>2
    <3> QED BY <3>1
  <2>4. CASE Upload(b)
    BY <2>2, <2>4 DEF Upload
  <2>5. CASE ActivationEnds(b)
    BY <2>2, <2>5 DEF ActivationEnds
  <2> QED BY <2>1, <2>3, <2>4, <2>5
<1>4. IsCurrent(a) /\ ActivationIsCurrent(a)
  BY <1>2, <1>3 DEF ActAt, IsCurrent, ActivationIsCurrent
<1>5. /\ app.readiness = "ready" /\ acts[a].source = app.source /\ ~ReviewFirst(acts[a].source)
      /\ acts[a].claim # None => committed = acts[a].claim /\ acts[a].claim \notin running
  BY <1>2, <1>4 DEF ActAt
<1>6. owed = 0
  BY <1>5 DEF CoordInv, Privacy
<1>7. acts[a].claim # None => IsLive(acts[a].claim)
  BY <1>5 DEF CoordInv, Leases, IsLive
<1> QED BY <1>4, <1>5, <1>6, <1>7 DEF ReviewFirst

-----------------------------------------------------------------------------
(* Types                                                                   *)

\* What TypeOK says beyond the invariant: a fence waits for calls that are there.
FenceOk == fence \in 0 .. Len(port) /\ retained \in Pdfs \cup {None}

CallsGrow == port' = port \/ \E x : port' = Append(port, x)

LEMMA CleansGrow ==
    /\ \A w : CleanupClaim(w) => CallsGrow
    /\ \A w : Cleans(w) => CallsGrow
    /\ UNCHANGED cleanup => CallsGrow
BY DEF Cleans, CleanupClaim, cleanup, CallsGrow

LEMMA FenceGrows ==
    ASSUME CoordInv, CoordInv', FenceOk, fence' = fence, CallsGrow \/ Len(port') = Len(port),
           retained' \in {retained, None} \cup Pdfs
    PROVE  FenceOk'
<1>1. port \in Seq(PortCalls) /\ port' \in Seq(PortCalls)
  BY DEF CoordInv, CopyTypes
<1>2. Len(port') >= Len(port) /\ Len(port) \in Nat /\ Len(port') \in Nat
  BY <1>1 DEF CallsGrow
<1> QED BY <1>2 DEF FenceOk

LEMMA FenceShrinks ==
    ASSUME CoordInv, FenceOk, fence' \in {0, Fewer(fence)}, port # <<>>, port' = Tail(port),
           retained' \in {retained, None}
    PROVE  FenceOk'
<1>1. port \in Seq(PortCalls)
  BY DEF CoordInv, CopyTypes
<1>2. Len(port') = Len(port) - 1 /\ Len(port) \in Nat \ {0}
  BY <1>1, QueueEnds
<1> QED BY <1>2 DEF FenceOk, Fewer

LEMMA FenceSet ==
    ASSUME CoordInv', NEW calls, port' = calls, MarkAbandoned(calls), FenceOk, retained' \in {retained, None}
    PROVE  FenceOk'
<1>1. calls \in Seq(PortCalls)
  BY DEF CoordInv, CopyTypes
<1> QED BY <1>1, FenceIs, CoordinatorConstants DEF FenceOk

LEMMA FenceStep ==
    ASSUME CoordInv, CoordInv', FenceOk, [Next]_vars
    PROVE  FenceOk'
<1>1. CASE UNCHANGED vars
  BY <1>1 DEF vars, privacy, cleanup, own, FenceOk
<1>2. CASE Mutation \/ MutationVerifies
  <2>1. CASE MutationGoes
    <3>1. CallsGrow /\ fence' = fence /\ retained' = retained
      BY <2>1, CleansGrow DEF MutationGoes, privacy, own
    <3> QED BY <3>1, FenceGrows
  <2>2. CASE MutationEnds(Head(queue)) /\ Mutation
    <3>1. port' = port /\ fence' = fence /\ retained' \in {retained, None}
      BY <2>2 DEF Mutation, MutationEnds, cleanup, privacy
    <3> QED BY <3>1, FenceGrows DEF CallsGrow
  <2> QED BY <1>2, <2>1, <2>2, MutationIs
<1>3. CASE Activation \/ ActivationAnswered
  <2>1. fence' = fence
    BY <1>3 DEF Activation, ActivationAnswered, OtherThanActs, privacy
  <2>2. ASSUME NEW a \in Activations, NEW out, Terminate(a, out) PROVE CallsGrow /\ retained' = retained
    BY <2>2, CleansGrow DEF Terminate, own
  <2>3. ASSUME NEW a \in Activations, RetainForVision(a) PROVE CallsGrow /\ retained' \in Pdfs
    <3>1. retained' \in Claimed /\ CallsGrow
      BY <2>3, OwnedIsClaimed, CleansGrow DEF RetainForVision
    <3> QED BY <3>1, ClaimedArePdfs DEF CoordInv
  <2>4. ASSUME NEW a \in Activations,
               ActivationAborted(a) \/ Upload(a) \/ ActivationEnds(a) \/ ConsentRead(a) \/ ConsentWritten(a)
        PROVE  CallsGrow /\ retained' = retained
    BY <2>2, <2>4, CleansGrow
    DEF ActivationAborted, Upload, ActivationEnds, ConsentRead, ConsentWritten, Outlived, StartNetwork, own
  <2>5. ASSUME NEW a \in Activations, ApiAnswers(a) PROVE CallsGrow /\ retained' \in {retained} \cup Pdfs
    BY <2>2, <2>3, <2>5 DEF ApiAnswers
  <2>6. CallsGrow /\ retained' \in {retained} \cup Pdfs
    BY <1>3, <2>4, <2>5 DEF Activation, ActivationAnswered
  <2> QED BY <2>1, <2>6, FenceGrows
<1>4. CASE VisionEnds \/ VisionAnswered
  <2>1. fence' = fence /\ retained' = retained /\ CallsGrow
    BY <1>4, CleansGrow DEF VisionEnds, VisionAnswered, VisionTo, VisionCleans, privacy, own
  <2> QED BY <2>1, FenceGrows
<1>5. CASE SweepProceeds \/ Recovery \/ Disposal \/ Dispose
  <2>1. CASE SweepProceeds
    BY <2>1, FenceGrows DEF SweepProceeds, Unswept, own, CallsGrow
  <2>2. CASE Recovery
    BY <2>2, FenceGrows, CleansGrow DEF Recovery, own
  <2>3. CASE Disposal
    <3>1. fence' = fence /\ retained' \in {retained, None} /\ CallsGrow
      BY <2>3, CleansGrow DEF Disposal, DisposalProceeds, DisposalCleans, own
    <3> QED BY <3>1, FenceGrows
  <2>4. CASE Dispose
    BY <2>4, FenceGrows, CleansGrow DEF Dispose, own, privacy
  <2> QED BY <1>5, <2>1, <2>2, <2>3, <2>4
<1>6. CASE UserCommand
  <2>1. Unasked' = Unasked \/ RecoverPrivacyCleanup
    BY <1>6 DEF UserCommand, Select, RefusedCommand, SetJobDescription, ExtractVisionDraft, CompleteVisionReview,
                Analyze, GrantConsent, DeclineConsent, Cancel, CancelVisionExtraction, Reset, HandleAppState,
                BeginPdfPick, AbortPdfPick
  <2>2. fence' = fence /\ retained' = retained /\ CallsGrow
    BY <2>1, CleansGrow DEF Unasked, RecoverPrivacyCleanup, own, privacy
  <2> QED BY <2>2, FenceGrows
<1>7. ASSUME NEW p \in Pdfs, PdfStaged(p) \/ PdfPicked(p) \/ PdfPickEmpty(p) \/ PdfPickFailed(p)
      PROVE  FenceOk'
  <2>1. CASE PdfPickFailed(p)
    BY <2>1, FenceSet DEF PdfPickFailed, cleanup, own
  <2>2. CASE PdfStaged(p) \/ PdfPicked(p) \/ PdfPickEmpty(p)
    <3>1. fence' = fence /\ retained' = retained /\ CallsGrow
      BY <2>2, CleansGrow DEF PdfStaged, PdfPicked, PdfPickEmpty, own, privacy
    <3> QED BY <3>1, FenceGrows
  <2> QED BY <1>7, <2>1, <2>2
<1>8. CASE ExactAnswered
  <2>1. port # <<>>
    BY <1>8 DEF ExactAnswered, Answered
  <2>2. CASE Head(port).late
    <3>1. port' = Tail(port) /\ fence' = Fewer(fence) /\ retained' = retained
      BY <1>8, <2>2 DEF ExactAnswered, own
    <3> QED BY <2>1, <3>1, FenceShrinks
  <2>3. CASE ~Head(port).late
    <3>1. PICK ok \in BOOLEAN : Settle(Head(port).pdf, ok, Tail(port))
      BY <1>8, <2>3 DEF ExactAnswered
    <3>2. port' = Tail(port) /\ retained' \in {retained, None}
      BY <3>1 DEF Settle, RetireClaim
    <3>3. CASE ok
      BY <2>1, <3>1, <3>2, <3>3, FenceShrinks DEF Settle
    <3>4. CASE ~ok
      BY <3>1, <3>2, <3>4, FenceSet DEF Settle
    <3> QED BY <3>3, <3>4
  <2> QED BY <2>2, <2>3
<1>9. CASE ExactTimesOut
  <2>1. PICK i \in DOMAIN port : Settle(port[i].pdf, FALSE, Late(i))
    BY <1>9 DEF ExactTimesOut
  <2>2. port' = Late(i) /\ retained' \in {retained, None} /\ MarkAbandoned(Late(i))
    BY <2>1 DEF Settle, RetireClaim
  <2> QED BY <2>2, FenceSet
<1>10. CASE InitializationAnswered
  BY <1>10, FenceShrinks DEF InitializationAnswered, Answered, own
<1>11. CASE SweepAnswered
  <2>1. port # <<>> /\ port' = Tail(port) /\ retained' = retained
    BY <1>11 DEF SweepAnswered, Answered, Unswept, own
  <2>2. fence' \in {0, Fewer(fence)}
    BY <1>11 DEF SweepAnswered
  <2> QED BY <2>1, <2>2, FenceShrinks
<1>12. CASE InitializationTimesOut \/ SweepTimesOut
  <2>1. fence' = fence /\ retained' = retained /\ (port' = port \/ \E i : port' = Late(i))
    BY <1>12 DEF InitializationTimesOut, SweepTimesOut, Unswept, own, privacy
  <2>2. port \in Seq(PortCalls) /\ port' \in Seq(PortCalls)
    BY DEF CoordInv, CopyTypes
  <2>3. Len(port') = Len(port)
    BY <2>1, <2>2 DEF Late
  <2> QED BY <2>1, <2>3, FenceGrows
<1> QED
  BY <1>1, <1>2, <1>3, <1>4, <1>5, <1>6, <1>7, <1>8, <1>9, <1>10, <1>11, <1>12
  DEF Next, Continuation, Event

LEMMA CoordTypesOK == CoordInv /\ FenceOk => TypeOK
<1> SUFFICES ASSUME CoordInv, FenceOk PROVE TypeOK
  OBVIOUS
<1>1. app.status \in {"idle", "ready", "consentRequired", "analyzing", "succeeded", "failed", "cancelled"}
      /\ app.readiness \in {"checking", "ready", "blocked"} /\ app.source \in Sources \cup {None}
      /\ app.mutation \in {"none", "selecting", "editing", "extracting", "resetting", "consent"}
  BY DEF CoordInv, TaskTypes, Apps
<1>2. \A a \in Activations : acts[a] # None => acts[a].source \in Sources /\ acts[a].on \in Pdfs \cup {None}
  BY ActFields DEF CoordInv, TaskTypes
<1>3. \A i \in DOMAIN queue : queue[i].at \in Places /\ queue[i].on \in Pdfs \cup {None}
  <2>1. ASSUME NEW i \in DOMAIN queue PROVE queue[i] \in Mutations
    BY DEF CoordInv, TaskTypes
  <2> QED BY <2>1, MutationFields
<1>4. ToSet(claims) \subseteq Pdfs
  BY ClaimedArePdfs DEF CoordInv, Claimed
<1> QED BY <1>1, <1>2, <1>3, <1>4 DEF TypeOK, CoordInv, TaskTypes, CopyTypes, SweepTypes, FenceOk

-----------------------------------------------------------------------------
(* The theorems                                                            *)

LEMMA CoordAlways == Spec => [](CoordInv /\ FenceOk)
<1>1. Init => FenceOk
  BY DEF Init, FenceOk
<1>2. CoordInv /\ FenceOk /\ [Next]_vars => (CoordInv /\ FenceOk)'
  BY CoordInvStep, FenceStep
<1> QED
  BY <1>1, <1>2, CoordInvInit, PTL DEF Spec

\* The coordinator's variables keep their types: of all the calls of the
\* registry a fence waits for some that are there (boundedCleanup,
\* markAbandonedCleanupRequired).
THEOREM CoordinatorTypes == Spec => []TypeOK
BY CoordAlways, CoordTypesOK, PTL

\* Privacy is ready only when every copy in the cache belongs to a live claim
\* or to the picker; once the tasks are over a copy is the committed source, or
\* somebody deletes it, or privacy is blocked; and what the screen shows in
\* progress has a task (performCleanupClaim, transferCleanupToAbandoned,
\* enqueueMutation, performDisposal).
THEOREM PdfsEnd == Spec => [](ReadyMeansClean /\ EveryPdfHasAnEnd /\ BusyHasATask)
BY CoordAlways, AllHaveAnEnd, PTL

\* What is uploaded is the source on the screen, for the activation that is
\* current, with nothing to clean up, and reviewed on the device where that is
\* required; none of its copy is being deleted (runNetwork).
THEOREM UploadsAreCurrent == Spec => UploadsCurrent
<1>1. CoordInv /\ [Next]_vars =>
        [\A a \in Activations :
         acts[a] # None /\ acts'[a] # None
         /\ acts[a].at = "call" /\ acts'[a].at = "api" =>
            /\ ActivationIsCurrent(a)
            /\ acts[a].source = app.source
            /\ app.readiness = "ready" /\ owed = 0
            /\ acts[a].source \in Pdfs => ~requireLocalPdfReview
            /\ acts[a].claim # None => IsLive(acts[a].claim) /\ acts[a].claim \notin running]_vars
  BY UploadsOfCurrent
<1>2. Spec =>
        [][\A a \in Activations :
         acts[a] # None /\ acts'[a] # None
         /\ acts[a].at = "call" /\ acts'[a].at = "api" =>
            /\ ActivationIsCurrent(a)
            /\ acts[a].source = app.source
            /\ app.readiness = "ready" /\ owed = 0
            /\ acts[a].source \in Pdfs => ~requireLocalPdfReview
            /\ acts[a].claim # None => IsLive(acts[a].claim) /\ acts[a].claim \notin running]_vars
  BY <1>1, CoordAlways, PTL DEF Spec
<1> QED
  BY <1>2 DEF UploadsCurrent
=============================================================================
