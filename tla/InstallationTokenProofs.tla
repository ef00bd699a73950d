----------------------- MODULE InstallationTokenProofs -----------------------
(***************************************************************************)
(* That the installation the phone holds is whole and wanted, for any      *)
(* number of callers and issues and however they abort, fail, run late and *)
(* are killed.  The argument is about generations.  One that was active    *)
(* once is neither pending nor will be again, so whoever has seen it still *)
(* finds it active or never will (Known).  The generation of an issue that *)
(* was cancelled is never finalized, and what is late is of such a one, or *)
(* deletes a generation that was retired; so the slots of the generation   *)
(* that is active, or of the one about to be, change for nobody else.      *)
(***************************************************************************)
EXTENDS InstallationToken, FiniteSetTheorems, TLAPS

-----------------------------------------------------------------------------
(* The invariant.  Each part is about one record and the row and slots it   *)
(* is to be read with, which are parameters.                                *)

AuthorityOk(a) ==
    /\ a \in [next : Nat \ {0}, active : Nat, pending : Nat]
    /\ a.active < a.next /\ a.pending < a.next
    /\ a.pending # None => a.active < a.pending

\* A generation that was active once.
Known(g, a) == g \in Generations /\ g < a.next /\ g # a.pending

\* The issues that may reserve a generation yet.
Unreserved ==
    {i \in Issues : \/ issue[i].pc \in {"unused", "reserve"}
                    \/ \E o \in late : o.op = "reserve" /\ o.by = i}
Spare ==
    /\ authority.next + Cardinality(Unreserved) <= MaxIssues + 1
    /\ \A o \in late : o.op = "reserve" => issue[o.by].pc \notin {"unused", "reserve"}

Won == {"finalized", "confirmed", "replaced"}
IssueSteps == {"unused", "reserve", "reserved", "fetch", "token", "identity", "commit", "finalize",
               "failing", "done"} \cup Won
Phases == {"issuing", "committing", "cancelling"}
Errors == {"failed", "cancelled"}
TokenOrNone == Tokens \cup {None}
SeenOrNone  == Generations \cup {None}
IssueType ==
    [pc : IssueSteps, phase : Phases, aborted : BOOLEAN, ticket : SeenOrNone,
     generation : SeenOrNone, callers : SUBSET Calls, result : TokenOrNone, error : Errors]

PhaseOk(rec) ==
    /\ rec.aborted => rec.phase = "cancelling"
    /\ rec.phase = "cancelling" => rec.pc \in {"reserved", "commit", "failing", "done"}
    /\ rec.phase = "committing" => rec.pc \in {"finalize", "failing", "done"} \cup Won
    /\ rec.pc \in {"finalize"} \cup Won => rec.phase = "committing"

TicketOk(rec, a) ==
    /\ rec.ticket < a.next
    /\ rec.generation \in {None, rec.ticket}
    /\ rec.pc \in {"unused", "reserve"} => rec.ticket = None
    /\ rec.pc = "reserved" => rec.ticket # None
    /\ rec.pc \in {"fetch", "token", "identity", "commit", "finalize", "failing"} \cup Won
         => rec.generation = rec.ticket /\ rec.ticket # None
    /\ rec.pc \in Won => Known(rec.ticket, a)

\* Who holds the active generation has won it and wrote its token; who holds the
\* pending one, and was not cancelled, has written what its step says.
WrittenOk(i, rec, a, t, d) ==
    /\ rec.ticket = a.active /\ a.active # None =>
         /\ rec.phase = "committing" /\ rec.pc \in Won \cup {"done"}
         /\ t[rec.ticket] = i
    /\ rec.ticket = a.pending /\ a.pending # None /\ rec.phase # "cancelling" =>
         /\ rec.pc \in {"identity", "commit", "finalize"} => t[rec.ticket] = i
         /\ rec.pc \in {"commit", "finalize"} => d[rec.ticket] = i

IssueOk(i, rec, a, t, d) ==
    rec \in IssueType /\ PhaseOk(rec) /\ TicketOk(rec, a) /\ WrittenOk(i, rec, a, t, d)

TicketsDiffer ==
    \A i, j \in Issues : i # j /\ issue[i].ticket = issue[j].ticket => issue[i].ticket = None

Live(rec) == rec.pc \notin {"unused", "done"} /\ rec.phase # "cancelling"
OneFlight == \A i \in Issues : Live(issue[i]) => inFlight = i

CallSteps == {"idle", "reading", "join", "cancelling", "id_read", "id_slots", "id_confirm",
              "id_judged", "id_retired", "id_delete", "inv_read", "inv_slot", "inv_retire",
              "inv_retired", "done"}
CallKinds == Kinds \cup {"none"}
Replies   == Answers \cup {"none"}
CallType ==
    [kind : CallKinds, pc : CallSteps, token : TokenOrNone, identity : TokenOrNone,
     seen : SeenOrNone, ok : BOOLEAN, tries : Nat, issue : Issues \cup {None}, answer : Replies]
Seeing == {"id_slots", "id_confirm", "id_judged", "id_retired", "id_delete", "inv_slot",
           "inv_retire", "inv_retired"}

\* What a call has read of the generation it saw is so while that is active, and
\* what it deletes was retired.
CallOk(rec, a, t) ==
    /\ rec \in CallType
    /\ rec.pc \in {"join", "cancelling"} => rec.issue # None
    /\ rec.pc # "done" => rec.answer = "none"
    /\ rec.answer = "identity" => rec.identity = rec.token
    /\ rec.pc \in Seeing => Known(rec.seen, a)
    /\ rec.pc \in {"id_retired", "id_delete"} => rec.seen # a.active
    /\ rec.pc = "id_confirm" /\ rec.ok /\ rec.seen = a.active =>
         rec.token = t[rec.seen] /\ rec.identity = rec.token
    /\ rec.pc = "inv_retire" /\ rec.seen = a.active => rec.token = t[rec.seen]

ReadSteps == {"idle", "none", "found", "failed"} \cup Reading
ReadType ==
    [pc : ReadSteps, seen : SeenOrNone, token : TokenOrNone, ok : BOOLEAN, tries : Nat]
ReadOk(rec, a, t) ==
    /\ rec \in ReadType
    /\ rec.pc \in Reading \ {"read"} => Known(rec.seen, a)
    /\ rec.pc \in {"confirm", "judge"} /\ rec.seen = a.active => rec.token = t[rec.seen]

CacheOk(c, a, t) ==
    /\ c \in [generation : Generations \cup {None}, token : Tokens \cup {None}]
    /\ c.generation # None => Known(c.generation, a)
    /\ c.generation # None /\ c.generation = a.active => c.token = t[c.generation]

LateOps ==
    [op : {"reserve"}, generation : {None}, by : Issues]
      \cup [op : {"token", "identity"}, generation : Generations, by : Issues]
      \cup [op : {"retire", "delete"}, generation : Generations]

\* What is written late is of an issue that was cancelled, what is deleted late
\* of a generation that was retired.
LateOk(o, a, issues) ==
    /\ o \in LateOps
    /\ o.op \in {"token", "identity"} =>
         /\ o.generation < a.next /\ o.generation # a.active
         /\ \A j \in Issues : issues[j].ticket = o.generation => issues[j].phase = "cancelling"
    /\ o.op = "delete" => Known(o.generation, a) /\ o.generation # a.active

Slots == [Generations -> Tokens \cup {None}]
Domains == DOMAIN issue = Issues /\ DOMAIN call = Calls /\ DOMAIN reader = Calls \cup Issues

IssuesSound  == \A i \in Issues : IssueOk(i, issue[i], authority, tokenSlot, identitySlot)
CallsSound   == \A c \in Calls : CallOk(call[c], authority, tokenSlot)
ReadersSound == \A r \in Calls \cup Issues : ReadOk(reader[r], authority, tokenSlot)
LateSound    == \A o \in late : LateOk(o, authority, issue)
StoreSound ==
    /\ AuthorityOk(authority) /\ authority.active \in Generations \cup {None}
    /\ tokenSlot \in Slots /\ identitySlot \in Slots

TokenInv ==
    /\ StoreSound /\ Domains /\ Spare
    /\ IssuesSound /\ TicketsDiffer /\ OneFlight
    /\ CallsSound /\ ReadersSound /\ CacheOk(cache, authority, tokenSlot)
    /\ LateSound
    /\ ActiveComplete

-----------------------------------------------------------------------------
(* What the row and the slots may do in one step.                           *)

USE DEF None

Moved(a, b) ==
    /\ AuthorityOk(b) /\ a.next <= b.next
    /\ b.active \in {a.active, None, a.pending}
    /\ b.pending \in {a.pending, None, a.next}

\* The slot of the active generation is as it was.
Kept(a, b, t, u) == b.active = a.active /\ a.active # None => u[a.active] = t[a.active]

LEMMA GenerationsAre == /\ Generations \subseteq Nat /\ None \notin Generations
                        /\ Issues = Generations /\ Tokens = Generations
BY BoundsAssumption DEF Generations, Issues, Tokens

LEMMA SeenAre == \A g \in SeenOrNone : g \in Nat
BY GenerationsAre DEF SeenOrNone

\* A generation that was active once never is again, unless it still is.
LEMMA KnownKept ==
    ASSUME NEW a, NEW b, AuthorityOk(a), Moved(a, b), NEW g, Known(g, a)
    PROVE  Known(g, b) /\ (g = b.active => g = a.active)
BY GenerationsAre DEF Known, Moved, AuthorityOk

LEMMA CallKept ==
    ASSUME NEW a, NEW b, NEW t, NEW u, AuthorityOk(a), Moved(a, b), Kept(a, b, t, u),
           NEW rec, CallOk(rec, a, t)
    PROVE  CallOk(rec, b, u)
<1>1. rec.pc \in Seeing => Known(rec.seen, b) /\ (rec.seen = b.active => rec.seen = a.active)
  BY KnownKept DEF CallOk
<1>2. rec.pc \in Seeing => rec.seen # None
  BY GenerationsAre DEF CallOk, Known
<1>3. {"id_retired", "id_delete", "id_confirm", "inv_retire"} \subseteq Seeing
  BY DEF Seeing
<1> QED
  BY <1>1, <1>2, <1>3 DEF CallOk, Kept

LEMMA ReadKept ==
    ASSUME NEW a, NEW b, NEW t, NEW u, AuthorityOk(a), Moved(a, b), Kept(a, b, t, u),
           NEW rec, ReadOk(rec, a, t)
    PROVE  ReadOk(rec, b, u)
<1>1. rec.pc \in Reading \ {"read"}
        => Known(rec.seen, b) /\ (rec.seen = b.active => rec.seen = a.active)
  BY KnownKept DEF ReadOk
<1>2. rec.pc \in Reading \ {"read"} => rec.seen # None
  BY GenerationsAre DEF ReadOk, Known
<1>3. {"confirm", "judge"} \subseteq Reading \ {"read"}
  BY DEF Reading
<1> QED
  BY <1>1, <1>2, <1>3 DEF ReadOk, Kept

LEMMA CacheKept ==
    ASSUME NEW a, NEW b, NEW t, NEW u, AuthorityOk(a), Moved(a, b), Kept(a, b, t, u),
           NEW c, CacheOk(c, a, t)
    PROVE  CacheOk(c, b, u)
<1>1. c.generation # None
        => Known(c.generation, b) /\ (c.generation = b.active => c.generation = a.active)
  BY KnownKept DEF CacheOk
<1> QED
  BY <1>1 DEF CacheOk, Kept

LEMMA IssueKept ==
    ASSUME NEW a, NEW b, NEW t, NEW u, NEW d, NEW e, AuthorityOk(a), Moved(a, b),
           NEW i, NEW rec, IssueOk(i, rec, a, t, d),
           rec.ticket = b.active /\ b.active # None => b.active = a.active,
           rec.ticket = a.active /\ a.active # None => u[rec.ticket] = t[rec.ticket],
           rec.ticket = a.pending /\ a.pending # None /\ rec.phase # "cancelling"
             => u[rec.ticket] = t[rec.ticket] /\ e[rec.ticket] = d[rec.ticket]
    PROVE  IssueOk(i, rec, b, u, e)
<1>1. rec.ticket \in Nat /\ rec.ticket < a.next /\ a.next \in Nat /\ b.next \in Nat
  <2>1. rec.ticket \in SeenOrNone
    BY DEF IssueOk, IssueType
  <2>2. rec.ticket \in Nat
    BY <2>1, SeenAre
  <2>3. a.next \in Nat /\ b.next \in Nat
    BY DEF AuthorityOk, Moved
  <2> QED
    BY <2>2, <2>3 DEF IssueOk, TicketOk
<1>2. rec.ticket = b.pending /\ b.pending # None => b.pending = a.pending
  BY <1>1 DEF Moved, AuthorityOk
<1>3. TicketOk(rec, b)
  <2>1. rec.pc \in Won => Known(rec.ticket, b)
    BY KnownKept DEF IssueOk, TicketOk
  <2> QED
    BY <1>1, <2>1 DEF IssueOk, TicketOk, Moved
<1>4. WrittenOk(i, rec, b, u, e)
  BY <1>2 DEF IssueOk, WrittenOk
<1> QED
  BY <1>3, <1>4 DEF IssueOk


-----------------------------------------------------------------------------
(* The row of the authority.                                                *)

Rows == [next : Nat \ {0}, active : Nat, pending : Nat]

LEMMA RetiredMoves ==
    ASSUME NEW a, AuthorityOk(a), NEW g
    PROVE  /\ Moved(a, Retired(a, g)) /\ Retired(a, g).active \in {a.active, None}
           /\ g # None => Retired(a, g).active # g
<1> a \in Rows
  BY DEF AuthorityOk, Rows
<1>1. /\ Retired(a, g) \in Rows /\ Retired(a, g).next = a.next
      /\ Retired(a, g).active = (IF a.active = g THEN None ELSE a.active)
      /\ Retired(a, g).pending = (IF a.pending = g THEN None ELSE a.pending)
  BY DEF Rows, Retired
<1> QED
  BY <1>1 DEF AuthorityOk, Moved, Rows

LEMMA ReservedMoves ==
    ASSUME NEW a, AuthorityOk(a)
    PROVE  Moved(a, Reserved(a)) /\ Reserved(a).active = a.active /\ Reserved(a).next = a.next + 1
<1> a \in Rows
  BY DEF AuthorityOk, Rows
<1>1. a.next \in Nat \ {0} /\ a.next + 1 \in Nat \ {0} /\ a.active \in Nat
  BY DEF Rows
<1>2. /\ Reserved(a).next = a.next + 1 /\ Reserved(a).pending = a.next
      /\ Reserved(a).active = a.active
  BY DEF Rows, Reserved
<1>3. ASSUME NEW n \in Nat \ {0}, NEW p \in Nat
      PROVE  [a EXCEPT !.next = n, !.pending = p] \in Rows
  BY DEF Rows
<1>4. Reserved(a) \in Rows
  BY <1>1, <1>3 DEF Reserved
<1> QED
  BY <1>1, <1>2, <1>4 DEF AuthorityOk, Moved, Rows

LEMMA FinalizedMoves ==
    ASSUME NEW a, AuthorityOk(a), NEW g
    PROVE  /\ Moved(a, Finalized(a, g))
           /\ \/ Finalized(a, g).active = a.active /\ g # a.pending
              \/ g = a.pending /\ Finalized(a, g).active = g /\ Finalized(a, g).pending = None
           /\ Finalized(a, g).next = a.next
<1> a \in Rows
  BY DEF AuthorityOk, Rows
<1>1. /\ Finalized(a, g).next = a.next
      /\ a.pending # g => Finalized(a, g) = a
      /\ a.pending = g => /\ Finalized(a, g) \in Rows
                          /\ Finalized(a, g).active = g /\ Finalized(a, g).pending = None
  BY DEF Rows, Finalized
<1> QED
  BY <1>1 DEF AuthorityOk, Moved, Rows

LEMMA RowMovers ==
    ASSUME [Next]_vars, authority' # authority
    PROVE  \/ \E r \in Calls \cup Issues : Judge(r) /\ authority' = Retired(authority, reader[r].seen)
           \/ \E c \in Calls : IdentityRetire(c) \/ InvalidateRetire(c)
           \/ \E i \in Issues : Reserve(i) \/ Finalize(i) \/ RetireIssue(i)
           \/ \E o \in late : RunLate(o)
<1>1. CASE UNCHANGED vars
  BY <1>1 DEF vars
<1>2. CASE \E r \in Calls \cup Issues : Read(r)
  BY <1>2 DEF Read, ReadAuthority, ReadSlot, Confirm, Judge, AfterRetire, ReadFails, stored
<1>3. CASE \E c \in Calls : \/ Begin(c) \/ ReadEnds(c) \/ Join(c) \/ Deliver(c) \/ AbortRead(c)
                            \/ CancelJoin(c)
  BY <1>3 DEF Begin, ReadEnds, Join, Deliver, AbortRead, CancelJoin, stored
<1>4. CASE \E c \in Calls : \/ IdentityRead(c) \/ IdentitySlots(c) \/ IdentityConfirm(c)
                            \/ IdentityRetired(c) \/ IdentityDelete(c) \/ CallFails(c)
                            \/ InvalidateRead(c) \/ InvalidateSlot(c) \/ InvalidateEnds(c)
  BY <1>4 DEF IdentityRead, IdentitySlots, IdentityConfirm, IdentityRetired, IdentityDelete, CallFails,
              InvalidateRead, InvalidateSlot, InvalidateEnds, stored
<1>5. CASE \E i \in Issues : \/ AfterReserve(i) \/ Fetched(i) \/ WriteToken(i) \/ WriteIdentity(i)
                             \/ Commit(i) \/ ConfirmIssue(i) \/ Answered(i) \/ Replaced(i)
                             \/ IssueFails(i) \/ Expire(i)
  BY <1>5 DEF AfterReserve, Fetched, WriteToken, WriteIdentity, Commit, ConfirmIssue, Answered,
              Replaced, IssueFails, Expire, stored
<1>6. CASE Restart
  BY <1>6 DEF Restart, stored
<1> QED
  BY <1>1, <1>2, <1>3, <1>4, <1>5, <1>6 DEF Next

\* Only an issue that finalizes its ticket makes a generation active.
LEMMA RowMoves ==
    ASSUME TokenInv, [Next]_vars
    PROVE  /\ Moved(authority, authority')
           /\ \/ authority'.active \in {authority.active, None}
              \/ \E i \in Issues : /\ Finalize(i)
                                   /\ issue[i].ticket = authority'.active
                                   /\ issue[i].ticket = authority.pending
<1> AuthorityOk(authority)
  BY DEF TokenInv, StoreSound
<1>1. CASE authority' = authority
  BY <1>1 DEF Moved, AuthorityOk
<1>2. ASSUME NEW g, authority' = Retired(authority, g)
      PROVE  Moved(authority, authority') /\ authority'.active \in {authority.active, None}
  BY <1>2, RetiredMoves
<1>3. ASSUME authority' = Reserved(authority)
      PROVE  Moved(authority, authority') /\ authority'.active \in {authority.active, None}
  BY <1>3, ReservedMoves
<1>4. CASE \E c \in Calls : IdentityRetire(c) \/ InvalidateRetire(c)
  BY <1>2, <1>4 DEF IdentityRetire, InvalidateRetire, RetireSeen
<1>5. CASE \E r \in Calls \cup Issues : authority' = Retired(authority, reader[r].seen)
  BY <1>2, <1>5
<1>6. CASE \E i \in Issues : Reserve(i) \/ RetireIssue(i)
  BY <1>2, <1>3, <1>6 DEF Reserve, RetireIssue
<1>7. ASSUME NEW i \in Issues, Finalize(i)
      PROVE  /\ Moved(authority, authority')
             /\ \/ authority'.active \in {authority.active, None}
                \/ issue[i].ticket = authority'.active /\ issue[i].ticket = authority.pending
  <2>1. authority' = Finalized(authority, issue[i].generation)
    BY <1>7 DEF Finalize
  <2>2. issue[i].generation = issue[i].ticket
    BY <1>7 DEF TokenInv, IssuesSound, IssueOk, TicketOk, Finalize, IssueStep
  <2> QED
    BY <2>1, <2>2, FinalizedMoves
<1>8. ASSUME NEW o \in late, RunLate(o)
      PROVE  Moved(authority, authority') /\ authority'.active \in {authority.active, None}
  <2>1. o.op \in {"reserve", "token", "identity", "retire", "delete"}
    BY DEF TokenInv, LateSound, LateOk, LateOps
  <2> QED
    BY <2>1, <1>1, <1>2, <1>3, <1>8 DEF RunLate
<1> QED
  BY <1>1, <1>4, <1>5, <1>6, <1>7, <1>8, RowMovers

-----------------------------------------------------------------------------
(* The slots.                                                               *)

Touched(g) == tokenSlot'[g] # tokenSlot[g] \/ identitySlot'[g] # identitySlot[g]

LEMMA SlotMovers ==
    ASSUME [Next]_vars, ~UNCHANGED <<tokenSlot, identitySlot>>
    PROVE  \/ \E i \in Issues : WriteToken(i) \/ WriteIdentity(i)
           \/ \E c \in Calls : IdentityDelete(c)
           \/ \E o \in late : RunLate(o)
<1>1. CASE UNCHANGED vars
  BY <1>1 DEF vars
<1>2. CASE \E r \in Calls \cup Issues : Read(r)
  BY <1>2 DEF Read, ReadAuthority, ReadSlot, Confirm, Judge, AfterRetire, ReadFails, stored, slots
<1>3. CASE \E c \in Calls : \/ Begin(c) \/ ReadEnds(c) \/ Join(c) \/ Deliver(c) \/ AbortRead(c)
                            \/ CancelJoin(c) \/ IdentityRetire(c) \/ InvalidateRetire(c)
  BY <1>3 DEF Begin, ReadEnds, Join, Deliver, AbortRead, CancelJoin, IdentityRetire,
              InvalidateRetire, RetireSeen, stored, slots
<1>4. CASE \E c \in Calls : \/ IdentityRead(c) \/ IdentitySlots(c) \/ IdentityConfirm(c)
                            \/ IdentityRetired(c) \/ CallFails(c)
                            \/ InvalidateRead(c) \/ InvalidateSlot(c) \/ InvalidateEnds(c)
  BY <1>4 DEF IdentityRead, IdentitySlots, IdentityConfirm, IdentityRetired, CallFails,
              InvalidateRead, InvalidateSlot, InvalidateEnds, stored, slots
<1>5. CASE \E i \in Issues : \/ Reserve(i) \/ AfterReserve(i) \/ Fetched(i) \/ Commit(i) \/ Finalize(i)
                             \/ ConfirmIssue(i) \/ Answered(i) \/ Replaced(i) \/ RetireIssue(i)
                             \/ IssueFails(i) \/ Expire(i)
  BY <1>5 DEF Reserve, AfterReserve, Fetched, Commit, Finalize, ConfirmIssue, Answered,
              Replaced, RetireIssue, IssueFails, Expire, stored, slots
<1>6. CASE Restart
  BY <1>6 DEF Restart, stored, slots
<1> QED
  BY <1>1, <1>2, <1>3, <1>4, <1>5, <1>6 DEF Next

\* No step touches a slot of the active generation, and only its own issue those of
\* the pending one while that is wanted.
LEMMA SlotsMove ==
    ASSUME TokenInv, [Next]_vars
    PROVE  /\ tokenSlot' \in Slots /\ identitySlot' \in Slots
           /\ UNCHANGED <<tokenSlot, identitySlot>> \/ UNCHANGED authority
           /\ \A g \in Generations : Touched(g) =>
                /\ g # authority.active
                /\ g = authority.pending =>
                     \A i \in Issues : issue[i].ticket = g /\ issue[i].phase # "cancelling"
                                         => WriteToken(i) \/ WriteIdentity(i)
<1> USE DEF Slot
<1>1. tokenSlot \in Slots /\ identitySlot \in Slots
  BY DEF TokenInv, StoreSound
<1>2. CASE UNCHANGED <<tokenSlot, identitySlot>>
  BY <1>1, <1>2 DEF Touched
<1>3. ASSUME NEW i \in Issues, WriteToken(i) \/ WriteIdentity(i)
      PROVE  /\ tokenSlot' \in Slots /\ identitySlot' \in Slots /\ UNCHANGED authority
             /\ \A g \in Generations : Touched(g) =>
                  g # authority.active /\ \A j \in Issues : issue[j].ticket = g => j = i
  <2>1. issue[i].pc \in {"token", "identity"}
    BY <1>3 DEF WriteToken, WriteIdentity, IssueStep
  <2>2. /\ issue[i].generation = issue[i].ticket /\ issue[i].ticket # None
        /\ issue[i].ticket \in Generations \cup {None}
        /\ issue[i].ticket # authority.active
    BY <2>1 DEF TokenInv, IssuesSound, IssueOk, TicketOk, WrittenOk, IssueType, SeenOrNone, Won
  <2>3. \A j \in Issues : issue[j].ticket = issue[i].ticket => j = i
    BY <2>2 DEF TokenInv, TicketsDiffer
  <2>4. /\ tokenSlot' \in Slots /\ identitySlot' \in Slots
        /\ \A g \in Generations : Touched(g) => g = issue[i].ticket
    BY <1>1, <1>3, <2>2, GenerationsAre DEF WriteToken, WriteIdentity, Slots, Touched
  <2>5. UNCHANGED authority
    BY <1>3 DEF WriteToken, WriteIdentity
  <2> QED
    BY <2>2, <2>3, <2>4, <2>5
<1>4. ASSUME NEW h, h \in Generations, DeleteSlots(h), h # authority.active, h # authority.pending
      PROVE  /\ tokenSlot' \in Slots /\ identitySlot' \in Slots
             /\ \A g \in Generations : Touched(g) => g # authority.active /\ g # authority.pending
  BY <1>1, <1>4 DEF DeleteSlots, Slots, Touched
<1>5. ASSUME NEW c \in Calls, IdentityDelete(c)
      PROVE  /\ tokenSlot' \in Slots /\ identitySlot' \in Slots /\ UNCHANGED authority
             /\ \A g \in Generations : Touched(g) => g # authority.active /\ g # authority.pending
  <2>1. Known(call[c].seen, authority) /\ call[c].seen # authority.active
    BY <1>5 DEF TokenInv, CallsSound, CallOk, IdentityDelete, CallStep, Seeing
  <2>2. DeleteSlots(call[c].seen) /\ UNCHANGED authority
    BY <1>5 DEF IdentityDelete
  <2> QED
    BY <1>4, <2>1, <2>2 DEF Known
<1>6. ASSUME NEW o \in late, RunLate(o), ~UNCHANGED <<tokenSlot, identitySlot>>
      PROVE  /\ tokenSlot' \in Slots /\ identitySlot' \in Slots /\ UNCHANGED authority
             /\ \A g \in Generations : Touched(g) =>
                  /\ g # authority.active
                  /\ g = authority.pending =>
                       \A i \in Issues : issue[i].ticket = g => issue[i].phase = "cancelling"
  <2>1. LateOk(o, authority, issue)
    BY DEF TokenInv, LateSound
  <2>2. o.op \in {"token", "identity", "delete"} /\ UNCHANGED authority
    BY <1>6, <2>1 DEF RunLate, LateOk, LateOps
  <2>3. CASE o.op = "delete"
    <3>1. DeleteSlots(o.generation)
      BY <1>6, <2>3 DEF RunLate
    <3> QED
      BY <1>4, <2>1, <2>2, <2>3, <3>1 DEF LateOk, Known
  <2>4. CASE o.op \in {"token", "identity"}
    <3>1. o.generation \in Generations /\ o.by \in Issues
      BY <2>1, <2>4 DEF LateOk, LateOps
    <3>2. /\ tokenSlot' \in Slots /\ identitySlot' \in Slots
          /\ \A g \in Generations : Touched(g) => g = o.generation
      BY <1>1, <1>6, <2>4, <3>1, GenerationsAre DEF RunLate, Slots, Touched
    <3> QED
      BY <2>1, <2>2, <2>4, <3>2 DEF LateOk
  <2> QED
    BY <2>2, <2>3, <2>4
<1> QED
  BY <1>2, <1>3, <1>5, <1>6, SlotMovers

\* What calls, readers and the cache need to know of a step.
LEMMA RowAndSlots ==
    ASSUME TokenInv, [Next]_vars
    PROVE  /\ AuthorityOk(authority) /\ Moved(authority, authority')
           /\ Kept(authority, authority', tokenSlot, tokenSlot')
<1>1. authority.active \in Generations \cup {None}
  BY DEF TokenInv, StoreSound
<1> QED
  BY <1>1, RowMoves, SlotsMove DEF Kept, Touched, TokenInv, StoreSound

LEMMA StoreStep ==
    ASSUME TokenInv, [Next]_vars
    PROVE  StoreSound'
<1>1. AuthorityOk(authority') /\ tokenSlot' \in Slots /\ identitySlot' \in Slots
  BY RowAndSlots, SlotsMove DEF Moved
<1>2. authority'.active \in Generations \cup {None}
  <2>1. authority.active \in Generations \cup {None}
    BY DEF TokenInv, StoreSound
  <2>2. \A i \in Issues : issue[i].ticket \in Generations \cup {None}
    BY DEF TokenInv, IssuesSound, IssueOk, IssueType, SeenOrNone
  <2> QED
    BY <2>1, <2>2, RowMoves
<1> QED
  BY <1>1, <1>2 DEF StoreSound

\* A generation is activated with its token and the identity that came with it.
LEMMA CompleteStep ==
    ASSUME TokenInv, [Next]_vars
    PROVE  ActiveComplete'
<1> USE DEF Slot
<1>1. CASE authority'.active = None
  BY <1>1 DEF ActiveComplete
<1>2. CASE authority'.active = authority.active /\ authority.active # None
  <2>1. authority.active \in Generations
    BY <1>2 DEF TokenInv, StoreSound
  <2>2. /\ tokenSlot'[authority.active] = tokenSlot[authority.active]
        /\ identitySlot'[authority.active] = identitySlot[authority.active]
    BY <2>1, SlotsMove DEF Touched
  <2> QED
    BY <1>2, <2>2 DEF TokenInv, ActiveComplete
<1>3. CASE authority'.active \notin {authority.active, None}
  <2>1. PICK i \in Issues : /\ Finalize(i)
                            /\ issue[i].ticket = authority'.active
                            /\ issue[i].ticket = authority.pending
    BY <1>3, RowMoves
  <2>2. issue[i].pc = "finalize"
    BY <2>1 DEF Finalize, IssueStep
  <2>3. issue[i].phase = "committing"
    BY <2>2 DEF TokenInv, IssuesSound, IssueOk, PhaseOk
  <2>4. tokenSlot[issue[i].ticket] = i /\ identitySlot[issue[i].ticket] = i
    BY <1>3, <2>1, <2>2, <2>3 DEF TokenInv, IssuesSound, IssueOk, WrittenOk
  <2>5. UNCHANGED <<tokenSlot, identitySlot>>
    BY <2>1 DEF Finalize, slots
  <2>6. i # None
    BY GenerationsAre
  <2> QED
    BY <2>1, <2>4, <2>5, <2>6 DEF ActiveComplete
<1> QED
  BY <1>1, <1>2, <1>3

-----------------------------------------------------------------------------
(* The calls.                                                               *)

LEMMA ActiveKnown ==
    TokenInv /\ authority.active # None => Known(authority.active, authority)
BY DEF TokenInv, StoreSound, AuthorityOk, Known

LEMMA CallsHold ==
    ASSUME TokenInv, [Next]_vars, DOMAIN call' = Calls,
           \A c \in Calls : call'[c] = call[c] \/ CallOk(call'[c], authority', tokenSlot')
    PROVE  CallsSound'
<1>1. \A c \in Calls : CallOk(call[c], authority, tokenSlot)
  BY DEF TokenInv, CallsSound
<1>2. \A rec : CallOk(rec, authority, tokenSlot) => CallOk(rec, authority', tokenSlot')
  BY RowAndSlots, CallKept
<1> QED
  BY <1>1, <1>2 DEF CallsSound

LEMMA CallTypeFields ==
    ASSUME NEW r \in CallType, NEW kind \in CallKinds, NEW pc \in CallSteps,
           NEW x \in TokenOrNone, NEW y \in TokenOrNone, NEW answer \in Replies
    PROVE  [r EXCEPT !.kind = kind, !.pc = pc, !.token = x, !.identity = y, !.answer = answer]
             \in CallType
BY DEF CallType

\* One call is answered.
LEMMA EndedOk ==
    ASSUME NEW rec, rec \in CallType, NEW answer, answer \in Replies,
           answer = "identity" => rec.identity = rec.token, NEW a, NEW t
    PROVE  CallOk(Ended(rec, answer), a, t)
<1>1. NoCall \in CallType
  BY DEF NoCall, CallType, CallSteps, CallKinds, Replies, TokenOrNone, SeenOrNone
<1>2. rec.kind \in CallKinds /\ rec.token \in TokenOrNone /\ rec.identity \in TokenOrNone
  BY DEF CallType
<1>3. Ended(rec, answer) \in CallType
  <2>1. "done" \in CallSteps
    BY DEF CallSteps
  <2> QED
    BY <1>1, <1>2, <2>1, CallTypeFields DEF Ended
<1>4. /\ Ended(rec, answer).pc = "done" /\ Ended(rec, answer).answer = answer
      /\ Ended(rec, answer).token = rec.token /\ Ended(rec, answer).identity = rec.identity
  BY DEF Ended, NoCall
<1> QED
  BY <1>3, <1>4 DEF CallOk, Seeing

\* A call that goes on and has seen nothing.
LEMMA PlainOk ==
    ASSUME NEW rec, rec \in CallType, rec.pc \in {"idle", "reading", "id_read", "inv_read"},
           rec.answer = "none", NEW a, NEW t
    PROVE  CallOk(rec, a, t)
BY DEF CallOk, Seeing

\* getOrIssue has its token.
LEMMA GotTokenOk ==
    ASSUME NEW rec, rec \in CallType, rec.answer = "none",
           NEW x, x \in TokenOrNone, NEW a, NEW t
    PROVE  CallOk(GotToken(rec, x), a, t)
<1>1. CASE rec.kind = "getOrIssue"
  <2>1. CallOk(Ended(rec, "token"), a, t) /\ Ended(rec, "token").answer = "token"
        /\ Ended(rec, "token").pc = "done"
    <3>1. "token" \in Replies
      BY DEF Replies, Answers
    <3> QED
      BY <3>1, EndedOk DEF Ended, NoCall
  <2>2. GotToken(rec, x) = [Ended(rec, "token") EXCEPT !.token = x]
    BY <1>1 DEF GotToken
  <2>3. ASSUME NEW r \in CallType, r.pc = "done", r.answer = "token"
        PROVE  CallOk([r EXCEPT !.token = x], a, t)
    BY <2>3 DEF CallOk, CallType, Seeing
  <2>4. Ended(rec, "token") \in CallType
    BY <2>1 DEF CallOk
  <2> QED
    BY <2>1, <2>2, <2>3, <2>4
<1>2. CASE rec.kind # "getOrIssue"
  <2>1. "id_read" \in CallSteps /\ None \in Issues \cup {None}
    BY DEF CallSteps
  <2>2. ASSUME NEW pc \in CallSteps, NEW i \in Issues \cup {None}
        PROVE  [rec EXCEPT !.pc = pc, !.token = x, !.issue = i] \in CallType
    BY DEF CallType
  <2>3. /\ GotToken(rec, x) = [rec EXCEPT !.pc = "id_read", !.token = x, !.issue = None]
        /\ GotToken(rec, x) \in CallType
    BY <1>2, <2>1, <2>2 DEF GotToken
  <2>4. GotToken(rec, x).pc = "id_read" /\ GotToken(rec, x).answer = "none"
    BY <2>3 DEF CallType
  <2> QED
    BY <2>3, <2>4, PlainOk
<1> QED
  BY <1>1, <1>2

CallFrame(c) == DOMAIN call' = Calls /\ \A d \in Calls \ {c} : call'[d] = call[d]

LEMMA OneCall ==
    ASSUME TokenInv, [Next]_vars, NEW c \in Calls, CallFrame(c),
           CallOk(call'[c], authority', tokenSlot')
    PROVE  CallsSound'
BY CallsHold DEF CallFrame

LEMMA NextAttemptOk ==
    ASSUME TokenInv, NEW c \in Calls, call[c].answer = "none", NextAttempt(c), NEW a, NEW t
    PROVE  CallFrame(c) /\ CallOk(call'[c], a, t)
<1>1. DOMAIN call = Calls /\ call[c] \in CallType
  BY DEF TokenInv, Domains, CallsSound, CallOk
<1>2. CASE call[c].tries + 1 < MaxAttempts
  <2> DEFINE rec == [call[c] EXCEPT !.pc = "reading", !.tries = call[c].tries + 1,
                                    !.token = None, !.identity = None]
  <2>1. call' = [call EXCEPT ![c] = rec]
    BY <1>2 DEF NextAttempt, CallGoes
  <2>2. ASSUME NEW pc \in CallSteps, NEW n \in Nat, NEW x \in TokenOrNone
        PROVE  [call[c] EXCEPT !.pc = pc, !.tries = n, !.token = x, !.identity = x] \in CallType
    BY <1>1 DEF CallType
  <2>3. "reading" \in CallSteps /\ call[c].tries + 1 \in Nat /\ None \in TokenOrNone
    BY <1>1 DEF CallType, CallSteps, TokenOrNone
  <2>4. rec \in CallType
    BY <2>2, <2>3
  <2>5. rec.pc = "reading" /\ rec.answer = "none"
    BY <1>1 DEF CallType
  <2> HIDE DEF rec
  <2> QED
    BY <1>1, <2>1, <2>4, <2>5, PlainOk DEF CallFrame
<1>3. CASE ~(call[c].tries + 1 < MaxAttempts)
  <2>1. call' = [call EXCEPT ![c] = Ended(call[c], "failed")]
    BY <1>3 DEF NextAttempt, CallGoes
  <2>2. "failed" \in Replies
    BY DEF Replies, Answers
  <2> QED
    BY <1>1, <2>1, <2>2, EndedOk DEF CallFrame
<1> QED
  BY <1>2, <1>3

LEMMA CallMovers ==
    ASSUME [Next]_vars, call' # call
    PROVE  \/ \E c \in Calls :
                \/ Begin(c) \/ ReadEnds(c) \/ Join(c) \/ Deliver(c) \/ AbortRead(c) \/ CancelJoin(c)
                \/ IdentityRead(c) \/ IdentitySlots(c) \/ IdentityConfirm(c)
                \/ IdentityRetire(c) \/ IdentityRetired(c) \/ IdentityDelete(c) \/ CallFails(c)
                \/ InvalidateRead(c) \/ InvalidateSlot(c) \/ InvalidateRetire(c)
                \/ InvalidateEnds(c)
           \/ Restart
<1>1. CASE UNCHANGED vars
  BY <1>1 DEF vars
<1>2. CASE \E r \in Calls \cup Issues : Read(r)
  BY <1>2 DEF Read, ReadAuthority, ReadSlot, Confirm, Judge, AfterRetire, ReadFails
<1>3. CASE \E i \in Issues : \/ Reserve(i) \/ AfterReserve(i) \/ Fetched(i) \/ WriteToken(i)
                             \/ WriteIdentity(i) \/ Commit(i)
  BY <1>3 DEF Reserve, AfterReserve, Fetched, WriteToken, WriteIdentity, Commit
<1>4. CASE \E i \in Issues : \/ Finalize(i) \/ ConfirmIssue(i) \/ Answered(i) \/ Replaced(i)
                             \/ RetireIssue(i) \/ IssueFails(i) \/ Expire(i)
  BY <1>4 DEF Finalize, ConfirmIssue, Answered, Replaced, RetireIssue, IssueFails, Expire
<1>5. CASE \E o \in late : RunLate(o)
  BY <1>5 DEF RunLate
<1> QED
  BY <1>1, <1>2, <1>3, <1>4, <1>5 DEF Next

\* getOrIssue, invalidate up to its slot, and every abort.
LEMMA CallBegins ==
    ASSUME TokenInv, [Next]_vars, NEW c \in Calls,
           Begin(c) \/ ReadEnds(c) \/ Join(c) \/ Deliver(c) \/ AbortRead(c) \/ CancelJoin(c)
    PROVE  CallsSound'
<1> DEFINE Ok == CallFrame(c) /\ CallOk(call'[c], authority', tokenSlot')
<1> SUFFICES Ok
  BY OneCall
<1>1. /\ DOMAIN call = Calls /\ CallOk(call[c], authority, tokenSlot) /\ call[c] \in CallType
      /\ call[c].pc # "done" => call[c].answer = "none"
  BY DEF TokenInv, Domains, CallsSound, CallOk
<1>2. {"reading", "inv_read", "join", "cancelling"} \subseteq CallSteps
  BY DEF CallSteps
<1>3. {"failed", "cancelled", "indeterminate"} \subseteq Replies
  BY DEF Replies, Answers
<1>4. CASE Begin(c)
  <2>1. ASSUME NEW t \in TokenOrNone, call[c].pc = "idle",
               call' = [call EXCEPT ![c].pc = "inv_read", ![c].token = t]
        PROVE  Ok
    <3>1. [call[c] EXCEPT !.pc = "inv_read", !.token = t] \in CallType
      BY <1>1, <1>2 DEF CallType
    <3>2. /\ call'[c] = [call[c] EXCEPT !.pc = "inv_read", !.token = t]
          /\ CallFrame(c)
      BY <1>1, <2>1 DEF CallFrame
    <3>3. call'[c].pc = "inv_read" /\ call'[c].answer = "none"
      BY <1>1, <2>1, <3>2 DEF CallType
    <3> QED
      BY <3>1, <3>2, <3>3, PlainOk
  <2>2. ASSUME call[c].pc = "idle", call' = [call EXCEPT ![c].pc = "reading"]
        PROVE  Ok
    <3>1. [call[c] EXCEPT !.pc = "reading"] \in CallType
      BY <1>1, <1>2 DEF CallType
    <3>2. /\ call'[c] = [call[c] EXCEPT !.pc = "reading"]
          /\ CallFrame(c)
      BY <1>1, <2>2 DEF CallFrame
    <3>3. call'[c].pc = "reading" /\ call'[c].answer = "none"
      BY <1>1, <2>2, <3>2 DEF CallType
    <3> QED
      BY <3>1, <3>2, <3>3, PlainOk
  <2>3. \A d \in Calls : call[d].token \in TokenOrNone
    BY DEF TokenInv, CallsSound, CallOk, CallType
  <2> QED
    BY <1>4, <2>1, <2>2, <2>3 DEF Begin, CallStep
<1>5. CASE ReadEnds(c)
  <2>1. reader[c].token \in TokenOrNone
    BY DEF TokenInv, ReadersSound, ReadOk, ReadType
  <2>2. call[c].answer = "none"
    BY <1>1, <1>5 DEF ReadEnds, CallStep
  <2>3. /\ CallFrame(c)
        /\ call'[c] \in {GotToken(call[c], reader[c].token), Ended(call[c], "failed")}
    BY <1>1, <1>5 DEF ReadEnds, CallFrame
  <2> QED
    BY <1>1, <1>3, <2>1, <2>2, <2>3, GotTokenOk, EndedOk
<1>6. CASE Join(c)
  <2>1. PICK i \in Issues : call' = [call EXCEPT ![c].pc = "join", ![c].issue = i]
    BY <1>6 DEF Join
  <2>2. [call[c] EXCEPT !.pc = "join", !.issue = i] \in CallType
    BY <1>1, <1>2 DEF CallType
  <2>3. /\ call'[c] = [call[c] EXCEPT !.pc = "join", !.issue = i]
        /\ CallFrame(c)
    BY <1>1, <2>1 DEF CallFrame
  <2>4. call'[c].pc = "join" /\ call'[c].answer = "none" /\ call'[c].issue # None
    <3>1. call[c].pc = "reading" /\ i # None
      BY <1>6, GenerationsAre DEF Join, CallStep
    <3>2. DOMAIN call[c] = {"kind", "pc", "token", "identity", "seen", "ok", "tries", "issue", "answer"}
      BY <1>1 DEF CallType
    <3> QED
      BY <1>1, <2>3, <3>1, <3>2
  <2> QED
    BY <2>2, <2>3, <2>4 DEF CallOk, Seeing
<1>7. CASE Deliver(c)
  <2>1. call[c].issue \in Issues /\ call[c].answer = "none"
    BY <1>1, <1>7 DEF Deliver, CallOk, CallType
  <2>2. issue[call[c].issue].result \in TokenOrNone /\ issue[call[c].issue].error \in Replies
    BY <1>3, <2>1 DEF TokenInv, IssuesSound, IssueOk, IssueType, Errors
  <2>3. issue[call[c].issue].error # "identity"
    BY <2>1 DEF TokenInv, IssuesSound, IssueOk, IssueType, Errors
  <2>4. /\ CallFrame(c)
        /\ call'[c] \in {Ended(call[c], issue[call[c].issue].error),
                         GotToken(call[c], issue[call[c].issue].result)}
    <3> DEFINE told == CASE call[c].pc = "cancelling" -> Ended(call[c], issue[call[c].issue].error)
                         [] issue[call[c].issue].result # None
                              -> GotToken(call[c], issue[call[c].issue].result)
                         [] OTHER -> Ended(call[c], issue[call[c].issue].error)
    <3>1. told \in {Ended(call[c], issue[call[c].issue].error),
                    GotToken(call[c], issue[call[c].issue].result)}
      <4>1. CASE call[c].pc # "cancelling" /\ issue[call[c].issue].result # None
        BY <4>1
      <4>2. CASE call[c].pc = "cancelling" /\ issue[call[c].issue].result = None
        BY <4>2
      <4>3. CASE call[c].pc # "cancelling" /\ issue[call[c].issue].result = None
        BY <4>3
      <4>4. CASE call[c].pc = "cancelling" /\ issue[call[c].issue].result # None
        BY <4>4
      <4> QED
        BY <4>1, <4>2, <4>3, <4>4
    <3>2. call' = [call EXCEPT ![c] = told]
      BY <1>7 DEF Deliver
    <3> HIDE DEF told
    <3> QED
      BY <1>1, <3>1, <3>2 DEF CallFrame
  <2> QED
    BY <1>1, <2>1, <2>2, <2>3, <2>4, GotTokenOk, EndedOk
<1>8. CASE AbortRead(c)
  <2>1. CallFrame(c) /\ call'[c] = Ended(call[c], "cancelled")
    BY <1>1, <1>8 DEF AbortRead, CallFrame
  <2> QED
    BY <1>1, <1>3, <2>1, EndedOk
<1>9. CASE CancelJoin(c)
  <2>1. /\ CallFrame(c)
        /\ call'[c] \in {[call[c] EXCEPT !.pc = "cancelling"], Ended(call[c], "indeterminate"),
                         Ended(call[c], "cancelled")}
    BY <1>1, <1>9 DEF CancelJoin, CallFrame
  <2>2. CASE call'[c] = [call[c] EXCEPT !.pc = "cancelling"]
    <3>1. [call[c] EXCEPT !.pc = "cancelling"] \in CallType
      BY <1>1, <1>2 DEF CallType
    <3>2. call'[c].pc = "cancelling" /\ call'[c].answer = "none" /\ call'[c].issue # None
      BY <1>1, <1>9, <2>2 DEF CallType, CancelJoin, CallStep, CallOk
    <3> QED
      BY <2>1, <2>2, <3>1, <3>2 DEF CallOk, Seeing
  <2> QED
    BY <1>1, <1>3, <2>1, <2>2, EndedOk
<1> QED
  BY <1>4, <1>5, <1>6, <1>7, <1>8, <1>9

\* The rest of getOrIssueIdentity.
LEMMA IdentityCalls ==
    ASSUME TokenInv, [Next]_vars, NEW c \in Calls,
           \/ IdentityRead(c) \/ IdentitySlots(c) \/ IdentityConfirm(c) \/ IdentityRetire(c)
           \/ IdentityRetired(c) \/ IdentityDelete(c) \/ CallFails(c)
    PROVE  CallsSound'
<1> DEFINE Ok == CallFrame(c) /\ CallOk(call'[c], authority', tokenSlot')
<1> SUFFICES Ok
  BY OneCall
<1>1. /\ DOMAIN call = Calls /\ CallOk(call[c], authority, tokenSlot) /\ call[c] \in CallType
      /\ call[c].pc # "done" => call[c].answer = "none"
  BY DEF TokenInv, Domains, CallsSound, CallOk
<1>2. {"id_slots", "id_confirm", "id_judged", "id_retired", "id_delete"} \subseteq CallSteps \cap Seeing
  BY DEF CallSteps, Seeing
<1>3. {"failed", "identity"} \subseteq Replies
  BY DEF Replies, Answers
<1>4. /\ authority.active \in SeenOrNone /\ tokenSlot \in Slots /\ identitySlot \in Slots
  BY DEF TokenInv, StoreSound, SeenOrNone
<1>5. ASSUME NEW pc \in CallSteps, NEW seen \in SeenOrNone
      PROVE  [call[c] EXCEPT !.pc = pc, !.seen = seen] \in CallType
  BY <1>1 DEF CallType
<1>6. ASSUME NEW pc \in CallSteps
      PROVE  [call[c] EXCEPT !.pc = pc] \in CallType
  BY <1>1 DEF CallType
<1>7. ASSUME NEW pc \in CallSteps, NEW ok \in BOOLEAN
      PROVE  [call[c] EXCEPT !.pc = pc, !.ok = ok] \in CallType
  BY <1>1 DEF CallType
<1>8. ASSUME NEW pc \in CallSteps, NEW x \in TokenOrNone, NEW ok \in BOOLEAN
      PROVE  [call[c] EXCEPT !.pc = pc, !.identity = x, !.ok = ok] \in CallType
  BY <1>1 DEF CallType
<1>9. CASE IdentityRead(c)
  <2>1. CASE authority.active = None
    BY <1>1, <1>9, <2>1, NextAttemptOk DEF IdentityRead, CallStep
  <2>2. CASE authority.active # None
    <3> DEFINE rec == [call[c] EXCEPT !.pc = "id_slots", !.seen = authority.active]
    <3>1. rec \in CallType
      BY <1>2, <1>4, <1>5
    <3>2. rec.pc = "id_slots" /\ rec.seen = authority.active /\ rec.answer = "none"
      BY <1>1, <1>9 DEF CallType, IdentityRead, CallStep
    <3>3. call' = [call EXCEPT ![c] = rec] /\ UNCHANGED authority
      BY <1>9, <2>2 DEF IdentityRead, CallGoes, stored
    <3> HIDE DEF rec
    <3> QED
      BY <1>1, <2>2, <3>1, <3>2, <3>3, ActiveKnown DEF CallOk, CallFrame
  <2> QED
    BY <2>1, <2>2
<1>10. CASE IdentitySlots(c)
  <2> DEFINE seen == call[c].seen
             same == tokenSlot[seen] = call[c].token
             rec  == [call[c] EXCEPT !.pc = "id_confirm", !.identity = identitySlot[seen], !.ok = same]
  <2>1. call[c].pc = "id_slots" /\ call[c].answer = "none" /\ Known(seen, authority)
    BY <1>1, <1>10 DEF IdentitySlots, CallStep, CallOk, Seeing
  <2>2. identitySlot[seen] \in TokenOrNone
    BY <1>4, <2>1 DEF Known, Slots, TokenOrNone
  <2>3. rec \in CallType
    BY <1>2, <1>8, <2>2
  <2>4. /\ rec.pc = "id_confirm" /\ rec.seen = seen /\ rec.answer = "none"
        /\ rec.identity = identitySlot[seen] /\ rec.token = call[c].token /\ rec.ok = same
    BY <1>1, <2>1 DEF CallType
  <2>5. call' = [call EXCEPT ![c] = rec] /\ UNCHANGED authority /\ UNCHANGED tokenSlot
    BY <1>10 DEF IdentitySlots, CallGoes, stored, slots, Slot
  <2>6. seen = authority.active => identitySlot[seen] = tokenSlot[seen]
    BY <2>1, GenerationsAre DEF TokenInv, ActiveComplete, Slot, Known
  <2> HIDE DEF rec
  <2> QED
    BY <1>1, <2>1, <2>3, <2>4, <2>5, <2>6 DEF CallOk, CallFrame
<1>11. CASE IdentityConfirm(c)
  <2>1. call[c].pc = "id_confirm" /\ call[c].answer = "none" /\ UNCHANGED tokenSlot
    BY <1>1, <1>11 DEF IdentityConfirm, CallStep, slots
  <2>2. CASE NextAttempt(c)
    BY <1>1, <2>1, <2>2, NextAttemptOk
  <2>3. CASE authority.active = call[c].seen /\ call[c].ok /\ CallGoes(c, Ended(call[c], "identity"))
    <3>1. call[c].identity = call[c].token
      BY <1>1, <2>1, <2>3 DEF CallOk
    <3> QED
      BY <1>1, <1>3, <2>3, <3>1, EndedOk DEF CallGoes, CallFrame
  <2>4. CASE CallGoes(c, [call[c] EXCEPT !.pc = "id_judged"]) /\ UNCHANGED authority
    <3> DEFINE rec == [call[c] EXCEPT !.pc = "id_judged"]
    <3>1. rec \in CallType
      BY <1>2, <1>6
    <3>2. /\ rec.pc = "id_judged" /\ rec.seen = call[c].seen /\ rec.answer = "none"
          /\ Known(call[c].seen, authority)
      BY <1>1, <2>1 DEF CallType, CallOk, Seeing
    <3>3. call' = [call EXCEPT ![c] = rec]
      BY <2>4 DEF CallGoes
    <3> HIDE DEF rec
    <3> QED
      BY <1>1, <2>4, <3>1, <3>2, <3>3 DEF CallOk, CallFrame
  <2> QED
    BY <1>11, <2>2, <2>3, <2>4 DEF IdentityConfirm
<1>12. CASE IdentityRetire(c)
  <2> DEFINE rec == [call[c] EXCEPT !.pc = "id_retired", !.ok = Retires(authority, call[c].seen)]
  <2>1. call[c].pc = "id_judged" /\ call[c].answer = "none" /\ Known(call[c].seen, authority)
    BY <1>1, <1>12 DEF IdentityRetire, RetireSeen, CallStep, CallOk, Seeing
  <2>2. rec \in CallType
    <3>1. Retires(authority, call[c].seen) \in BOOLEAN
      BY DEF Retires
    <3> QED
      BY <1>2, <1>7, <3>1
  <2>3. rec.pc = "id_retired" /\ rec.seen = call[c].seen /\ rec.answer = "none"
    BY <1>1, <2>1 DEF CallType
  <2>4. call' = [call EXCEPT ![c] = rec] /\ authority' = Retired(authority, call[c].seen)
    BY <1>12 DEF IdentityRetire, RetireSeen, CallGoes
  <2>5. Known(call[c].seen, authority') /\ call[c].seen # authority'.active
    <3>1. AuthorityOk(authority) /\ call[c].seen # None
      BY <2>1, GenerationsAre DEF TokenInv, StoreSound, Known
    <3> QED
      BY <2>1, <2>4, <3>1, KnownKept, RetiredMoves
  <2> HIDE DEF rec
  <2> QED
    BY <1>1, <2>2, <2>3, <2>4, <2>5 DEF CallOk, CallFrame
<1>13. CASE IdentityRetired(c)
  <2>1. call[c].pc = "id_retired" /\ call[c].answer = "none" /\ UNCHANGED authority
    BY <1>1, <1>13 DEF IdentityRetired, CallStep, stored
  <2>2. CASE call[c].ok
    <3> DEFINE rec == [call[c] EXCEPT !.pc = "id_delete"]
    <3>1. rec \in CallType
      BY <1>2, <1>6
    <3>2. rec.pc = "id_delete" /\ rec.seen = call[c].seen /\ rec.answer = "none"
      BY <1>1, <2>1 DEF CallType
    <3>3. Known(call[c].seen, authority) /\ call[c].seen # authority.active
      BY <1>1, <2>1 DEF CallOk, Seeing
    <3>4. call' = [call EXCEPT ![c] = rec]
      BY <1>13, <2>2 DEF IdentityRetired, CallGoes
    <3> HIDE DEF rec
    <3> QED
      BY <1>1, <2>1, <3>1, <3>2, <3>3, <3>4 DEF CallOk, CallFrame
  <2>3. CASE NextAttempt(c)
    BY <1>1, <2>1, <2>3, NextAttemptOk
  <2> QED
    BY <1>13, <2>2, <2>3 DEF IdentityRetired
<1>14. CASE IdentityDelete(c)
  BY <1>1, <1>14, NextAttemptOk DEF IdentityDelete, CallStep
<1>15. CASE CallFails(c)
  BY <1>1, <1>3, <1>15, EndedOk DEF CallFails, CallGoes, CallFrame
<1> QED
  BY <1>9, <1>10, <1>11, <1>12, <1>13, <1>14, <1>15

LEMMA InvalidateCalls ==
    ASSUME TokenInv, [Next]_vars, NEW c \in Calls,
           InvalidateRead(c) \/ InvalidateSlot(c) \/ InvalidateRetire(c) \/ InvalidateEnds(c)
    PROVE  CallsSound'
<1> DEFINE Ok == CallFrame(c) /\ CallOk(call'[c], authority', tokenSlot')
<1> SUFFICES Ok
  BY OneCall
<1>1. /\ DOMAIN call = Calls /\ CallOk(call[c], authority, tokenSlot) /\ call[c] \in CallType
      /\ call[c].pc # "done" => call[c].answer = "none"
  BY DEF TokenInv, Domains, CallsSound, CallOk
<1>2. {"inv_slot", "inv_retire", "inv_retired"} \subseteq CallSteps \cap Seeing
  BY DEF CallSteps, Seeing
<1>3. "void" \in Replies
  BY DEF Replies, Answers
<1>4. CASE call' = [call EXCEPT ![c] = Ended(call[c], "void")]
  BY <1>1, <1>3, <1>4, EndedOk DEF CallFrame
<1>5. CASE InvalidateRead(c) /\ authority.active # None
  <2> DEFINE rec == [call[c] EXCEPT !.pc = "inv_slot", !.seen = authority.active]
  <2>1. authority.active \in SeenOrNone
    BY DEF TokenInv, StoreSound, SeenOrNone
  <2>2. rec \in CallType
    BY <1>1, <1>2, <2>1 DEF CallType
  <2>3. rec.pc = "inv_slot" /\ rec.seen = authority.active /\ rec.answer = "none"
    BY <1>1, <1>5 DEF CallType, InvalidateRead, CallStep
  <2>4. call' = [call EXCEPT ![c] = rec] /\ UNCHANGED authority
    BY <1>5 DEF InvalidateRead, CallGoes, stored
  <2> HIDE DEF rec
  <2> QED
    BY <1>1, <1>5, <2>2, <2>3, <2>4, ActiveKnown DEF CallOk, CallFrame
<1>6. CASE InvalidateSlot(c) /\ ActiveToken(call[c].seen) = call[c].token
  <2> DEFINE rec == [call[c] EXCEPT !.pc = "inv_retire"]
  <2>1. call[c].pc = "inv_slot" /\ call[c].answer = "none" /\ Known(call[c].seen, authority)
    BY <1>1, <1>6 DEF InvalidateSlot, CallStep, CallOk, Seeing
  <2>2. rec \in CallType
    BY <1>1, <1>2 DEF CallType
  <2>3. /\ rec.pc = "inv_retire" /\ rec.seen = call[c].seen /\ rec.answer = "none"
        /\ rec.token = call[c].token
    BY <1>1, <2>1 DEF CallType
  <2>4. call' = [call EXCEPT ![c] = rec] /\ UNCHANGED authority /\ UNCHANGED tokenSlot
    BY <1>6 DEF InvalidateSlot, CallGoes, stored, slots
  <2>5. call[c].seen = authority.active => call[c].token = tokenSlot[call[c].seen]
    BY <1>6, <2>1, GenerationsAre DEF TokenInv, CacheOk, ActiveToken, Slot, Known
  <2> HIDE DEF rec
  <2> QED
    BY <1>1, <2>1, <2>2, <2>3, <2>4, <2>5 DEF CallOk, CallFrame
<1>7. CASE InvalidateRetire(c)
  <2> DEFINE rec == [call[c] EXCEPT !.pc = "inv_retired", !.ok = Retires(authority, call[c].seen)]
  <2>1. call[c].pc = "inv_retire" /\ call[c].answer = "none" /\ Known(call[c].seen, authority)
    BY <1>1, <1>7 DEF InvalidateRetire, RetireSeen, CallStep, CallOk, Seeing
  <2>2. rec \in CallType
    <3>1. ASSUME NEW pc \in CallSteps, NEW ok \in BOOLEAN
          PROVE  [call[c] EXCEPT !.pc = pc, !.ok = ok] \in CallType
      BY <1>1 DEF CallType
    <3>2. Retires(authority, call[c].seen) \in BOOLEAN
      BY DEF Retires
    <3> QED
      BY <1>2, <3>1, <3>2
  <2>3. rec.pc = "inv_retired" /\ rec.seen = call[c].seen /\ rec.answer = "none"
    BY <1>1, <2>1 DEF CallType
  <2>4. call' = [call EXCEPT ![c] = rec]
    BY <1>7 DEF InvalidateRetire, RetireSeen, CallGoes
  <2>5. Known(call[c].seen, authority')
    BY <2>1, KnownKept, RowAndSlots
  <2> HIDE DEF rec
  <2> QED
    BY <1>1, <2>2, <2>3, <2>4, <2>5 DEF CallOk, CallFrame
<1> QED
  BY <1>4, <1>5, <1>6, <1>7 DEF InvalidateRead, InvalidateSlot, InvalidateEnds, CallGoes

LEMMA CallsStep ==
    ASSUME TokenInv, [Next]_vars
    PROVE  CallsSound' /\ DOMAIN call' = Calls
<1>1. DOMAIN call = Calls /\ \A c \in Calls : call[c] \in CallType /\ CallOk(call[c], authority, tokenSlot)
  BY DEF TokenInv, Domains, CallsSound, CallOk
<1>2. DOMAIN call' = Calls
  <2>1. CASE Restart
    BY <2>1 DEF Restart
  <2>2. CASE call' = call
    BY <1>1, <2>2
  <2>3. CASE \E c \in Calls :
               \/ Begin(c) \/ ReadEnds(c) \/ Join(c) \/ Deliver(c) \/ AbortRead(c) \/ CancelJoin(c)
    BY <1>1, <2>3 DEF Begin, ReadEnds, Join, Deliver, AbortRead, CancelJoin
  <2>4. CASE \E c \in Calls :
               \/ IdentityRead(c) \/ IdentitySlots(c) \/ IdentityConfirm(c)
               \/ IdentityRetire(c) \/ IdentityRetired(c) \/ IdentityDelete(c) \/ CallFails(c)
               \/ InvalidateRead(c) \/ InvalidateSlot(c) \/ InvalidateRetire(c)
               \/ InvalidateEnds(c)
    BY <1>1, <2>4 DEF IdentityRead, IdentitySlots, IdentityConfirm, IdentityRetire, IdentityRetired,
                      IdentityDelete, CallFails, InvalidateRead, InvalidateSlot, InvalidateRetire,
                      InvalidateEnds, RetireSeen, NextAttempt, CallGoes
  <2> QED
    BY <2>1, <2>2, <2>3, <2>4, CallMovers
<1>3. CASE call' = call
  BY <1>1, <1>3, CallsHold
<1>4. CASE Restart
  <2>1. ASSUME NEW c \in Calls
        PROVE  call'[c] = call[c] \/ CallOk(call'[c], authority', tokenSlot')
    <3>1. \/ call'[c] = call[c]
          \/ call[c].pc = "done" /\ call'[c] = Ended(call[c], call[c].answer)
          \/ call'[c] = Ended(call[c], "failed")
      BY <1>4 DEF Restart
    <3>2. "failed" \in Replies /\ call[c].answer \in Replies
      BY <1>1 DEF Replies, Answers, CallType
    <3>3. call[c].answer = "identity" => call[c].identity = call[c].token
      BY <1>1 DEF CallOk
    <3> QED
      BY <1>1, <3>1, <3>2, <3>3, EndedOk
  <2> QED
    BY <1>2, <2>1, CallsHold
<1> QED
  BY <1>2, <1>3, <1>4, CallMovers, CallBegins, IdentityCalls, InvalidateCalls

-----------------------------------------------------------------------------
(* The readers.                                                             *)

LEMMA ReadersHold ==
    ASSUME TokenInv, [Next]_vars, DOMAIN reader' = Calls \cup Issues,
           \A r \in Calls \cup Issues :
              reader'[r] = reader[r] \/ ReadOk(reader'[r], authority', tokenSlot')
    PROVE  ReadersSound'
<1>1. \A r \in Calls \cup Issues : ReadOk(reader[r], authority, tokenSlot)
  BY DEF TokenInv, ReadersSound
<1>2. \A rec : ReadOk(rec, authority, tokenSlot) => ReadOk(rec, authority', tokenSlot')
  BY RowAndSlots, ReadKept
<1> QED
  BY <1>1, <1>2 DEF ReadersSound

LEMMA OneReader ==
    ASSUME TokenInv, [Next]_vars, NEW r \in Calls \cup Issues, NEW rec,
           ReaderGoes(r, rec), ReadOk(rec, authority', tokenSlot')
    PROVE  ReadersSound' /\ DOMAIN reader' = Calls \cup Issues
<1>1. DOMAIN reader = Calls \cup Issues
  BY DEF TokenInv, Domains
<1> QED
  BY <1>1, ReadersHold DEF ReaderGoes

\* A reader that has seen nothing yet, or has ended.
LEMMA PlainRead ==
    ASSUME NEW rec, rec \in ReadType, rec.pc \in {"idle", "none", "found", "failed", "read"},
           NEW a, NEW t
    PROVE  ReadOk(rec, a, t)
BY DEF ReadOk, Reading

LEMMA ReadTypes ==
    /\ NoRead \in ReadType /\ StartRead \in ReadType
    /\ NoRead.pc = "idle" /\ StartRead.pc = "read"
    /\ \A rec \in ReadType : Again(rec) \in ReadType /\ Again(rec).pc \in {"read", "failed"}
<1>1. NoRead \in ReadType /\ NoRead.pc = "idle"
  BY DEF NoRead, ReadType, ReadSteps, SeenOrNone, TokenOrNone
<1>2. {"read", "failed"} \subseteq ReadSteps
  BY DEF ReadSteps, Reading
<1>3. ASSUME NEW r \in ReadType, NEW pc \in ReadSteps
      PROVE  [r EXCEPT !.pc = pc] \in ReadType /\ [r EXCEPT !.pc = pc].pc = pc
  BY DEF ReadType
<1>4. ASSUME NEW rec \in ReadType
      PROVE  Again(rec) \in ReadType /\ Again(rec).pc \in {"read", "failed"}
  <2> DEFINE pc == IF rec.tries + 1 < MaxAttempts THEN "read" ELSE "failed"
  <2>1. rec.tries + 1 \in Nat
    BY DEF ReadType
  <2>2. Again(rec) = [NoRead EXCEPT !.tries = rec.tries + 1, !.pc = pc]
    BY DEF Again
  <2>3. pc \in {"read", "failed"}
    OBVIOUS
  <2>4. pc \in ReadSteps
    BY <1>2, <2>3
  <2> HIDE DEF pc
  <2>5. PICK n \in Nat : n = rec.tries + 1
    BY <2>1
  <2>6. Again(rec) = [NoRead EXCEPT !.tries = n, !.pc = pc]
    BY <2>2, <2>5
  <2>7. [NoRead EXCEPT !.tries = n, !.pc = pc] \in ReadType
    BY <1>1, <2>4 DEF ReadType
  <2>8. [NoRead EXCEPT !.tries = n, !.pc = pc].pc = pc
    BY <1>1 DEF ReadType
  <2> QED
    BY <2>3, <2>6, <2>7, <2>8
<1> QED
  BY <1>1, <1>2, <1>3, <1>4 DEF StartRead

LEMMA ReaderMovers ==
    ASSUME [Next]_vars, reader' # reader
    PROVE  \/ \E r \in Calls \cup Issues : Read(r) \/ ReaderGoes(r, StartRead) \/ ReaderGoes(r, NoRead)
           \/ Restart
<1>1. CASE UNCHANGED vars
  BY <1>1 DEF vars
<1>2. CASE \E c \in Calls : Begin(c) \/ ReadEnds(c) \/ Join(c) \/ Deliver(c) \/ AbortRead(c) \/ CancelJoin(c)
  BY <1>2 DEF Begin, ReadEnds, Join, Deliver, AbortRead, CancelJoin
<1>3. CASE \E c \in Calls :
                \/ IdentityRead(c) \/ IdentitySlots(c) \/ IdentityConfirm(c)
                \/ IdentityRetire(c) \/ IdentityRetired(c) \/ IdentityDelete(c) \/ CallFails(c)
  BY <1>3 DEF IdentityRead, IdentitySlots, IdentityConfirm, IdentityRetire, IdentityRetired,
              IdentityDelete, CallFails, RetireSeen, NextAttempt
<1>4. CASE \E c \in Calls :
                InvalidateRead(c) \/ InvalidateSlot(c) \/ InvalidateRetire(c) \/ InvalidateEnds(c)
  BY <1>4 DEF InvalidateRead, InvalidateSlot, InvalidateRetire, InvalidateEnds, RetireSeen
<1>5. CASE \E i \in Issues : \/ Reserve(i) \/ AfterReserve(i) \/ Fetched(i) \/ WriteToken(i)
                             \/ WriteIdentity(i) \/ Commit(i)
  BY <1>5 DEF Reserve, AfterReserve, Fetched, WriteToken, WriteIdentity, Commit
<1>6. CASE \E i \in Issues : \/ Finalize(i) \/ ConfirmIssue(i) \/ Answered(i) \/ Replaced(i)
                             \/ RetireIssue(i) \/ IssueFails(i) \/ Expire(i)
  BY <1>6 DEF Finalize, ConfirmIssue, Answered, Replaced, RetireIssue, IssueFails, Expire
<1>7. CASE \E o \in late : RunLate(o)
  BY <1>7 DEF RunLate
<1> QED
  BY <1>1, <1>2, <1>3, <1>4, <1>5, <1>6, <1>7 DEF Next

LEMMA ReadersStep ==
    ASSUME TokenInv, [Next]_vars
    PROVE  ReadersSound' /\ DOMAIN reader' = Calls \cup Issues
<1>1. DOMAIN reader = Calls \cup Issues /\ tokenSlot \in Slots /\ authority.active \in SeenOrNone
  BY DEF TokenInv, Domains, StoreSound, SeenOrNone
<1>2. ASSUME NEW r \in Calls \cup Issues
      PROVE  ReadOk(reader[r], authority, tokenSlot) /\ reader[r] \in ReadType
  BY DEF TokenInv, ReadersSound, ReadOk
<1>3. {"slot", "confirm", "judge", "retired", "found", "none", "failed"} \subseteq ReadSteps
  BY DEF ReadSteps, Reading
<1>4. {"slot", "confirm", "judge", "retired"} \subseteq Reading \ {"read"}
  BY DEF Reading
<1>5. CASE reader' = reader
  BY <1>1, <1>5, ReadersHold
<1>6. CASE Restart
  BY <1>6, ReadTypes, PlainRead, ReadersHold DEF Restart
<1>7. CASE \E r \in Calls \cup Issues : ReaderGoes(r, StartRead) \/ ReaderGoes(r, NoRead)
  BY <1>7, ReadTypes, PlainRead, OneReader
<1>8. ASSUME NEW r \in Calls \cup Issues, ReadAuthority(r)
      PROVE  \E rec : ReaderGoes(r, rec) /\ ReadOk(rec, authority', tokenSlot')
  <2> DEFINE rec == [reader[r] EXCEPT !.seen = authority.active,
                                      !.pc = IF authority.active = None THEN "none" ELSE "slot"]
  <2>1. ReaderGoes(r, rec) /\ UNCHANGED authority
    BY <1>8 DEF ReadAuthority, stored
  <2>2. rec \in ReadType
    BY <1>1, <1>2, <1>3 DEF ReadType
  <2>3. rec.seen = authority.active /\ rec.pc = IF authority.active = None THEN "none" ELSE "slot"
    BY <1>2 DEF ReadType
  <2> HIDE DEF rec
  <2> QED
    BY <2>1, <2>2, <2>3, ActiveKnown, PlainRead DEF ReadOk
<1>9. ASSUME NEW r \in Calls \cup Issues, ReadSlot(r)
      PROVE  \E rec : ReaderGoes(r, rec) /\ ReadOk(rec, authority', tokenSlot')
  <2> DEFINE seen == reader[r].seen
             read == IF cache.generation = seen THEN cache.token ELSE tokenSlot[seen]
             rec  == [reader[r] EXCEPT !.pc = "confirm", !.token = read]
  <2>1. ReaderGoes(r, rec) /\ UNCHANGED authority /\ UNCHANGED tokenSlot
    BY <1>9 DEF ReadSlot, stored, slots, Slot
  <2>2. Known(seen, authority)
    BY <1>2, <1>4, <1>9 DEF ReadSlot, ReadStep, ReadOk
  <2>3. read \in TokenOrNone
    <3>1. cache.token \in TokenOrNone /\ tokenSlot[seen] \in TokenOrNone
      BY <1>1, <2>2 DEF TokenInv, CacheOk, Known, Slots, TokenOrNone
    <3> QED
      BY <3>1
  <2>4. seen = authority.active => read = tokenSlot[seen]
    BY <2>2, GenerationsAre DEF TokenInv, CacheOk, Known
  <2>5. rec \in ReadType /\ rec.seen = seen /\ rec.token = read /\ rec.pc = "confirm"
    <3> HIDE DEF read
    <3> QED
      BY <1>2, <1>3, <2>3 DEF ReadType
  <2> HIDE DEF rec
  <2> QED
    BY <2>1, <2>2, <2>4, <2>5 DEF ReadOk
<1>10. ASSUME NEW r \in Calls \cup Issues, Confirm(r)
       PROVE  \E rec : ReaderGoes(r, rec) /\ ReadOk(rec, authority', tokenSlot')
  <2> DEFINE same == authority.active = reader[r].seen
             rec  == [reader[r] EXCEPT !.pc = "judge", !.ok = same]
  <2>1. ReaderGoes(r, rec) /\ UNCHANGED authority /\ UNCHANGED tokenSlot
    BY <1>10 DEF Confirm, stored, slots
  <2>2. reader[r].pc = "confirm"
    BY <1>10 DEF Confirm, ReadStep
  <2>3. /\ rec \in ReadType /\ rec.seen = reader[r].seen /\ rec.token = reader[r].token
        /\ rec.pc = "judge"
    <3>1. same \in BOOLEAN
      OBVIOUS
    <3> HIDE DEF same
    <3> QED
      BY <1>2, <1>3, <3>1 DEF ReadType
  <2> HIDE DEF rec
  <2> QED
    BY <1>2, <1>4, <2>1, <2>2, <2>3 DEF ReadOk
<1>11. ASSUME NEW r \in Calls \cup Issues, Judge(r)
       PROVE  \E rec : ReaderGoes(r, rec) /\ ReadOk(rec, authority', tokenSlot')
  <2>1. CASE ReaderGoes(r, Again(reader[r]))
    BY <1>2, <2>1, ReadTypes, PlainRead
  <2>2. CASE ReaderGoes(r, [reader[r] EXCEPT !.pc = "found"])
    <3>1. [reader[r] EXCEPT !.pc = "found"] \in ReadType /\ [reader[r] EXCEPT !.pc = "found"].pc = "found"
      BY <1>2, <1>3 DEF ReadType
    <3> QED
      BY <2>2, <3>1, PlainRead
  <2>3. CASE ReaderGoes(r, [reader[r] EXCEPT !.pc = "retired", !.ok = Retires(authority, reader[r].seen)])
    <3> DEFINE rec == [reader[r] EXCEPT !.pc = "retired", !.ok = Retires(authority, reader[r].seen)]
    <3>1. rec \in ReadType /\ rec.seen = reader[r].seen /\ rec.pc = "retired"
      <4>1. Retires(authority, reader[r].seen) \in BOOLEAN
        BY DEF Retires
      <4>2. ASSUME NEW ok \in BOOLEAN, NEW x, x = [reader[r] EXCEPT !.pc = "retired", !.ok = ok]
            PROVE  x \in ReadType /\ x.seen = reader[r].seen /\ x.pc = "retired"
        BY <1>2, <1>3, <4>2 DEF ReadType
      <4> QED
        BY <4>1, <4>2
    <3>2. Known(reader[r].seen, authority')
      <4>1. Known(reader[r].seen, authority)
        BY <1>2, <1>4, <1>11 DEF Judge, ReadStep, ReadOk
      <4> QED
        BY <4>1, KnownKept, RowAndSlots
    <3>3. ReaderGoes(r, rec)
      BY <2>3
    <3> HIDE DEF rec
    <3> QED
      BY <3>1, <3>2, <3>3 DEF ReadOk
  <2> QED
    BY <1>11, <2>1, <2>2, <2>3 DEF Judge
<1>12. ASSUME NEW r \in Calls \cup Issues, AfterRetire(r) \/ ReadFails(r)
       PROVE  \E rec : ReaderGoes(r, rec) /\ ReadOk(rec, authority', tokenSlot')
  <2>1. ASSUME NEW pc \in {"none", "failed"}
        PROVE  ReadOk([reader[r] EXCEPT !.pc = pc], authority', tokenSlot')
    <3>1. [reader[r] EXCEPT !.pc = pc] \in ReadType /\ [reader[r] EXCEPT !.pc = pc].pc = pc
      BY <1>2, <1>3 DEF ReadType
    <3> QED
      BY <3>1, PlainRead
  <2>2. ReadOk(Again(reader[r]), authority', tokenSlot')
    BY <1>2, ReadTypes, PlainRead
  <2>3. \/ ReaderGoes(r, [reader[r] EXCEPT !.pc = "none"])
        \/ ReaderGoes(r, [reader[r] EXCEPT !.pc = "failed"])
        \/ ReaderGoes(r, Again(reader[r]))
    BY <1>12 DEF AfterRetire, ReadFails
  <2> QED
    BY <2>1, <2>2, <2>3
<1>13. ASSUME NEW r \in Calls \cup Issues, Read(r)
       PROVE  ReadersSound' /\ DOMAIN reader' = Calls \cup Issues
  <2>1. \E rec : ReaderGoes(r, rec) /\ ReadOk(rec, authority', tokenSlot')
    BY <1>8, <1>9, <1>10, <1>11, <1>12, <1>13 DEF Read
  <2> QED
    BY <2>1, OneReader
<1> QED
  BY <1>5, <1>6, <1>7, <1>13, ReaderMovers

-----------------------------------------------------------------------------
(* The cached token.                                                        *)

LEMMA CacheMovers ==
    ASSUME [Next]_vars, cache' # cache
    PROVE  \/ cache' = NoCache
           \/ \E r \in Calls \cup Issues : Judge(r)
           \/ \E c \in Calls : IdentityConfirm(c)
           \/ \E i \in Issues : Answered(i)
<1>1. CASE UNCHANGED vars
  BY <1>1 DEF vars
<1>2. CASE \E r \in Calls \cup Issues : Read(r)
  BY <1>2 DEF Read, ReadAuthority, ReadSlot, Confirm, AfterRetire, ReadFails, CacheWithout
<1>3. CASE \E c \in Calls : Begin(c) \/ ReadEnds(c) \/ Join(c) \/ Deliver(c) \/ AbortRead(c) \/ CancelJoin(c)
  BY <1>3 DEF Begin, ReadEnds, Join, Deliver, AbortRead, CancelJoin
<1>4. CASE \E c \in Calls :
                \/ IdentityRead(c) \/ IdentitySlots(c) \/ IdentityConfirm(c)
                \/ IdentityRetire(c) \/ IdentityRetired(c) \/ IdentityDelete(c) \/ CallFails(c)
  BY <1>4 DEF IdentityRead, IdentitySlots, IdentityRetire, IdentityRetired,
              IdentityDelete, CallFails, RetireSeen, CacheWithout
<1>5. CASE \E c \in Calls :
                InvalidateRead(c) \/ InvalidateSlot(c) \/ InvalidateRetire(c) \/ InvalidateEnds(c)
  BY <1>5 DEF InvalidateRead, InvalidateSlot, InvalidateRetire, InvalidateEnds, RetireSeen, CacheWithout
<1>6. CASE \E i \in Issues : \/ Reserve(i) \/ AfterReserve(i) \/ Fetched(i) \/ WriteToken(i)
                             \/ WriteIdentity(i) \/ Commit(i)
  BY <1>6 DEF Reserve, AfterReserve, Fetched, WriteToken, WriteIdentity, Commit
<1>7. CASE \E i \in Issues : \/ Finalize(i) \/ ConfirmIssue(i) \/ Answered(i) \/ Replaced(i)
                             \/ RetireIssue(i) \/ IssueFails(i) \/ Expire(i)
  BY <1>7 DEF Finalize, ConfirmIssue, Replaced, RetireIssue, IssueFails, Expire
<1>8. CASE \E o \in late : RunLate(o)
  BY <1>8 DEF RunLate
<1>9. CASE Restart
  BY <1>9 DEF Restart
<1> QED
  BY <1>1, <1>2, <1>3, <1>4, <1>5, <1>6, <1>7, <1>8, <1>9 DEF Next

LEMMA CacheStep ==
    ASSUME TokenInv, [Next]_vars
    PROVE  CacheOk(cache', authority', tokenSlot')
<1>1. /\ CacheOk(cache, authority, tokenSlot)
      /\ \A c : CacheOk(c, authority, tokenSlot) => CacheOk(c, authority', tokenSlot')
  BY RowAndSlots, CacheKept DEF TokenInv
<1>2. CASE cache' = cache
  BY <1>1, <1>2
<1>3. CASE cache' = NoCache
  BY <1>3 DEF NoCache, CacheOk
<1>4. ASSUME NEW g \in Generations, NEW x \in TokenOrNone, cache' = [generation |-> g, token |-> x],
             Known(g, authority), g = authority.active => x = tokenSlot[g]
      PROVE  CacheOk(cache', authority', tokenSlot')
  <2> DEFINE c == [generation |-> g, token |-> x]
  <2>1. CacheOk(c, authority, tokenSlot)
    BY <1>4 DEF CacheOk, TokenOrNone
  <2> QED
    BY <1>1, <1>4, <2>1
<1>5. ASSUME NEW r \in Calls \cup Issues, Judge(r), cache' # cache, cache' # NoCache
      PROVE  CacheOk(cache', authority', tokenSlot')
  <2>1. /\ reader[r].pc = "judge"
        /\ cache' = [generation |-> reader[r].seen, token |-> reader[r].token]
    BY <1>5 DEF Judge, ReadStep, CacheWithout
  <2>2. ReadOk(reader[r], authority, tokenSlot) /\ "judge" \in Reading \ {"read"}
    BY DEF TokenInv, ReadersSound, Reading
  <2>3. /\ reader[r].token \in TokenOrNone /\ Known(reader[r].seen, authority)
        /\ reader[r].seen = authority.active => reader[r].token = tokenSlot[reader[r].seen]
    BY <2>1, <2>2 DEF ReadOk, ReadType
  <2> QED
    BY <1>4, <2>1, <2>3 DEF Known
<1>6. ASSUME NEW c \in Calls, IdentityConfirm(c), cache' # cache
      PROVE  CacheOk(cache', authority', tokenSlot')
  <2>1. /\ call[c].pc = "id_confirm" /\ call[c].ok /\ call[c].seen = authority.active
        /\ cache' = [generation |-> call[c].seen, token |-> call[c].token]
    BY <1>6 DEF IdentityConfirm, CallStep
  <2>2. CallOk(call[c], authority, tokenSlot)
    BY DEF TokenInv, CallsSound
  <2>3. /\ call[c].token \in TokenOrNone /\ Known(call[c].seen, authority)
        /\ call[c].token = tokenSlot[call[c].seen]
    BY <2>1, <2>2 DEF CallOk, CallType, Seeing
  <2> QED
    BY <1>4, <2>1, <2>3 DEF Known
<1>7. ASSUME NEW i \in Issues, Answered(i)
      PROVE  CacheOk(cache', authority', tokenSlot')
  <2>1. /\ issue[i].pc = "confirmed"
        /\ cache' = [generation |-> issue[i].generation, token |-> i]
    BY <1>7 DEF Answered, IssueStep
  <2>2. IssueOk(i, issue[i], authority, tokenSlot, identitySlot)
    BY DEF TokenInv, IssuesSound
  <2>3. issue[i].generation = issue[i].ticket /\ Known(issue[i].ticket, authority)
    BY <2>1, <2>2 DEF IssueOk, TicketOk, Won
  <2>4. issue[i].ticket = authority.active => i = tokenSlot[issue[i].ticket]
    BY <2>2, <2>3, GenerationsAre DEF IssueOk, WrittenOk, Known
  <2>5. i \in TokenOrNone
    BY GenerationsAre DEF TokenOrNone
  <2> QED
    BY <1>4, <2>1, <2>3, <2>4, <2>5 DEF Known
<1> QED
  BY <1>2, <1>3, <1>5, <1>6, <1>7, CacheMovers

-----------------------------------------------------------------------------
(* The issues.                                                              *)

\* What another step leaves an issue.
LEMMA OthersKept ==
    ASSUME TokenInv, [Next]_vars, NEW i \in Issues,
           issue'[i] = issue[i] \/ issue[i].pc \notin {"finalize", "token", "identity"}
    PROVE  IssueOk(i, issue[i], authority', tokenSlot', identitySlot')
<1>1. /\ AuthorityOk(authority) /\ Moved(authority, authority')
      /\ IssueOk(i, issue[i], authority, tokenSlot, identitySlot)
  BY RowAndSlots DEF TokenInv, IssuesSound
<1>2. DOMAIN issue = Issues /\ issue[i] \in IssueType
  BY DEF TokenInv, Domains, IssuesSound, IssueOk
<1>3. ~Finalize(i) /\ ~WriteToken(i) /\ ~WriteIdentity(i)
  <2>1. ASSUME Finalize(i)
        PROVE  FALSE
    <3>1. issue[i].pc = "finalize" /\ issue'[i].pc \in {"finalized", "failing", "done"}
      BY <1>2, <2>1 DEF Finalize, IssueStep, IssueGoes, Failing, IssueType
    <3> QED
      BY <3>1
  <2>2. ASSUME WriteToken(i)
        PROVE  FALSE
    <3>1. issue[i].pc = "token" /\ issue'[i].pc = "identity"
      BY <1>2, <2>2 DEF WriteToken, IssueStep, IssueGoes, IssueType
    <3> QED
      BY <3>1
  <2>3. ASSUME WriteIdentity(i)
        PROVE  FALSE
    <3>1. issue[i].pc = "identity" /\ issue'[i].pc = "commit"
      BY <1>2, <2>3 DEF WriteIdentity, IssueStep, IssueGoes, IssueType
    <3> QED
      BY <3>1
  <2> QED
    BY <2>1, <2>2, <2>3
<1>4. issue[i].ticket = authority'.active /\ authority'.active # None
        => authority'.active = authority.active
  <2>1. ASSUME NEW k \in Issues, Finalize(k), issue[k].ticket = authority'.active,
               issue[i].ticket = authority'.active, authority'.active # None
        PROVE  FALSE
    BY <1>3, <2>1 DEF TokenInv, TicketsDiffer
  <2> QED
    BY <2>1, RowMoves
<1>5. issue[i].ticket \in Generations \cup {None}
  BY <1>2 DEF IssueType, SeenOrNone
<1>6. issue[i].ticket = authority.active /\ authority.active # None
        => tokenSlot'[issue[i].ticket] = tokenSlot[issue[i].ticket]
  BY <1>5, SlotsMove DEF Touched
<1>7. issue[i].ticket = authority.pending /\ authority.pending # None /\ issue[i].phase # "cancelling"
        => /\ tokenSlot'[issue[i].ticket] = tokenSlot[issue[i].ticket]
           /\ identitySlot'[issue[i].ticket] = identitySlot[issue[i].ticket]
  BY <1>3, <1>5, SlotsMove DEF Touched
<1> QED
  BY <1>1, <1>4, <1>6, <1>7, IssueKept

LEMMA IssuesAre ==
    ASSUME TokenInv
    PROVE  /\ DOMAIN issue = Issues /\ authority.next \in Nat
           /\ \A i \in Issues : /\ IssueOk(i, issue[i], authority, tokenSlot, identitySlot)
                                /\ issue[i] \in IssueType
                                /\ issue[i].ticket \in Nat /\ issue[i].ticket < authority.next
<1>1. DOMAIN issue = Issues /\ authority.next \in Nat
  BY DEF TokenInv, Domains, StoreSound, AuthorityOk
<1>2. ASSUME NEW i \in Issues
      PROVE  /\ IssueOk(i, issue[i], authority, tokenSlot, identitySlot) /\ issue[i] \in IssueType
             /\ issue[i].ticket < authority.next
  BY DEF TokenInv, IssuesSound, IssueOk, TicketOk
<1>3. ASSUME NEW i \in Issues
      PROVE  issue[i].ticket \in Nat
  <2>1. issue[i].ticket \in SeenOrNone
    BY <1>2 DEF IssueType
  <2> QED
    BY <2>1, SeenAre
<1> QED
  BY <1>1, <1>2, <1>3

\* A step of one issue, and what it does to the issue in flight.
FlightMoves(i) ==
    \/ inFlight' = inFlight /\ (Live(issue'[i]) => Live(issue[i]) \/ inFlight = i)
    \/ inFlight = i /\ ~Live(issue'[i])
    \/ inFlight = None /\ inFlight' = i
IssueFrame(i) == DOMAIN issue' = Issues /\ \A j \in Issues \ {i} : issue'[j] = issue[j]
IssuesOk == DOMAIN issue' = Issues /\ IssuesSound' /\ TicketsDiffer' /\ OneFlight'

LEMMA OneIssueGoes ==
    ASSUME TokenInv, [Next]_vars, NEW i \in Issues, IssueFrame(i),
           IssueOk(i, issue'[i], authority', tokenSlot', identitySlot'),
           issue'[i].ticket = issue[i].ticket \/ issue'[i].ticket = authority.next,
           FlightMoves(i)
    PROVE  IssuesOk
<1>1. IssuesSound'
  <2>1. ASSUME NEW j \in Issues
        PROVE  IssueOk(j, issue'[j], authority', tokenSlot', identitySlot')
    <3>1. CASE j = i
      BY <3>1
    <3>2. CASE j # i
      <4>1. issue'[j] = issue[j]
        BY <3>2 DEF IssueFrame
      <4> QED
        BY <4>1, OthersKept
    <3> QED
      BY <3>1, <3>2
  <2> QED
    BY <2>1 DEF IssuesSound
<1>2. TicketsDiffer'
  <2>1. ASSUME NEW j \in Issues, j # i, issue'[j].ticket = issue'[i].ticket
        PROVE  issue'[i].ticket = None
    <3>1. issue'[j] = issue[j] /\ issue[j].ticket # authority.next
      BY <2>1, IssuesAre DEF IssueFrame
    <3> QED
      BY <2>1, <3>1 DEF TokenInv, TicketsDiffer
  <2>2. \A j, k \in Issues \ {i} :
           j # k /\ issue'[j].ticket = issue'[k].ticket => issue'[j].ticket = None
    BY DEF TokenInv, TicketsDiffer, IssueFrame
  <2> QED
    BY <2>1, <2>2 DEF TicketsDiffer
<1>3. OneFlight'
  <2>1. i # None /\ \A j \in Issues : Live(issue[j]) => inFlight = j
    BY GenerationsAre DEF TokenInv, OneFlight
  <2>2. \A j \in Issues \ {i} : Live(issue'[j]) <=> Live(issue[j])
    BY DEF IssueFrame
  <2>3. \A j \in Issues : j # None
    BY GenerationsAre
  <2>4. ASSUME NEW j \in Issues, Live(issue'[j])
        PROVE  inFlight' = j
    BY <2>1, <2>2, <2>3, <2>4 DEF FlightMoves
  <2> QED
    BY <2>4 DEF OneFlight
<1> QED
  BY <1>1, <1>2, <1>3 DEF IssuesOk, IssueFrame

\* What the updates of an issue make of it.
LEMMA IssueFields ==
    ASSUME NEW r \in IssueType, NEW pc \in IssueSteps
    PROVE  /\ [r EXCEPT !.pc = pc] \in IssueType
           /\ \A e \in Errors : [r EXCEPT !.error = e, !.pc = pc] \in IssueType
           /\ \A cs \in SUBSET Calls : [r EXCEPT !.callers = cs, !.pc = pc] \in IssueType
           /\ \A cs \in SUBSET Calls : [r EXCEPT !.callers = cs] \in IssueType
           /\ \A g \in SeenOrNone : [r EXCEPT !.pc = pc, !.ticket = g] \in IssueType
           /\ \A g \in SeenOrNone : [r EXCEPT !.pc = pc, !.generation = g] \in IssueType
           /\ \A p \in Phases : [r EXCEPT !.pc = pc, !.phase = p] \in IssueType
           /\ \A x \in TokenOrNone : [r EXCEPT !.pc = pc, !.result = x] \in IssueType
           /\ \A cs \in SUBSET Calls, p \in Phases, b \in BOOLEAN, e \in Errors :
                 [r EXCEPT !.callers = cs, !.phase = p, !.aborted = b, !.error = e, !.pc = pc]
                   \in IssueType
<1>1. [r EXCEPT !.pc = pc] \in IssueType
  BY DEF IssueType
<1>2. ASSUME NEW e \in Errors
      PROVE  [r EXCEPT !.error = e, !.pc = pc] \in IssueType
  BY DEF IssueType
<1>3. ASSUME NEW cs \in SUBSET Calls
      PROVE  [r EXCEPT !.callers = cs, !.pc = pc] \in IssueType /\ [r EXCEPT !.callers = cs] \in IssueType
  BY DEF IssueType
<1>4. ASSUME NEW g \in SeenOrNone
      PROVE  /\ [r EXCEPT !.pc = pc, !.ticket = g] \in IssueType
             /\ [r EXCEPT !.pc = pc, !.generation = g] \in IssueType
  BY DEF IssueType
<1>5. ASSUME NEW p \in Phases
      PROVE  [r EXCEPT !.pc = pc, !.phase = p] \in IssueType
  BY DEF IssueType
<1>6. ASSUME NEW x \in TokenOrNone
      PROVE  [r EXCEPT !.pc = pc, !.result = x] \in IssueType
  BY DEF IssueType
<1>7. ASSUME NEW cs \in SUBSET Calls, NEW p \in Phases, NEW b \in BOOLEAN, NEW e \in Errors
      PROVE  [r EXCEPT !.callers = cs, !.phase = p, !.aborted = b, !.error = e, !.pc = pc] \in IssueType
  BY DEF IssueType
<1> QED
  BY <1>1, <1>2, <1>3, <1>4, <1>5, <1>6, <1>7

\* An issue that only changes its callers or goes to a step that asks nothing new.
Like(new, old) ==
    /\ new \in IssueType
    /\ new.ticket = old.ticket /\ new.generation = old.generation
    /\ new.phase = old.phase /\ new.aborted = old.aborted

LEMMA LikeFrame ==
    ASSUME TokenInv, NEW i \in Issues, NEW rec, IssueGoes(i, rec)
    PROVE  IssueFrame(i) /\ issue'[i] = rec
BY IssuesAre DEF IssueGoes, IssueFrame

\* An issue that was not lost ends or begins to fail.
LEMMA GivesUp ==
    ASSUME TokenInv, NEW i \in Issues, NEW e \in Errors,
           issue[i].pc \in {"reserve", "fetch", "token", "identity", "commit", "finalize"}
    PROVE  /\ IssueOk(i, Failing(issue[i], e), authority, tokenSlot, identitySlot)
           /\ Like(Failing(issue[i], e), issue[i])
           /\ Failing(issue[i], e).pc = IF issue[i].pc = "reserve" THEN "done" ELSE "failing"
           /\ Failing(issue[i], e).ticket = issue[i].ticket
<1> DEFINE pc  == IF issue[i].generation = None THEN "done" ELSE "failing"
           rec == [issue[i] EXCEPT !.error = e, !.pc = pc]
<1>1. IssueOk(i, issue[i], authority, tokenSlot, identitySlot) /\ issue[i] \in IssueType
  BY IssuesAre
<1>2. /\ pc \in {"done", "failing"} /\ pc \in IssueSteps
      /\ issue[i].pc = "reserve" <=> pc = "done"
      /\ pc = "failing" => issue[i].generation = issue[i].ticket /\ issue[i].ticket # None
  BY <1>1 DEF IssueSteps, IssueOk, TicketOk
<1>3. Failing(issue[i], e) = rec
  BY DEF Failing
<1>4. rec \in IssueType
  BY <1>1, <1>2, IssueFields
<1>5. /\ rec.pc = pc /\ rec.phase = issue[i].phase /\ rec.aborted = issue[i].aborted
      /\ rec.ticket = issue[i].ticket /\ rec.generation = issue[i].generation
  <2> HIDE DEF pc
  <2> QED
    BY <1>1 DEF IssueType
<1>6. issue[i].pc \notin Won \cup {"done"}
  BY DEF Won
<1>7. IssueOk(i, rec, authority, tokenSlot, identitySlot)
  <2> HIDE DEF rec, pc
  <2>1. PhaseOk(rec)
    BY <1>1, <1>2, <1>5 DEF IssueOk, PhaseOk, Won
  <2>2. TicketOk(rec, authority)
    BY <1>1, <1>2, <1>5 DEF IssueOk, TicketOk, Won
  <2>3. WrittenOk(i, rec, authority, tokenSlot, identitySlot)
    BY <1>1, <1>2, <1>5, <1>6 DEF IssueOk, WrittenOk
  <2> QED
    BY <1>4, <2>1, <2>2, <2>3 DEF IssueOk
<1> HIDE DEF rec, pc
<1> QED
  BY <1>2, <1>3, <1>4, <1>5, <1>7 DEF Like

\* A generation is reserved and its issue goes to the server.
LEMMA ReserveIssue ==
    ASSUME TokenInv, [Next]_vars, NEW i \in Issues, Reserve(i) \/ AfterReserve(i) \/ Fetched(i),
           Reserve(i) => authority.next \in Generations
    PROVE  IssuesOk
<1>1. IssueOk(i, issue[i], authority, tokenSlot, identitySlot) /\ issue[i] \in IssueType
  BY IssuesAre
<1>2. {"reserved", "fetch", "token", "failing"} \subseteq IssueSteps /\ "cancelled" \in Errors
  BY DEF IssueSteps, Errors
<1>3. CASE Reserve(i)
  <2> DEFINE g   == authority.next
             rec == [issue[i] EXCEPT !.pc = "reserved", !.ticket = g]
  <2>1. IssueGoes(i, rec) /\ authority' = Reserved(authority) /\ UNCHANGED <<tokenSlot, identitySlot, inFlight>>
    BY <1>3 DEF Reserve, slots
  <2>2. issue[i].pc = "reserve"
    BY <1>3 DEF Reserve, IssueStep
  <2>3. g \in SeenOrNone /\ g \in Nat \ {0}
    BY <1>3 DEF SeenOrNone, TokenInv, StoreSound, AuthorityOk
  <2>4. /\ rec \in IssueType /\ rec.pc = "reserved" /\ rec.ticket = g
        /\ rec.phase = issue[i].phase /\ rec.aborted = issue[i].aborted
        /\ rec.generation = issue[i].generation
    <3> HIDE DEF g
    <3>1. rec \in IssueType
      BY <1>1, <1>2, <2>3, IssueFields
    <3> QED
      BY <1>1, <3>1 DEF IssueType
  <2>5. issue'[i] = rec /\ IssueFrame(i)
    BY <2>1, LikeFrame
  <2>6. g < authority'.next /\ authority'.active # g
    BY <2>1, <2>3, ReservedMoves DEF TokenInv, StoreSound, AuthorityOk
  <2>7. IssueOk(i, rec, authority', tokenSlot', identitySlot')
    <3> HIDE DEF rec
    <3>1. PhaseOk(rec)
      BY <1>1, <2>2, <2>4 DEF IssueOk, PhaseOk, Won
    <3>2. TicketOk(rec, authority')
      BY <1>1, <2>2, <2>3, <2>4, <2>6 DEF IssueOk, TicketOk, Won
    <3>3. WrittenOk(i, rec, authority', tokenSlot', identitySlot')
      BY <2>4, <2>6 DEF WrittenOk
    <3> QED
      BY <2>4, <3>1, <3>2, <3>3 DEF IssueOk
  <2>8. FlightMoves(i)
    <3> HIDE DEF rec
    <3> QED
      BY <2>1, <2>2, <2>4, <2>5 DEF FlightMoves, Live
  <2> HIDE DEF rec
  <2> QED
    BY <2>4, <2>5, <2>7, <2>8, OneIssueGoes
<1>4. CASE AfterReserve(i)
  <2> DEFINE g   == issue[i].ticket
             rec == [issue[i] EXCEPT !.pc = "fetch", !.generation = g]
             bad == Failing(rec, "cancelled")
             fresh == [rec EXCEPT !.error = "cancelled", !.pc = "failing"]
  <2>1. /\ IssueGoes(i, IF IsCurrent(i) THEN rec ELSE bad)
        /\ UNCHANGED authority /\ UNCHANGED <<tokenSlot, identitySlot, inFlight>>
    BY <1>4 DEF AfterReserve, stored, slots
  <2>2. issue[i].pc = "reserved" /\ g # None /\ g \in SeenOrNone
    BY <1>1, <1>4 DEF AfterReserve, IssueStep, IssueOk, TicketOk, IssueType
  <2>3. /\ rec \in IssueType /\ rec.pc = "fetch" /\ rec.ticket = g /\ rec.generation = g
        /\ rec.phase = issue[i].phase /\ rec.aborted = issue[i].aborted
    <3> HIDE DEF g
    <3>1. rec \in IssueType
      BY <1>1, <1>2, <2>2, IssueFields
    <3> QED
      BY <1>1, <3>1, <2>2 DEF IssueType, g
  <2> HIDE DEF rec
  <2>4. bad = fresh
    BY <2>2, <2>3 DEF Failing
  <2>5. /\ fresh \in IssueType /\ fresh.pc = "failing" /\ fresh.ticket = g /\ fresh.generation = g
        /\ fresh.phase = issue[i].phase /\ fresh.aborted = issue[i].aborted
    <3>1. fresh \in IssueType
      BY <1>2, <2>3, IssueFields
    <3> QED
      BY <2>3, <3>1 DEF IssueType
  <2> HIDE DEF fresh, bad
  <2>6. PICK new : /\ IssueGoes(i, new) /\ new \in IssueType /\ new.ticket = g /\ new.generation = g
                   /\ new.phase = issue[i].phase /\ new.aborted = issue[i].aborted
                   /\ \/ new.pc = "fetch" /\ issue[i].phase = "issuing"
                      \/ new.pc = "failing"
    BY <2>1, <2>3, <2>4, <2>5 DEF IsCurrent
  <2>7. issue'[i] = new /\ IssueFrame(i)
    BY <2>6, LikeFrame
  <2>8. IssueOk(i, new, authority', tokenSlot', identitySlot')
    <3>1. PhaseOk(new)
      BY <1>1, <2>2, <2>6 DEF IssueOk, PhaseOk, Won
    <3>2. TicketOk(new, authority')
      BY <1>1, <2>1, <2>2, <2>6 DEF IssueOk, TicketOk, Won
    <3>3. WrittenOk(i, new, authority', tokenSlot', identitySlot')
      BY <1>1, <2>1, <2>2, <2>6 DEF IssueOk, WrittenOk, Won
    <3> QED
      BY <2>6, <3>1, <3>2, <3>3 DEF IssueOk
  <2>9. FlightMoves(i)
    BY <2>1, <2>2, <2>6, <2>7 DEF FlightMoves, Live
  <2> QED
    BY <2>6, <2>7, <2>8, <2>9, OneIssueGoes
<1>5. CASE Fetched(i)
  <2> DEFINE rec == [issue[i] EXCEPT !.pc = "token"]
  <2>1. /\ IssueGoes(i, rec) /\ UNCHANGED authority /\ UNCHANGED <<tokenSlot, identitySlot, inFlight>>
        /\ issue[i].pc = "fetch"
    BY <1>5 DEF Fetched, IssueStep, stored, slots
  <2>2. Like(rec, issue[i]) /\ rec.pc = "token"
    <3>1. rec \in IssueType
      BY <1>1, <1>2, IssueFields
    <3> QED
      BY <1>1, <3>1 DEF IssueType, Like
  <2>3. issue'[i] = rec /\ IssueFrame(i)
    BY <2>1, LikeFrame
  <2> HIDE DEF rec
  <2>4. IssueOk(i, rec, authority', tokenSlot', identitySlot')
    <3>1. PhaseOk(rec)
      BY <1>1, <2>1, <2>2 DEF IssueOk, PhaseOk, Won, Like
    <3>2. TicketOk(rec, authority')
      BY <1>1, <2>1, <2>2 DEF IssueOk, TicketOk, Won, Like
    <3>3. WrittenOk(i, rec, authority', tokenSlot', identitySlot')
      BY <1>1, <2>1, <2>2 DEF IssueOk, WrittenOk, Won, Like
    <3> QED
      BY <2>2, <3>1, <3>2, <3>3 DEF IssueOk, Like
  <2>5. FlightMoves(i)
    BY <2>1, <2>2, <2>3 DEF FlightMoves, Live, Like
  <2> QED
    BY <2>2, <2>3, <2>4, <2>5, OneIssueGoes DEF Like
<1> QED
  BY <1>3, <1>4, <1>5

\* A step that leaves an issue its generation and its phase.
LEMMA LikeGoes ==
    ASSUME TokenInv, [Next]_vars, NEW i \in Issues, NEW rec, IssueGoes(i, rec),
           Like(rec, issue[i]), PhaseOk(rec), TicketOk(rec, authority'),
           WrittenOk(i, rec, authority', tokenSlot', identitySlot'),
           issue[i].pc \notin {"unused", "done"},
           inFlight' = inFlight \/ (SettleFlight(i) /\ rec.pc = "done")
    PROVE  IssuesOk
<1>1. issue'[i] = rec /\ IssueFrame(i)
  BY LikeFrame
<1>2. IssueOk(i, rec, authority', tokenSlot', identitySlot') /\ rec.ticket = issue[i].ticket
  BY DEF IssueOk, Like
<1>3. FlightMoves(i)
  BY <1>1 DEF FlightMoves, Live, Like, SettleFlight
<1> QED
  BY <1>1, <1>2, <1>3, OneIssueGoes

\* The token and the identity are written.
LEMMA WriteIssue ==
    ASSUME TokenInv, [Next]_vars, NEW i \in Issues, WriteToken(i) \/ WriteIdentity(i)
    PROVE  IssuesOk
<1>1. IssueOk(i, issue[i], authority, tokenSlot, identitySlot) /\ issue[i] \in IssueType
  BY IssuesAre
<1>2. tokenSlot \in Slots /\ identitySlot \in Slots
  BY DEF TokenInv, StoreSound
<1>3. /\ issue[i].pc \in {"token", "identity"} /\ issue[i].phase = "issuing"
      /\ UNCHANGED authority /\ UNCHANGED inFlight
  BY <1>1 DEF WriteToken, WriteIdentity, IssueStep, IssueOk, PhaseOk, IssueType, Phases, Won
<1>4. issue[i].generation = issue[i].ticket /\ issue[i].ticket \in Generations
  <2>1. issue[i].ticket \in SeenOrNone /\ issue[i].ticket # None
    BY <1>1, <1>3 DEF IssueOk, TicketOk, IssueType
  <2> QED
    BY <1>1, <1>3, <2>1 DEF IssueOk, TicketOk, SeenOrNone
<1>5. ASSUME NEW pc \in {"identity", "commit"}, IssueGoes(i, [issue[i] EXCEPT !.pc = pc]),
             tokenSlot'[issue[i].ticket] = i,
             pc = "commit" => identitySlot'[issue[i].ticket] = i
      PROVE  IssuesOk
  <2> DEFINE rec == [issue[i] EXCEPT !.pc = pc]
  <2>1. Like(rec, issue[i]) /\ rec.pc = pc
    <3>1. pc \in IssueSteps
      BY DEF IssueSteps
    <3>2. rec \in IssueType
      BY <1>1, <3>1, IssueFields
    <3> QED
      BY <1>1, <3>2 DEF IssueType, Like
  <2>2. IssueGoes(i, rec)
    BY <1>5
  <2> HIDE DEF rec
  <2>3. PhaseOk(rec)
    BY <1>1, <1>3, <2>1 DEF IssueOk, PhaseOk, Won, Like
  <2>4. TicketOk(rec, authority')
    BY <1>1, <1>3, <2>1 DEF IssueOk, TicketOk, Won, Like
  <2>5. WrittenOk(i, rec, authority', tokenSlot', identitySlot')
    <3>1. issue[i].ticket = authority.active => authority.active = None
      BY <1>1, <1>3 DEF IssueOk, WrittenOk, Won
    <3> QED
      BY <1>3, <1>5, <2>1, <3>1 DEF WrittenOk, Like
  <2> QED
    BY <1>3, <2>1, <2>2, <2>3, <2>4, <2>5, LikeGoes
<1>6. CASE WriteToken(i)
  <2>1. tokenSlot'[issue[i].ticket] = i
    BY <1>2, <1>4, <1>6 DEF WriteToken, Slot, Slots
  <2> QED
    BY <1>5, <1>6, <2>1 DEF WriteToken
<1>7. CASE WriteIdentity(i) /\ issue[i].ticket = authority.pending
  <2>1. identitySlot'[issue[i].ticket] = i
    BY <1>2, <1>4, <1>7 DEF WriteIdentity, Slot, Slots
  <2>2. tokenSlot[issue[i].ticket] = i
    BY <1>1, <1>3, <1>4, <1>7, GenerationsAre DEF WriteIdentity, IssueStep, IssueOk, WrittenOk
  <2> QED
    BY <1>5, <1>7, <2>1, <2>2 DEF WriteIdentity
<1>8. CASE WriteIdentity(i) /\ issue[i].ticket # authority.pending
  <2> DEFINE rec == [issue[i] EXCEPT !.pc = "commit"]
  <2>1. Like(rec, issue[i]) /\ rec.pc = "commit"
    <3>1. "commit" \in IssueSteps
      BY DEF IssueSteps
    <3>2. rec \in IssueType
      BY <1>1, <3>1, IssueFields
    <3> QED
      BY <1>1, <3>2 DEF IssueType, Like
  <2>2. IssueGoes(i, rec)
    BY <1>8 DEF WriteIdentity
  <2> HIDE DEF rec
  <2>3. PhaseOk(rec)
    BY <1>1, <1>3, <2>1 DEF IssueOk, PhaseOk, Won, Like
  <2>4. TicketOk(rec, authority')
    BY <1>1, <1>3, <2>1 DEF IssueOk, TicketOk, Won, Like
  <2>5. WrittenOk(i, rec, authority', tokenSlot', identitySlot')
    <3>1. issue[i].ticket = authority.active => authority.active = None
      BY <1>1, <1>3 DEF IssueOk, WrittenOk, Won
    <3> QED
      BY <1>3, <1>8, <2>1, <3>1 DEF WrittenOk, Like
  <2> QED
    BY <1>3, <2>1, <2>2, <2>3, <2>4, <2>5, LikeGoes
<1> QED
  BY <1>6, <1>7, <1>8

\* An issue that goes on to a step and changes nothing else of what is known of it.
LEMMA LikePc ==
    ASSUME TokenInv, NEW i \in Issues, NEW pc \in IssueSteps
    PROVE  LET rec == [issue[i] EXCEPT !.pc = pc] IN Like(rec, issue[i]) /\ rec.pc = pc
<1>1. issue[i] \in IssueType
  BY IssuesAre
<1> DEFINE rec == [issue[i] EXCEPT !.pc = pc]
<1>2. rec \in IssueType
  BY <1>1, IssueFields
<1> QED
  BY <1>1, <1>2 DEF IssueType, Like

\* The issue is committed, and finalized.
LEMMA CommitIssue ==
    ASSUME TokenInv, [Next]_vars, NEW i \in Issues, Commit(i) \/ Finalize(i)
    PROVE  IssuesOk
<1>1. IssueOk(i, issue[i], authority, tokenSlot, identitySlot) /\ issue[i] \in IssueType
  BY IssuesAre
<1>2. "cancelled" \in Errors /\ {"finalize", "finalized"} \subseteq IssueSteps /\ "committing" \in Phases
  BY DEF Errors, IssueSteps, Won, Phases
<1>3. issue[i].pc \in {"commit", "finalize"} /\ UNCHANGED <<tokenSlot, identitySlot, inFlight>>
  BY DEF Commit, Finalize, IssueStep, stored, slots
<1>4. issue[i].generation = issue[i].ticket /\ issue[i].ticket \in Generations /\ issue[i].ticket # None
  <2>1. issue[i].ticket \in SeenOrNone /\ issue[i].ticket # None
    BY <1>1, <1>3 DEF IssueOk, TicketOk, IssueType
  <2> QED
    BY <1>1, <1>3, <2>1 DEF IssueOk, TicketOk, SeenOrNone
<1>5. issue[i].ticket # authority.active
  BY <1>1, <1>3, <1>4 DEF IssueOk, WrittenOk, Won
<1> DEFINE bad == Failing(issue[i], "cancelled")
<1>6. /\ IssueOk(i, bad, authority, tokenSlot, identitySlot) /\ Like(bad, issue[i])
      /\ bad.pc = "failing" /\ bad.ticket = issue[i].ticket
  BY <1>2, <1>3, GivesUp
<1> HIDE DEF bad
<1>7. CASE IssueGoes(i, bad) /\ UNCHANGED authority
  BY <1>3, <1>6, <1>7, LikeGoes DEF IssueOk
<1>8. CASE Commit(i) /\ IsCurrent(i)
  <2> DEFINE rec == [issue[i] EXCEPT !.pc = "finalize", !.phase = "committing"]
  <2>1. /\ IssueGoes(i, rec) /\ UNCHANGED authority /\ issue[i].pc = "commit"
        /\ issue[i].phase = "issuing" /\ ~issue[i].aborted /\ inFlight = i
    BY <1>8 DEF Commit, IssueStep, stored, IsCurrent
  <2>2. /\ rec \in IssueType /\ rec.pc = "finalize" /\ rec.phase = "committing"
        /\ rec.aborted = issue[i].aborted
        /\ rec.ticket = issue[i].ticket /\ rec.generation = issue[i].generation
    <3>1. rec \in IssueType
      BY <1>1, <1>2, IssueFields
    <3> QED
      BY <1>1, <3>1 DEF IssueType
  <2> HIDE DEF rec
  <2>3. issue'[i] = rec /\ IssueFrame(i)
    BY <2>1, LikeFrame
  <2>4. IssueOk(i, rec, authority', tokenSlot', identitySlot')
    <3>1. PhaseOk(rec)
      BY <2>1, <2>2 DEF PhaseOk, Won
    <3>2. TicketOk(rec, authority')
      BY <1>1, <1>4, <2>1, <2>2 DEF IssueOk, TicketOk, Won
    <3>3. WrittenOk(i, rec, authority', tokenSlot', identitySlot')
      BY <1>1, <1>3, <1>5, <2>1, <2>2 DEF IssueOk, WrittenOk
    <3> QED
      BY <2>2, <3>1, <3>2, <3>3 DEF IssueOk
  <2>5. FlightMoves(i)
    BY <1>3, <2>1 DEF FlightMoves
  <2> QED
    BY <2>2, <2>3, <2>4, <2>5, OneIssueGoes
<1>9. CASE Finalize(i)
  <2>1. /\ authority' = Finalized(authority, issue[i].ticket) /\ issue[i].pc = "finalize"
        /\ IssueGoes(i, IF authority'.active = issue[i].ticket
                        THEN [issue[i] EXCEPT !.pc = "finalized"] ELSE bad)
    BY <1>4, <1>9 DEF Finalize, IssueStep, bad
  <2>2. AuthorityOk(authority)
    BY DEF TokenInv, StoreSound
  <2>3. /\ authority'.next = authority.next /\ authority'.active \in {authority.active, issue[i].ticket}
        /\ authority'.active = issue[i].ticket
             => authority.pending = issue[i].ticket /\ authority'.pending = None
        /\ authority'.active # issue[i].ticket => issue[i].ticket # authority.pending
    BY <1>5, <2>1, <2>2, FinalizedMoves
  <2>4. CASE authority'.active = issue[i].ticket
    <3> DEFINE rec == [issue[i] EXCEPT !.pc = "finalized"]
    <3>1. Like(rec, issue[i]) /\ rec.pc = "finalized"
      BY <1>2, LikePc
    <3>2. IssueGoes(i, rec)
      BY <2>1, <2>4
    <3> HIDE DEF rec
    <3>3. issue[i].phase = "committing" /\ tokenSlot[issue[i].ticket] = i
      BY <1>1, <1>4, <2>1, <2>3, <2>4 DEF IssueOk, PhaseOk, WrittenOk
    <3>4. PhaseOk(rec)
      BY <1>1, <2>1, <3>1, <3>3 DEF IssueOk, PhaseOk, Won, Like
    <3>5. TicketOk(rec, authority')
      <4>1. Known(issue[i].ticket, authority')
        BY <1>1, <1>4, <2>3, <2>4 DEF Known, IssueOk, TicketOk
      <4> QED
        BY <1>1, <1>4, <2>1, <2>3, <3>1, <4>1 DEF IssueOk, TicketOk, Won, Like
    <3>6. WrittenOk(i, rec, authority', tokenSlot', identitySlot')
      BY <1>3, <1>4, <2>3, <2>4, <3>1, <3>3 DEF WrittenOk, Won, Like
    <3> QED
      BY <1>3, <3>1, <3>2, <3>4, <3>5, <3>6, LikeGoes
  <2>5. CASE authority'.active # issue[i].ticket
    <3>1. authority' = authority
      BY <1>4, <2>1, <2>3, <2>5 DEF Finalized
    <3> QED
      BY <1>7, <2>1, <2>5, <3>1
  <2> QED
    BY <2>4, <2>5
<1> QED
  BY <1>7, <1>8, <1>9 DEF Commit, bad, stored

\* The issue is confirmed and answered, or retired and given up.
LEMMA EndIssue ==
    ASSUME TokenInv, [Next]_vars, NEW i \in Issues,
           ConfirmIssue(i) \/ Answered(i) \/ Replaced(i) \/ RetireIssue(i) \/ IssueFails(i)
    PROVE  IssuesOk
<1>1. IssueOk(i, issue[i], authority, tokenSlot, identitySlot) /\ issue[i] \in IssueType
  BY IssuesAre
<1>2. {"confirmed", "replaced", "done", "failing"} \subseteq IssueSteps /\ "failed" \in Errors
  BY DEF Errors, IssueSteps, Won
<1>3. AuthorityOk(authority)
  BY DEF TokenInv, StoreSound
<1>4. ASSUME NEW rec, IssueGoes(i, rec), Like(rec, issue[i]), rec.pc = "done",
             inFlight' = inFlight \/ SettleFlight(i), authority'.next = authority.next,
             UNCHANGED <<tokenSlot, identitySlot>>, issue[i].pc \notin {"unused", "done"},
             issue[i].ticket = authority'.active /\ authority'.active # None
               => authority'.active = authority.active /\ issue[i].pc \in Won
      PROVE  IssuesOk
  <2>1. PhaseOk(rec)
    BY <1>1, <1>4 DEF IssueOk, PhaseOk, Won, Like
  <2>2. TicketOk(rec, authority')
    BY <1>1, <1>4 DEF IssueOk, TicketOk, Won, Like
  <2>3. WrittenOk(i, rec, authority', tokenSlot', identitySlot')
    BY <1>1, <1>4 DEF IssueOk, WrittenOk, Like
  <2> QED
    BY <1>4, <2>1, <2>2, <2>3, LikeGoes
<1>5. CASE ConfirmIssue(i)
  <2>1. PICK pc \in {"confirmed", "replaced"} : IssueGoes(i, [issue[i] EXCEPT !.pc = pc])
    BY <1>5 DEF ConfirmIssue
  <2>2. issue[i].pc = "finalized" /\ UNCHANGED <<authority, tokenSlot, identitySlot, inFlight>>
    BY <1>5 DEF ConfirmIssue, IssueStep, stored, slots
  <2> DEFINE rec == [issue[i] EXCEPT !.pc = pc]
  <2>3. Like(rec, issue[i]) /\ rec.pc = pc /\ pc \in Won
    BY <1>2, LikePc DEF Won
  <2>4. IssueGoes(i, rec)
    BY <2>1
  <2> HIDE DEF rec
  <2>5. PhaseOk(rec)
    BY <1>1, <2>2, <2>3 DEF IssueOk, PhaseOk, Won, Like
  <2>6. TicketOk(rec, authority')
    BY <1>1, <2>2, <2>3 DEF IssueOk, TicketOk, Won, Like
  <2>7. WrittenOk(i, rec, authority', tokenSlot', identitySlot')
    BY <1>1, <2>2, <2>3 DEF IssueOk, WrittenOk, Won, Like
  <2> QED
    BY <2>2, <2>3, <2>4, <2>5, <2>6, <2>7, LikeGoes
<1>6. CASE Answered(i) \/ Replaced(i)
  <2>1. /\ issue[i].pc \in Won /\ issue[i].pc \notin {"unused", "done"}
        /\ SettleFlight(i) /\ UNCHANGED <<authority, tokenSlot, identitySlot>>
    BY <1>6 DEF Answered, Replaced, IssueStep, Won, stored, slots
  <2>2. PICK x \in TokenOrNone : IssueGoes(i, [issue[i] EXCEPT !.pc = "done", !.result = x])
    <3>1. i \in TokenOrNone /\ None \in TokenOrNone /\ reader[i].token \in TokenOrNone
      BY GenerationsAre DEF TokenOrNone, TokenInv, ReadersSound, ReadOk, ReadType
    <3> QED
      BY <1>6, <3>1 DEF Answered, Replaced
  <2> DEFINE rec == [issue[i] EXCEPT !.pc = "done", !.result = x]
  <2>3. Like(rec, issue[i]) /\ rec.pc = "done"
    <3>1. rec \in IssueType
      BY <1>1, <1>2, IssueFields
    <3> QED
      BY <1>1, <3>1 DEF IssueType, Like
  <2>4. IssueGoes(i, rec)
    BY <2>2
  <2> HIDE DEF rec
  <2> QED
    BY <1>4, <2>1, <2>3, <2>4
<1>7. CASE RetireIssue(i)
  <2> DEFINE rec == [issue[i] EXCEPT !.pc = "done"]
  <2>1. /\ issue[i].pc = "failing" /\ SettleFlight(i) /\ UNCHANGED <<tokenSlot, identitySlot>>
        /\ IssueGoes(i, rec) /\ authority' = Retired(authority, issue[i].generation)
    BY <1>7 DEF RetireIssue, IssueStep, slots
  <2>2. issue[i].generation = issue[i].ticket /\ issue[i].ticket # None
    BY <1>1, <2>1 DEF IssueOk, TicketOk
  <2>3. authority'.active # issue[i].ticket
    BY <1>3, <2>1, <2>2, RetiredMoves
  <2>4. authority'.next = authority.next
    BY <1>3, <2>1 DEF Retired, AuthorityOk
  <2>5. Like(rec, issue[i]) /\ rec.pc = "done"
    BY <1>2, LikePc
  <2> HIDE DEF rec
  <2> QED
    BY <1>4, <2>1, <2>3, <2>4, <2>5
<1>8. CASE IssueFails(i) /\ issue[i].pc \in {"finalized", "failing"}
  <2> DEFINE rec == [issue[i] EXCEPT !.error = "failed", !.pc = "done"]
  <2>1. rec \in IssueType
    BY <1>1, <1>2, IssueFields
  <2>2. Like(rec, issue[i]) /\ rec.pc = "done"
    BY <1>1, <2>1 DEF IssueType, Like
  <2>3. IssueGoes(i, rec)
    <3>1. [issue[i] EXCEPT !.pc = "done", !.error = "failed"] = rec
      BY <1>1 DEF IssueType
    <3> QED
      BY <1>8, <3>1 DEF IssueFails
  <2> HIDE DEF rec
  <2>4. /\ inFlight' = inFlight \/ SettleFlight(i)
        /\ UNCHANGED <<authority, tokenSlot, identitySlot>>
    BY <1>8 DEF IssueFails, stored, slots
  <2>5. issue[i].ticket = authority.active /\ authority.active # None => issue[i].pc \in Won
    BY <1>1, <1>8 DEF IssueOk, WrittenOk
  <2> QED
    BY <1>4, <1>8, <2>2, <2>3, <2>4, <2>5
<1>9. CASE IssueFails(i) /\ issue[i].pc \notin {"finalized", "failing"}
  <2> DEFINE bad == Failing(issue[i], "failed")
  <2>1. /\ IssueGoes(i, bad) /\ UNCHANGED <<authority, tokenSlot, identitySlot>>
        /\ issue[i].pc \in {"reserve", "fetch", "token", "identity", "finalize"}
        /\ IF issue'[i].pc = "done" THEN SettleFlight(i) ELSE UNCHANGED inFlight
    BY <1>9 DEF IssueFails, stored, slots
  <2>2. IssueOk(i, bad, authority, tokenSlot, identitySlot) /\ Like(bad, issue[i])
    BY <1>2, <2>1, GivesUp
  <2> HIDE DEF bad
  <2>3. issue'[i] = bad
    BY <2>1, LikeFrame
  <2> QED
    BY <2>1, <2>2, <2>3, LikeGoes DEF IssueOk
<1> QED
  BY <1>5, <1>6, <1>7, <1>8, <1>9

\* Callers join an issue and leave it.
LEMMA JoinIssue ==
    ASSUME TokenInv, [Next]_vars, NEW c \in Calls, Join(c) \/ Deliver(c)
    PROVE  IssuesOk
<1>1. \A i \in Issues : /\ IssueOk(i, issue[i], authority, tokenSlot, identitySlot)
                        /\ issue[i] \in IssueType
  BY IssuesAre
<1>2. UNCHANGED <<authority, tokenSlot, identitySlot>>
  BY DEF Join, Deliver, stored, slots
<1>3. CASE Join(c)
  <2>1. PICK i \in Issues :
           /\ inFlight = i \/ (inFlight = None /\ issue[i].pc = "unused")
           /\ issue' = [issue EXCEPT ![i].callers = @ \cup {c},
                                     ![i].pc = IF @ = "unused" THEN "reserve" ELSE @]
           /\ inFlight' = i
    BY <1>3 DEF Join
  <2> DEFINE cs  == issue[i].callers \cup {c}
             pc  == IF issue[i].pc = "unused" THEN "reserve" ELSE issue[i].pc
             rec == [issue[i] EXCEPT !.callers = cs, !.pc = pc]
  <2>2. IssueFrame(i) /\ issue'[i] = rec
    BY <1>1, <2>1, IssuesAre DEF IssueFrame, IssueType
  <2>3. cs \in SUBSET Calls /\ issue[i].pc \in IssueSteps /\ pc \in IssueSteps
    BY <1>1 DEF IssueType, IssueSteps
  <2>4. Like(rec, issue[i]) /\ rec.pc = pc
    <3> HIDE DEF cs, pc
    <3>1. rec \in IssueType
      BY <1>1, <2>3, IssueFields
    <3> QED
      BY <1>1, <3>1 DEF IssueType, Like
  <2>5. IssueOk(i, rec, authority', tokenSlot', identitySlot')
    <3> HIDE DEF rec
    <3>1. CASE issue[i].pc = "unused"
      <4>1. pc = "reserve"
        BY <3>1
      <4> HIDE DEF pc
      <4>2. PhaseOk(rec)
        BY <1>1, <2>4, <3>1, <4>1 DEF IssueOk, PhaseOk, Won, Like
      <4>3. TicketOk(rec, authority')
        BY <1>1, <1>2, <2>4, <3>1, <4>1 DEF IssueOk, TicketOk, Won, Like
      <4>4. WrittenOk(i, rec, authority', tokenSlot', identitySlot')
        BY <1>1, <1>2, <2>4, <3>1, <4>1 DEF IssueOk, WrittenOk, Won, Like
      <4> QED
        BY <2>4, <4>2, <4>3, <4>4 DEF IssueOk, Like
    <3>2. CASE issue[i].pc # "unused"
      <4>1. pc = issue[i].pc
        BY <3>2
      <4> HIDE DEF pc
      <4> QED
        BY <1>1, <1>2, <2>4, <4>1 DEF IssueOk, PhaseOk, TicketOk, WrittenOk, Like
    <3> QED
      BY <3>1, <3>2
  <2>6. FlightMoves(i)
    BY <2>1 DEF FlightMoves
  <2> HIDE DEF rec
  <2> QED
    BY <2>2, <2>4, <2>5, <2>6, OneIssueGoes DEF Like
<1>4. CASE Deliver(c)
  <2> DEFINE i   == call[c].issue
             cs  == issue[i].callers \ {c}
             rec == [issue[i] EXCEPT !.callers = cs]
  <2>1. i \in Issues
    BY <1>4 DEF Deliver, TokenInv, CallsSound, CallOk, CallType
  <2>2. IssueGoes(i, rec) /\ issue[i].pc = "done" /\ UNCHANGED inFlight
    BY <1>4 DEF Deliver, IssueGoes
  <2>3. Like(rec, issue[i]) /\ rec.pc = issue[i].pc
    <3>1. cs \in SUBSET Calls /\ issue[i].pc \in IssueSteps
      BY <1>1, <2>1 DEF IssueType
    <3> HIDE DEF cs, i
    <3>2. rec \in IssueType
      BY <1>1, <2>1, <3>1, IssueFields
    <3> QED
      BY <1>1, <2>1, <3>2 DEF IssueType, Like
  <2> HIDE DEF rec, i
  <2>4. IssueOk(i, rec, authority', tokenSlot', identitySlot')
    BY <1>1, <1>2, <2>1, <2>3 DEF IssueOk, PhaseOk, TicketOk, WrittenOk, Like
  <2>5. IssueFrame(i) /\ issue'[i] = rec
    BY <2>1, <2>2, LikeFrame
  <2>6. FlightMoves(i)
    BY <2>2, <2>3, <2>5 DEF FlightMoves, Live
  <2> QED
    BY <2>1, <2>3, <2>4, <2>5, <2>6, OneIssueGoes DEF Like
<1> QED
  BY <1>3, <1>4

\* The last caller leaves and the issue is cancelled, or another goes on without it.
LEMMA CancelIssue ==
    ASSUME TokenInv, [Next]_vars, NEW c \in Calls, CancelJoin(c)
    PROVE  IssuesOk
<1> DEFINE i == call[c].issue
<1>1. i \in Issues
  BY DEF CancelJoin, CallStep, TokenInv, CallsSound, CallOk, CallType
<1>2. IssueOk(i, issue[i], authority, tokenSlot, identitySlot) /\ issue[i] \in IssueType
  BY <1>1, IssuesAre
<1>3. UNCHANGED <<authority, tokenSlot, identitySlot>>
  BY DEF CancelJoin, stored, slots
<1>4. CASE IssueGoes(i, [issue[i] EXCEPT !.callers = @ \ {c}]) /\ UNCHANGED inFlight
  <2> DEFINE cs  == issue[i].callers \ {c}
             rec == [issue[i] EXCEPT !.callers = cs]
  <2>1. Like(rec, issue[i]) /\ rec.pc = issue[i].pc
    <3>1. cs \in SUBSET Calls /\ issue[i].pc \in IssueSteps
      BY <1>2 DEF IssueType
    <3> HIDE DEF cs, i
    <3>2. rec \in IssueType
      BY <1>2, <3>1, IssueFields
    <3> QED
      BY <1>2, <3>2 DEF IssueType, Like
  <2>2. IssueGoes(i, rec) /\ UNCHANGED inFlight
    BY <1>4
  <2> HIDE DEF rec, i
  <2>3. IssueOk(i, rec, authority', tokenSlot', identitySlot')
    BY <1>2, <1>3, <2>1 DEF IssueOk, PhaseOk, TicketOk, WrittenOk, Like
  <2>4. IssueFrame(i) /\ issue'[i] = rec
    BY <1>1, <2>2, LikeFrame
  <2>5. FlightMoves(i)
    BY <2>1, <2>2, <2>4 DEF FlightMoves, Live, Like
  <2> QED
    BY <1>1, <2>1, <2>3, <2>4, <2>5, OneIssueGoes DEF Like
<1>5. CASE /\ \E rec \in Cancelled(i) : IssueGoes(i, rec)
           /\ issue[i].phase # "committing" /\ issue[i].pc # "done"
           /\ inFlight' = IF inFlight = i THEN None ELSE inFlight
  <2> HIDE DEF i
  <2>1. PICK pc \in {IF issue[i].generation = None THEN "done" ELSE "failing"}
                      \cup ({"reserved", "commit"} \cap {issue[i].pc}) :
           IssueGoes(i, [issue[i] EXCEPT !.callers = {}, !.phase = "cancelling", !.aborted = TRUE,
                                         !.error = "cancelled", !.pc = pc])
    BY <1>5 DEF Cancelled
  <2> DEFINE cs  == {}
             p   == "cancelling"
             b   == TRUE
             e   == "cancelled"
             rec == [issue[i] EXCEPT !.callers = cs, !.phase = p, !.aborted = b, !.error = e, !.pc = pc]
  <2>2. /\ cs \in SUBSET Calls /\ p \in Phases /\ b \in BOOLEAN /\ e \in Errors /\ pc \in IssueSteps
        /\ pc \in {"done", "failing", "reserved", "commit"}
        /\ pc = "failing" => issue[i].generation # None
        /\ pc \in {"reserved", "commit"} => pc = issue[i].pc
    BY DEF Phases, Errors, IssueSteps
  <2>3. IssueGoes(i, rec)
    BY <2>1
  <2> HIDE DEF cs, p, b, e
  <2>4. /\ rec \in IssueType /\ rec.pc = pc /\ rec.phase = p
        /\ rec.ticket = issue[i].ticket /\ rec.generation = issue[i].generation
    <3>1. rec \in IssueType
      BY <1>2, <2>2, IssueFields
    <3> QED
      BY <1>2, <3>1 DEF IssueType
  <2> HIDE DEF rec
  <2>5. rec.phase = "cancelling"
    BY <2>4 DEF p
  <2>6. issue[i].generation # None => issue[i].generation = issue[i].ticket /\ issue[i].ticket # None
    BY <1>2 DEF IssueOk, TicketOk
  <2>7. issue[i].ticket = authority.active => authority.active = None
    BY <1>2, <1>5 DEF IssueOk, WrittenOk
  <2>8. IssueOk(i, rec, authority', tokenSlot', identitySlot')
    <3>1. PhaseOk(rec)
      BY <2>2, <2>4, <2>5 DEF PhaseOk, Won
    <3>2. TicketOk(rec, authority')
      BY <1>2, <1>3, <2>2, <2>4, <2>6 DEF IssueOk, TicketOk, Won
    <3>3. WrittenOk(i, rec, authority', tokenSlot', identitySlot')
      BY <1>3, <2>4, <2>5, <2>7 DEF WrittenOk
    <3> QED
      BY <2>4, <3>1, <3>2, <3>3 DEF IssueOk
  <2>9. IssueFrame(i) /\ issue'[i] = rec
    BY <1>1, <2>3, LikeFrame
  <2>10. FlightMoves(i)
    BY <1>5, <2>5, <2>9 DEF FlightMoves, Live
  <2> QED
    BY <1>1, <2>4, <2>8, <2>9, <2>10, OneIssueGoes
<1> QED
  BY <1>4, <1>5 DEF CancelJoin, Committing, IssueGoes

\* The app is killed: the issues under way are forgotten.
LEMMA RestartIssues ==
    ASSUME TokenInv, [Next]_vars, Restart
    PROVE  IssuesOk
<1> DEFINE rec == [NoIssue EXCEPT !.pc = "done"]
<1>1. UNCHANGED <<authority, tokenSlot, identitySlot>> /\ DOMAIN issue' = Issues
  BY DEF Restart, stored, slots
<1>2. \A i \in Issues : \/ issue'[i] = issue[i] /\ issue[i].pc \in {"unused", "done"}
                        \/ issue'[i] = rec
  BY DEF Restart
<1>3. /\ rec \in IssueType /\ rec.pc = "done" /\ rec.phase = "issuing" /\ ~rec.aborted
      /\ rec.ticket = None /\ rec.generation = None
  <2>1. "done" \in IssueSteps /\ NoIssue \in IssueType
    <3>1. "unused" \in IssueSteps /\ "issuing" \in Phases /\ "failed" \in Errors
          /\ None \in SeenOrNone /\ None \in TokenOrNone /\ "done" \in IssueSteps
      BY DEF IssueSteps, Phases, Errors, SeenOrNone, TokenOrNone
    <3> QED
      BY <3>1 DEF NoIssue, IssueType
  <2>2. rec \in IssueType
    BY <2>1, IssueFields
  <2> QED
    BY <2>2 DEF NoIssue
<1> HIDE DEF rec
<1>4. 0 < authority.next
  BY DEF TokenInv, StoreSound, AuthorityOk
<1>5. \A i \in Issues : IssueOk(i, rec, authority', tokenSlot', identitySlot')
  BY <1>1, <1>3, <1>4 DEF IssueOk, PhaseOk, TicketOk, WrittenOk, Won
<1>6. \A i \in Issues : IssueOk(i, issue'[i], authority', tokenSlot', identitySlot')
  BY <1>1, <1>2, <1>5, IssuesAre
<1>7. TicketsDiffer'
  BY <1>2, <1>3 DEF TokenInv, TicketsDiffer
<1>8. OneFlight'
  BY <1>2, <1>3 DEF OneFlight, Live
<1> QED
  BY <1>1, <1>6, <1>7, <1>8 DEF IssuesOk, IssuesSound

LEMMA IssueMovers ==
    ASSUME [Next]_vars
    PROVE  \/ UNCHANGED <<issue, inFlight>>
           \/ \E c \in Calls : Join(c) \/ Deliver(c) \/ CancelJoin(c)
           \/ \E i \in Issues :
                 \/ Reserve(i) \/ AfterReserve(i) \/ Fetched(i) \/ WriteToken(i)
                 \/ WriteIdentity(i) \/ Commit(i) \/ Finalize(i) \/ ConfirmIssue(i)
                 \/ Answered(i) \/ Replaced(i) \/ RetireIssue(i) \/ IssueFails(i)
           \/ Restart
<1>1. CASE UNCHANGED vars
  BY <1>1 DEF vars
<1>2. CASE \E r \in Calls \cup Issues : Read(r)
  BY <1>2 DEF Read, ReadAuthority, ReadSlot, Confirm, Judge, AfterRetire, ReadFails
<1>3. CASE \E c \in Calls :
                \/ Begin(c) \/ ReadEnds(c) \/ AbortRead(c)
                \/ IdentityRead(c) \/ IdentitySlots(c) \/ IdentityConfirm(c)
                \/ IdentityRetire(c) \/ IdentityRetired(c) \/ IdentityDelete(c) \/ CallFails(c)
  BY <1>3 DEF Begin, ReadEnds, AbortRead, IdentityRead, IdentitySlots, IdentityConfirm,
              IdentityRetire, IdentityRetired, IdentityDelete, CallFails, RetireSeen
<1>4. CASE \E c \in Calls :
                InvalidateRead(c) \/ InvalidateSlot(c) \/ InvalidateRetire(c) \/ InvalidateEnds(c)
  BY <1>4 DEF InvalidateRead, InvalidateSlot, InvalidateRetire, InvalidateEnds, RetireSeen
<1>5. CASE (\E i \in Issues : Expire(i)) \/ (\E o \in late : RunLate(o))
  BY <1>5 DEF Expire, RunLate
<1> QED
  BY <1>1, <1>2, <1>3, <1>4, <1>5 DEF Next

LEMMA IssuesStep ==
    ASSUME TokenInv, [Next]_vars, \A i \in Issues : Reserve(i) => authority.next \in Generations
    PROVE  IssuesOk
<1>1. CASE UNCHANGED <<issue, inFlight>>
  <2>1. \A i \in Issues : IssueOk(i, issue[i], authority', tokenSlot', identitySlot')
    BY <1>1, OthersKept
  <2> QED
    BY <1>1, <2>1, IssuesAre DEF IssuesOk, IssuesSound, TokenInv, TicketsDiffer, OneFlight
<1>2. CASE \E c \in Calls : Join(c) \/ Deliver(c) \/ CancelJoin(c)
  BY <1>2, JoinIssue, CancelIssue
<1>3. CASE \E i \in Issues :
              \/ Reserve(i) \/ AfterReserve(i) \/ Fetched(i) \/ WriteToken(i)
              \/ WriteIdentity(i) \/ Commit(i) \/ Finalize(i) \/ ConfirmIssue(i)
              \/ Answered(i) \/ Replaced(i) \/ RetireIssue(i) \/ IssueFails(i)
  BY <1>3, ReserveIssue, WriteIssue, CommitIssue, EndIssue
<1> QED
  BY <1>1, <1>2, <1>3, RestartIssues, IssueMovers

-----------------------------------------------------------------------------
(* What is late, and the generations that are left.                         *)

\* An issue neither takes its reservation back nor, once cancelled, its cancellation.
Before == {"unused", "reserve"}
Steady(new, old) ==
    /\ new.pc \in Before => old.pc \in Before
    /\ \/ new.ticket \in {None, authority.next}
       \/ new.ticket = old.ticket /\ (old.phase = "cancelling" => new.phase = "cancelling")

LEMMA SteadyIssue ==
    ASSUME TokenInv, NEW i \in Issues, NEW rec, IssueGoes(i, rec), Steady(rec, issue[i])
    PROVE  \A j \in Issues : Steady(issue'[j], issue[j])
BY LikeFrame DEF IssueFrame, Steady

LEMMA IssuesSteady ==
    ASSUME TokenInv, [Next]_vars
    PROVE  \A j \in Issues : Steady(issue'[j], issue[j])
<1>1. DOMAIN issue = Issues /\ \A i \in Issues : issue[i] \in IssueType
  BY IssuesAre
<1>2. CASE issue' = issue
  BY <1>2 DEF Steady
<1>3. CASE Restart
  <2>1. \A j \in Issues : issue'[j] = issue[j] \/ issue'[j] = [NoIssue EXCEPT !.pc = "done"]
    BY <1>3 DEF Restart
  <2> QED
    BY <2>1 DEF Steady, Before, NoIssue
<1>4. ASSUME NEW i \in Issues,
             Reserve(i) \/ AfterReserve(i) \/ Fetched(i) \/ WriteToken(i) \/ WriteIdentity(i)
      PROVE  \A j \in Issues : Steady(issue'[j], issue[j])
  <2>1. CASE Reserve(i)
    BY <1>1, <2>1, SteadyIssue DEF Reserve, Steady, Before, IssueType
  <2>2. CASE AfterReserve(i)
    BY <1>1, <2>2, SteadyIssue DEF AfterReserve, Failing, Steady, Before, IssueType
  <2>3. CASE Fetched(i)
    BY <1>1, <2>3, SteadyIssue DEF Fetched, Steady, Before, IssueType
  <2>4. CASE WriteToken(i) \/ WriteIdentity(i)
    BY <1>1, <2>4, SteadyIssue DEF WriteToken, WriteIdentity, Steady, Before, IssueType
  <2> QED
    BY <1>4, <2>1, <2>2, <2>3, <2>4
<1>5. ASSUME NEW i \in Issues, Commit(i) \/ Finalize(i)
      PROVE  \A j \in Issues : Steady(issue'[j], issue[j])
  <2>1. PICK rec : /\ IssueGoes(i, rec)
                   /\ \/ rec = [issue[i] EXCEPT !.pc = "finalize", !.phase = "committing"]
                           /\ issue[i].phase = "issuing"
                      \/ rec = [issue[i] EXCEPT !.pc = "finalized"]
                      \/ rec = Failing(issue[i], "cancelled")
    BY <1>5 DEF Commit, Finalize, IsCurrent
  <2> QED
    BY <1>1, <2>1, SteadyIssue DEF Failing, Steady, Before, IssueType
<1>6. ASSUME NEW i \in Issues, ConfirmIssue(i) \/ Answered(i) \/ Replaced(i)
      PROVE  \A j \in Issues : Steady(issue'[j], issue[j])
  BY <1>1, <1>6, SteadyIssue DEF ConfirmIssue, Answered, Replaced, Steady, Before, IssueType
<1>7. ASSUME NEW i \in Issues, RetireIssue(i) \/ IssueFails(i)
      PROVE  \A j \in Issues : Steady(issue'[j], issue[j])
  BY <1>1, <1>7, SteadyIssue DEF RetireIssue, IssueFails, Failing, Steady, Before, IssueType
<1>8. ASSUME NEW c \in Calls, Join(c)
      PROVE  \A j \in Issues : Steady(issue'[j], issue[j])
  <2>1. PICK i \in Issues : issue' = [issue EXCEPT ![i].callers = @ \cup {c},
                                                   ![i].pc = IF @ = "unused" THEN "reserve" ELSE @]
    BY <1>8 DEF Join
  <2> QED
    BY <1>1, <2>1 DEF Steady, Before, IssueType
<1>9. ASSUME NEW c \in Calls, Deliver(c) \/ CancelJoin(c)
      PROVE  \A j \in Issues : Steady(issue'[j], issue[j])
  <2>1. call[c].issue \in Issues
    BY <1>9 DEF Deliver, CancelJoin, CallStep, TokenInv, CallsSound, CallOk, CallType
  <2>2. PICK rec : /\ IssueGoes(call[c].issue, rec)
                   /\ \/ rec = [issue[call[c].issue] EXCEPT !.callers = @ \ {c}]
                      \/ rec \in Cancelled(call[c].issue)
    BY <1>9 DEF Deliver, CancelJoin, IssueGoes
  <2>3. Steady(rec, issue[call[c].issue])
    BY <1>1, <2>1, <2>2 DEF Cancelled, Steady, Before, IssueType
  <2> QED
    BY <2>1, <2>2, <2>3, SteadyIssue
<1> QED
  BY <1>2, <1>3, <1>4, <1>5, <1>6, <1>7, <1>8, <1>9, IssueMovers

LEMMA LateMovers ==
    ASSUME [Next]_vars
    PROVE  \/ late' = late
           \/ \E c \in Calls : AbortRead(c) \/ CancelJoin(c)
           \/ \E o \in late : late' = late \ {o} /\ RunLate(o)
           \/ late' = {} /\ Restart
<1>1. CASE UNCHANGED vars
  BY <1>1 DEF vars
<1>2. CASE \E r \in Calls \cup Issues : Read(r)
  BY <1>2 DEF Read, ReadAuthority, ReadSlot, Confirm, Judge, AfterRetire, ReadFails
<1>3. CASE \E c \in Calls :
                \/ Begin(c) \/ ReadEnds(c) \/ Join(c) \/ Deliver(c)
                \/ IdentityRead(c) \/ IdentitySlots(c) \/ IdentityConfirm(c)
                \/ IdentityRetire(c) \/ IdentityRetired(c) \/ IdentityDelete(c) \/ CallFails(c)
  BY <1>3 DEF Begin, ReadEnds, Join, Deliver, IdentityRead, IdentitySlots, IdentityConfirm,
              IdentityRetire, IdentityRetired, IdentityDelete, CallFails, RetireSeen
<1>4. CASE \E c \in Calls :
                InvalidateRead(c) \/ InvalidateSlot(c) \/ InvalidateRetire(c) \/ InvalidateEnds(c)
  BY <1>4 DEF InvalidateRead, InvalidateSlot, InvalidateRetire, InvalidateEnds, RetireSeen
<1>5. CASE \E i \in Issues : \/ Reserve(i) \/ AfterReserve(i) \/ Fetched(i) \/ WriteToken(i)
                             \/ WriteIdentity(i) \/ Commit(i)
  BY <1>5 DEF Reserve, AfterReserve, Fetched, WriteToken, WriteIdentity, Commit
<1>6. CASE \E i \in Issues : \/ Finalize(i) \/ ConfirmIssue(i) \/ Answered(i) \/ Replaced(i)
                             \/ RetireIssue(i) \/ IssueFails(i) \/ Expire(i)
  BY <1>6 DEF Finalize, ConfirmIssue, Answered, Replaced, RetireIssue, IssueFails, Expire
<1>7. CASE \E o \in late : RunLate(o)
  BY <1>7 DEF RunLate
<1>8. CASE Restart
  BY <1>8 DEF Restart
<1> QED
  BY <1>1, <1>2, <1>3, <1>4, <1>5, <1>6, <1>7, <1>8 DEF Next

\* What is late already stays of no generation that is active or wanted.
LEMMA LateKept ==
    ASSUME TokenInv, [Next]_vars, NEW o, LateOk(o, authority, issue)
    PROVE  LateOk(o, authority', issue')
<1>1. AuthorityOk(authority) /\ Moved(authority, authority')
  BY RowAndSlots
<1>2. o.op = "delete" => Known(o.generation, authority') /\ o.generation # authority'.active
  BY <1>1, KnownKept DEF LateOk
<1>3. ASSUME o.op \in {"token", "identity"}
      PROVE  /\ o.generation < authority'.next /\ o.generation # authority'.active
             /\ \A j \in Issues : issue'[j].ticket = o.generation => issue'[j].phase = "cancelling"
  <2>1. /\ o.generation \in Generations /\ o.generation < authority.next
        /\ o.generation # authority.active
        /\ \A j \in Issues : issue[j].ticket = o.generation => issue[j].phase = "cancelling"
    BY <1>3 DEF LateOk, LateOps
  <2>2. o.generation \in Nat /\ o.generation # None
    BY <2>1, GenerationsAre
  <2>3. authority.next \in Nat /\ authority'.next \in Nat /\ authority.next <= authority'.next
    BY <1>1 DEF AuthorityOk, Moved
  <2>4. \A j \in Issues : ~(Finalize(j) /\ issue[j].ticket = o.generation)
    BY <2>1 DEF Finalize, IssueStep, TokenInv, IssuesSound, IssueOk, PhaseOk
  <2>5. o.generation # authority'.active
    BY <2>1, <2>2, <2>4, RowMoves
  <2>6. \A j \in Issues : issue'[j].ticket = o.generation => issue'[j].phase = "cancelling"
    BY <2>1, <2>2, <2>3, IssuesSteady DEF Steady
  <2> QED
    BY <2>1, <2>2, <2>3, <2>5, <2>6
<1> QED
  BY <1>2, <1>3 DEF LateOk

\* What an aborted call leaves to run.
LEMMA AbandonedOk ==
    ASSUME TokenInv, NEW c \in Calls, NEW o \in Abandoned(c)
    PROVE  LateOk(o, authority, issue) /\ o.op # "reserve"
<1>1. ASSUME NEW g \in Generations, o = [op |-> "retire", generation |-> g]
      PROVE  LateOk(o, authority, issue) /\ o.op # "reserve"
  BY <1>1 DEF LateOk, LateOps
<1>2. ASSUME NEW g \in Generations, o = [op |-> "delete", generation |-> g],
             Known(g, authority), g # authority.active
      PROVE  LateOk(o, authority, issue) /\ o.op # "reserve"
  BY <1>2 DEF LateOk, LateOps
<1>3. CallOk(call[c], authority, tokenSlot) /\ ReadOk(reader[c], authority, tokenSlot)
  BY DEF TokenInv, CallsSound, ReadersSound
<1>4. reader[c].pc = "judge" => reader[c].seen \in Generations
  BY <1>3 DEF ReadOk, Reading, Known
<1>5. /\ call[c].pc \in {"id_judged", "id_delete"}
           => Known(call[c].seen, authority) /\ call[c].seen \in Generations
      /\ call[c].pc = "id_delete" => call[c].seen # authority.active
  BY <1>3 DEF CallOk, Seeing, Known
<1> DEFINE judged  == ReadStep(c, "judge") /\ reader[c].ok /\ ~Valid(reader[c].token)
           retire  == CallStep(c, "id_judged")
           delete  == CallStep(c, "id_delete")
<1>6. \/ judged /\ o = [op |-> "retire", generation |-> reader[c].seen]
      \/ retire /\ o = [op |-> "retire", generation |-> call[c].seen]
      \/ delete /\ o = [op |-> "delete", generation |-> call[c].seen]
  <2>1. CASE judged /\ ~retire /\ ~delete
    BY <2>1 DEF Abandoned
  <2>2. CASE judged /\ (retire \/ delete)
    BY <2>2 DEF Abandoned
  <2>3. CASE ~judged
    BY <2>3 DEF Abandoned
  <2> QED
    BY <2>1, <2>2, <2>3
<1> QED
  BY <1>1, <1>2, <1>4, <1>5, <1>6 DEF ReadStep, CallStep

\* What a cancelled issue leaves to run.
LEMMA UnfinishedOk ==
    ASSUME TokenInv, NEW i \in Issues, NEW o \in Unfinished(i), issue'[i].phase = "cancelling",
           \A j \in Issues \ {i} : issue'[j] = issue[j], issue'[i].ticket = issue[i].ticket
    PROVE  /\ LateOk(o, authority, issue')
           /\ o.op = "reserve" => o.by = i /\ issue[i].pc = "reserve"
<1>1. \/ o = [op |-> "reserve", generation |-> None, by |-> i] /\ issue[i].pc = "reserve"
      \/ /\ issue[i].pc \in {"token", "identity"}
         /\ \E p \in {"token", "identity"} : o = [op |-> p, generation |-> issue[i].generation, by |-> i]
  BY DEF Unfinished
<1>2. ASSUME issue[i].pc \in {"token", "identity"}
      PROVE  /\ issue[i].generation = issue[i].ticket /\ issue[i].ticket \in Generations
             /\ issue[i].ticket < authority.next /\ issue[i].ticket # authority.active
             /\ \A j \in Issues : issue'[j].ticket = issue[i].ticket => issue'[j].phase = "cancelling"
  <2>1. IssueOk(i, issue[i], authority, tokenSlot, identitySlot) /\ issue[i].ticket \in SeenOrNone
    BY IssuesAre DEF IssueType
  <2>2. issue[i].generation = issue[i].ticket /\ issue[i].ticket # None /\ issue[i].ticket < authority.next
    BY <1>2, <2>1 DEF IssueOk, TicketOk
  <2>3. issue[i].ticket # authority.active
    BY <1>2, <2>1, <2>2 DEF IssueOk, WrittenOk, Won
  <2> QED
    BY <2>1, <2>2, <2>3 DEF TokenInv, TicketsDiffer, SeenOrNone
<1>3. CASE o = [op |-> "reserve", generation |-> None, by |-> i] /\ issue[i].pc = "reserve"
  BY <1>3 DEF LateOk, LateOps
<1>4. CASE /\ issue[i].pc \in {"token", "identity"}
           /\ \E p \in {"token", "identity"} : o = [op |-> p, generation |-> issue[i].generation, by |-> i]
  <2>1. PICK p \in {"token", "identity"} : o = [op |-> p, generation |-> issue[i].generation, by |-> i]
    BY <1>4
  <2>2. o.op = p /\ o.generation = issue[i].ticket /\ o \in LateOps
    BY <1>2, <1>4, <2>1 DEF LateOps
  <2> QED
    BY <1>2, <1>4, <2>2 DEF LateOk
<1> QED
  BY <1>1, <1>3, <1>4

\* Every operation that is late was before, or is of what was aborted now.
LEMMA LateComes ==
    ASSUME TokenInv, [Next]_vars, NEW o \in late'
    PROVE  /\ LateOk(o, authority', issue')
           /\ o \in late \/ (o.op = "reserve" =>
                /\ o.by \in Issues /\ issue[o.by].pc = "reserve" /\ issue'[o.by].pc \notin Before)
<1>1. CASE o \in late
  BY <1>1, LateKept DEF TokenInv, LateSound
<1>2. ASSUME NEW c \in Calls, AbortRead(c), o \notin late
      PROVE  LateOk(o, authority', issue') /\ o.op # "reserve"
  BY <1>2, AbandonedOk, LateKept DEF AbortRead
<1>3. ASSUME NEW c \in Calls, CancelJoin(c), o \notin late
      PROVE  /\ LateOk(o, authority', issue')
             /\ o.op = "reserve" =>
                  o.by \in Issues /\ issue[o.by].pc = "reserve" /\ issue'[o.by].pc \notin Before
  <2> DEFINE i == call[c].issue
  <2>1. i \in Issues
    BY <1>3 DEF CancelJoin, CallStep, TokenInv, CallsSound, CallOk, CallType
  <2>2. /\ o \in Unfinished(i) /\ UNCHANGED authority
        /\ \E rec \in Cancelled(i) : IssueGoes(i, rec)
    BY <1>3 DEF CancelJoin, IssueGoes, stored
  <2> HIDE DEF i
  <2>3. PICK rec \in Cancelled(i) : IssueGoes(i, rec)
    BY <2>2
  <2>4. rec.phase = "cancelling" /\ rec.ticket = issue[i].ticket /\ rec.pc \notin Before
    BY <2>1, IssuesAre DEF Cancelled, IssueType, Before
  <2>5. issue'[i] = rec /\ \A j \in Issues \ {i} : issue'[j] = issue[j]
    BY <2>1, <2>3, LikeFrame DEF IssueFrame
  <2> QED
    BY <2>1, <2>2, <2>4, <2>5, UnfinishedOk
<1> QED
  BY <1>1, <1>2, <1>3, LateMovers

LEMMA UnreservedFinite ==
    /\ IsFiniteSet(Issues) /\ Cardinality(Issues) = MaxIssues
    /\ IsFiniteSet(Unreserved) /\ Cardinality(Unreserved) \in Nat
<1>1. IsFiniteSet(Issues) /\ Cardinality(Issues) = MaxIssues
  BY BoundsAssumption, FS_Interval DEF Issues
<1>2. Unreserved \in SUBSET Issues
  BY DEF Unreserved
<1> QED
  BY <1>1, <1>2, FS_Subset, FS_CardinalityType

\* A generation is reserved only for an issue that has none.
LEMMA ReservedIsSpare ==
    ASSUME TokenInv, NEW i \in Unreserved
    PROVE  authority.next \in Generations
<1>1. Cardinality(Unreserved) # 0
  BY UnreservedFinite, FS_EmptySet
<1>2. authority.next + Cardinality(Unreserved) <= MaxIssues + 1 /\ authority.next \in Nat \ {0}
  BY DEF TokenInv, Spare, StoreSound, AuthorityOk
<1> QED
  BY <1>1, <1>2, UnreservedFinite, BoundsAssumption DEF Generations

LEMMA NextMoves ==
    ASSUME TokenInv, [Next]_vars
    PROVE  \/ authority'.next = authority.next
           \/ /\ authority'.next = authority.next + 1
              /\ \/ \E i \in Issues : Reserve(i)
                 \/ \E o \in late : o.op = "reserve" /\ RunLate(o)
<1>1. AuthorityOk(authority)
  BY DEF TokenInv, StoreSound
<1>2. ASSUME NEW g, authority' = Retired(authority, g)
      PROVE  authority'.next = authority.next
  BY <1>1, <1>2 DEF Retired, AuthorityOk
<1>3. CASE authority' = authority
  BY <1>3
<1>4. CASE \E r \in Calls \cup Issues : authority' = Retired(authority, reader[r].seen)
  BY <1>2, <1>4
<1>5. CASE \E c \in Calls : IdentityRetire(c) \/ InvalidateRetire(c)
  BY <1>2, <1>5 DEF IdentityRetire, InvalidateRetire, RetireSeen
<1>6. CASE \E i \in Issues : Reserve(i)
  BY <1>1, <1>6, ReservedMoves DEF Reserve
<1>7. CASE \E i \in Issues : Finalize(i)
  BY <1>1, <1>7, FinalizedMoves DEF Finalize
<1>8. CASE \E i \in Issues : RetireIssue(i)
  BY <1>2, <1>8 DEF RetireIssue
<1>9. ASSUME NEW o \in late, RunLate(o)
      PROVE  \/ authority'.next = authority.next
             \/ authority'.next = authority.next + 1 /\ o.op = "reserve"
  <2>1. o.op \in {"reserve", "token", "identity", "retire", "delete"}
    BY DEF TokenInv, LateSound, LateOk, LateOps
  <2>2. o.op = "reserve" => authority' = Reserved(authority)
    BY <1>9 DEF RunLate
  <2>3. o.op = "retire" => authority' = Retired(authority, o.generation)
    BY <1>9 DEF RunLate
  <2>4. o.op \in {"token", "identity", "delete"} => authority' = authority
    BY <1>9 DEF RunLate
  <2> QED
    BY <1>1, <1>2, <2>1, <2>2, <2>3, <2>4, ReservedMoves
<1> QED
  BY <1>3, <1>4, <1>5, <1>6, <1>7, <1>8, <1>9, RowMovers

\* The generations that are left are enough for the issues that have none.
LEMMA SpareStep ==
    ASSUME TokenInv, [Next]_vars
    PROVE  Spare'
<1>1. \A o \in late' : o.op = "reserve" => issue'[o.by].pc \notin Before
  <2>1. ASSUME NEW o \in late', o \in late, o.op = "reserve"
        PROVE  issue'[o.by].pc \notin Before
    <3>1. o.by \in Issues /\ issue[o.by].pc \notin Before
      BY <2>1 DEF TokenInv, Spare, LateSound, LateOk, LateOps, Before
    <3> QED
      BY <3>1, IssuesSteady DEF Steady
  <2> QED
    BY <2>1, LateComes
<1>2. Unreserved' \subseteq Unreserved
  <2>1. ASSUME NEW i \in Unreserved'
        PROVE  i \in Unreserved
    <3>1. CASE issue'[i].pc \in Before
      BY <2>1, <3>1, IssuesSteady DEF Steady, Unreserved, Before
    <3>2. ASSUME NEW o \in late', o.op = "reserve", o.by = i
          PROVE  i \in Unreserved
      BY <2>1, <3>2, LateComes DEF Unreserved
    <3> QED
      BY <2>1, <3>1, <3>2 DEF Unreserved, Before
  <2> QED
    BY <2>1
<1>3. Cardinality(Unreserved') <= Cardinality(Unreserved) /\ Cardinality(Unreserved') \in Nat
  BY <1>2, UnreservedFinite, FS_Subset, FS_CardinalityType
<1>4. authority.next + Cardinality(Unreserved) <= MaxIssues + 1 /\ authority.next \in Nat
  BY DEF TokenInv, Spare, StoreSound, AuthorityOk
<1>5. CASE authority'.next = authority.next
  BY <1>1, <1>3, <1>4, <1>5, UnreservedFinite, BoundsAssumption DEF Spare, Before
<1>6. ASSUME NEW i \in Unreserved, i \notin Unreserved', authority'.next = authority.next + 1
      PROVE  Spare'
  <2>1. Unreserved' \in SUBSET (Unreserved \ {i})
    BY <1>2, <1>6
  <2>2. /\ IsFiniteSet(Unreserved \ {i})
        /\ Cardinality(Unreserved \ {i}) = Cardinality(Unreserved) - 1
    BY UnreservedFinite, FS_RemoveElement
  <2>3. Cardinality(Unreserved') <= Cardinality(Unreserved) - 1
    BY <2>1, <2>2, FS_Subset
  <2>4. authority'.next + Cardinality(Unreserved') <= MaxIssues + 1
    BY <1>3, <1>4, <1>6, <2>3, UnreservedFinite, BoundsAssumption
  <2> QED
    BY <1>1, <2>4 DEF Spare, Before
<1>7. ASSUME NEW i \in Issues, Reserve(i)
      PROVE  i \in Unreserved /\ i \notin Unreserved'
  <2>1. issue[i].pc = "reserve" /\ issue'[i].pc = "reserved" /\ late' = late
    BY <1>7, IssuesAre DEF Reserve, IssueStep, IssueGoes, IssueType
  <2>2. \A o \in late : ~(o.op = "reserve" /\ o.by = i)
    BY <2>1 DEF TokenInv, Spare
  <2> QED
    BY <2>1, <2>2 DEF Unreserved
<1>8. ASSUME NEW o \in late, o.op = "reserve", RunLate(o)
      PROVE  o.by \in Unreserved /\ o.by \notin Unreserved'
  <2>1. late' = late \ {o} /\ issue' = issue
    BY <1>8 DEF RunLate
  <2>2. o.by \in Issues /\ issue[o.by].pc \notin {"unused", "reserve"}
    BY <1>8 DEF TokenInv, Spare, LateSound, LateOk, LateOps
  <2>3. ASSUME NEW p \in late, p.op = "reserve", p.by = o.by
        PROVE  p = o
    <3>1. ASSUME NEW x \in late, x.op = "reserve"
          PROVE  x = [op |-> "reserve", generation |-> None, by |-> x.by]
      <4>1. x \in LateOps
        BY DEF TokenInv, LateSound, LateOk
      <4>2. x \in [op : {"reserve"}, generation : {None}, by : Issues]
        BY <3>1, <4>1 DEF LateOps
      <4> QED
        BY <4>2
    <3> QED
      BY <1>8, <2>3, <3>1
  <2> QED
    BY <1>8, <2>1, <2>2, <2>3 DEF Unreserved
<1> QED
  BY <1>5, <1>6, <1>7, <1>8, NextMoves

-----------------------------------------------------------------------------
(* The invariant, and what it shows.                                        *)

LEMMA TokenInit == Init => TokenInv
<1> SUFFICES ASSUME Init
             PROVE  TokenInv
  OBVIOUS
<1>1. authority = [next |-> 1, active |-> None, pending |-> None]
  BY DEF Init
<1>2. StoreSound /\ AuthorityOk(authority)
  BY <1>1 DEF Init, StoreSound, AuthorityOk, Slots
<1>3. Domains
  BY DEF Init, Domains
<1>4. Spare
  <2>1. Unreserved \in SUBSET Issues /\ late = {}
    BY DEF Init, Unreserved
  <2>2. Cardinality(Unreserved) <= MaxIssues /\ Cardinality(Unreserved) \in Nat
    BY <2>1, UnreservedFinite, FS_Subset
  <2> QED
    BY <1>1, <2>1, <2>2, BoundsAssumption DEF Spare
<1>5. \A i \in Issues : issue[i] = NoIssue
  BY DEF Init
<1>6. IssuesSound
  <2>1. NoIssue \in IssueType
    <3>1. "unused" \in IssueSteps /\ "issuing" \in Phases /\ "failed" \in Errors
          /\ None \in SeenOrNone /\ None \in TokenOrNone
      BY DEF IssueSteps, Phases, Errors, SeenOrNone, TokenOrNone
    <3> QED
      BY <3>1 DEF NoIssue, IssueType
  <2>2. \A i \in Issues : IssueOk(i, NoIssue, authority, tokenSlot, identitySlot)
    BY <1>1, <2>1 DEF IssueOk, PhaseOk, TicketOk, WrittenOk, Won, NoIssue
  <2> QED
    BY <1>5, <2>2 DEF IssuesSound
<1>7. TicketsDiffer /\ OneFlight
  BY <1>5 DEF TicketsDiffer, OneFlight, Live, NoIssue
<1>8. CallsSound
  <2>1. NoCall \in CallType
    BY DEF NoCall, CallType, CallSteps, CallKinds, Replies, TokenOrNone, SeenOrNone
  <2>2. PICK load \in Loads : call = [c \in Calls |-> [NoCall EXCEPT !.kind = load[c]]]
    BY DEF Init
  <2>3. ASSUME NEW c \in Calls
        PROVE  CallOk(call[c], authority, tokenSlot)
    <3>1. load[c] \in CallKinds
      BY BoundsAssumption DEF CallKinds
    <3>2. call[c] = [NoCall EXCEPT !.kind = load[c]]
      BY <2>2
    <3>3. call[c] \in CallType
      BY <2>1, <3>1, <3>2 DEF CallType
    <3>4. call[c].pc = "idle" /\ call[c].answer = "none"
      BY <3>2 DEF NoCall
    <3> QED
      BY <3>3, <3>4, PlainOk
  <2> QED
    BY <2>3 DEF CallsSound
<1>9. ReadersSound
  BY ReadTypes, PlainRead DEF Init, ReadersSound
<1>10. CacheOk(cache, authority, tokenSlot)
  BY DEF Init, NoCache, CacheOk
<1>11. LateSound /\ ActiveComplete
  BY <1>1 DEF Init, LateSound, ActiveComplete
<1> QED
  BY <1>2, <1>3, <1>4, <1>6, <1>7, <1>8, <1>9, <1>10, <1>11 DEF TokenInv

LEMMA TokenStep == TokenInv /\ [Next]_vars => TokenInv'
<1> SUFFICES ASSUME TokenInv, [Next]_vars
             PROVE  TokenInv'
  OBVIOUS
<1>1. \A i \in Issues : Reserve(i) => authority.next \in Generations
  <2>1. \A i \in Issues : Reserve(i) => i \in Unreserved
    BY DEF Reserve, IssueStep, Unreserved
  <2> QED
    BY <2>1, ReservedIsSpare
<1>2. IssuesOk
  BY <1>1, IssuesStep
<1>3. LateSound'
  BY LateComes DEF LateSound
<1> QED
  BY <1>2, <1>3, StoreStep, SpareStep, CallsStep, ReadersStep, CacheStep, CompleteStep
     DEF TokenInv, Domains, IssuesOk

LEMMA TokenHolds == Spec => []TokenInv
BY TokenInit, TokenStep, PTL DEF Spec

LEMMA TokenShows ==
    TokenInv => CancelledNeverActive /\ ActiveComplete /\ OneIssue /\ IdentityOfToken
<1> SUFFICES ASSUME TokenInv
             PROVE  CancelledNeverActive /\ ActiveComplete /\ OneIssue /\ IdentityOfToken
  OBVIOUS
<1>1. CancelledNeverActive
  BY DEF TokenInv, IssuesSound, IssueOk, PhaseOk, WrittenOk, CancelledNeverActive
<1>2. ActiveComplete /\ IdentityOfToken
  BY DEF TokenInv, CallsSound, CallOk, IdentityOfToken
<1>3. OneIssue
  <2> DEFINE live == {i \in Issues : issue[i].pc \notin {"unused", "done"} /\ issue[i].phase # "cancelling"}
  <2>1. live \in SUBSET {inFlight}
    BY DEF TokenInv, OneFlight, Live
  <2>2. Cardinality(live) <= 1
    <3> HIDE DEF live
    <3>1. IsFiniteSet({inFlight}) /\ Cardinality({inFlight}) = 1
      BY FS_Singleton
    <3>2. Cardinality(live) <= Cardinality({inFlight})
      BY <2>1, <3>1, FS_Subset
    <3> QED
      BY <3>1, <3>2
  <2> QED
    BY <2>2 DEF OneIssue
<1> QED
  BY <1>1, <1>2, <1>3

\* A refused token retires its own installation only.
OnlyItsToken ==
    \A c \in Calls :
       InvalidateRetire(c) /\ authority'.active # authority.active
          => tokenSlot[Slot(authority.active)] = call[c].token

LEMMA TokenRetires == TokenInv => OnlyItsToken
<1> SUFFICES ASSUME TokenInv, NEW c \in Calls, InvalidateRetire(c),
                    authority'.active # authority.active
             PROVE  tokenSlot[Slot(authority.active)] = call[c].token
  BY DEF OnlyItsToken
<1>1. call[c].pc = "inv_retire" /\ authority' = Retired(authority, call[c].seen)
  BY DEF InvalidateRetire, RetireSeen, CallStep
<1>2. call[c].seen = authority.active
  BY <1>1 DEF Retired, TokenInv, StoreSound, AuthorityOk
<1> QED
  BY <1>1, <1>2 DEF TokenInv, CallsSound, CallOk, Slot

\* Whatever aborts, fails, runs late or is killed, an issue that was cancelled
\* never becomes the installation (cancelBeforeCommit).
THEOREM CancelledStaysInactive == Spec => []CancelledNeverActive
BY TokenHolds, TokenShows, PTL

\* The active installation has its token and the identity that came with it.
THEOREM ActiveStaysComplete == Spec => []ActiveComplete
BY TokenHolds, TokenShows, PTL

\* Callers that run at once share the one issue that still can commit
\* (this.inFlight), and an identity is answered with the token it came with.
THEOREM OneIssueAtATime == Spec => [](OneIssue /\ IdentityOfToken)
BY TokenHolds, TokenShows, PTL

\* A refused token retires no installation but its own (invalidate).
THEOREM RefusedRetiresItsOwn == Spec => InvalidatesOnlyItsToken
<1>1. TokenInv => [OnlyItsToken]_vars
  BY TokenRetires
<1> QED
  BY <1>1, TokenHolds, PTL DEF InvalidatesOnlyItsToken, OnlyItsToken
=============================================================================
