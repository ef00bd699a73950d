------------------------- MODULE InstallationToken -------------------------
(***************************************************************************)
(* mobile/src/security/installationToken.ts and tokenAuthority.ts: how the *)
(* phone keeps the signed token and RevenueCat identity of its anonymous   *)
(* installation.  SQLite holds the authority, one row that says which      *)
(* generation is active; SecureStore holds a token and an identity in      *)
(* slots named by the generation.  JavaScript runs one continuation at a   *)
(* time, and every await lets the others in: a step here is a native       *)
(* operation or a continuation up to the next one.  An aborted await stops *)
(* waiting; the native operation it waited for still runs some day.        *)
(***************************************************************************)
EXTENDS Integers, FiniteSets

CONSTANTS
    Calls,         \* invocations of the store, each made once
    Loads,         \* bound of the model: which methods the calls are of
    MaxIssues,     \* bound of the model: issues that are started
    MaxAttempts    \* MAX_ACTIVE_READ_ATTEMPTS

None        == 0                 \* null, for generations and for tokens
Issues      == 1 .. MaxIssues
Generations == 1 .. MaxIssues    \* an issue reserves at most one
Tokens      == Issues            \* a token is named for the issue it answers

Kinds == {"getOrIssue", "getOrIssueIdentity", "invalidate"}

ASSUME BoundsAssumption ==
    /\ Loads \subseteq [Calls -> Kinds \cup {"none"}]
    /\ MaxIssues \in Nat \ {0} /\ MaxAttempts \in Nat \ {0}
    /\ Calls \cap Issues = {}

VARIABLES
    authority,     \* the row: next, active and pending generation
    tokenSlot,     \* SecureStore, by generation
    identitySlot,
    expired,       \* tokens whose exp has passed
    cache,         \* currentToken
    inFlight,      \* the issue new callers join, or None
    issue,         \* every InFlightIssue
    reader,        \* readActive of a call, or of an issue that was replaced
    call,          \* every call: its method, progress and answer
    late           \* native operations whose await was aborted

vars == <<authority, tokenSlot, identitySlot, expired, cache, inFlight, issue,
          reader, call, late>>

slots  == <<tokenSlot, identitySlot, expired>>
stored == <<authority, slots>>

AuthorityRow == [next : 1 .. MaxIssues + 1, active : Generations \cup {None},
                 pending : Generations \cup {None}]
Answers == {"token", "identity", "cancelled", "indeterminate", "failed", "void"}

NoCache == [generation |-> None, token |-> None]
NoIssue == [pc |-> "unused", phase |-> "issuing", aborted |-> FALSE,
            ticket |-> None, generation |-> None, callers |-> {},
            result |-> None, error |-> "failed"]
NoRead  == [pc |-> "idle", seen |-> None, token |-> None, ok |-> FALSE, tries |-> 0]
NoCall  == [kind |-> "none", pc |-> "idle", token |-> None, identity |-> None,
            seen |-> None, ok |-> FALSE, tries |-> 0, issue |-> None,
            answer |-> "none"]

Init ==
    /\ authority = [next |-> 1, active |-> None, pending |-> None]
    /\ tokenSlot = [g \in Generations |-> None]
    /\ identitySlot = [g \in Generations |-> None]
    /\ expired = {}
    /\ cache = NoCache
    /\ inFlight = None
    /\ issue = [i \in Issues |-> NoIssue]
    /\ reader = [r \in Calls \cup Issues |-> NoRead]
    /\ \E load \in Loads : call = [c \in Calls |-> [NoCall EXCEPT !.kind = load[c]]]
    /\ late = {}

-----------------------------------------------------------------------------
(* The authority's exclusive transactions, and the slots                   *)

Reserved(a)          == [a EXCEPT !.next = a.next + 1, !.pending = a.next]

Finalized(a, g) ==
    IF a.pending = g THEN [a EXCEPT !.active = g, !.pending = None] ELSE a

Retired(a, g) ==
    [a EXCEPT !.active  = IF @ = g THEN None ELSE @,
              !.pending = IF @ = g THEN None ELSE @]
Retires(a, g) == g \in {a.active, a.pending}

\* The slot a generation's token is kept in.
Slot_One(g) == 1
Slot(g)     == g

Valid(t) == t # None /\ t \notin expired

\* this.currentToken is dropped when it is of the generation g.
CacheWithout(g) == IF cache.generation = g THEN NoCache ELSE cache

-----------------------------------------------------------------------------
(* readActive, of a call or of an issue                                    *)

StartRead == [NoRead EXCEPT !.pc = "read"]

ReadStep(r, pc) == reader[r].pc = pc
ReaderGoes(r, rec) == reader' = [reader EXCEPT ![r] = rec]

Again(rec) ==
    [NoRead EXCEPT !.tries = rec.tries + 1,
                   !.pc = IF rec.tries + 1 < MaxAttempts THEN "read" ELSE "failed"]

ReadAuthority(r) ==
    /\ ReadStep(r, "read")
    /\ ReaderGoes(r, [reader[r] EXCEPT !.seen = authority.active,
                          !.pc = IF authority.active = None THEN "none" ELSE "slot"])
    /\ UNCHANGED <<stored, cache, inFlight, issue, call, late>>

ReadSlot(r) ==
    /\ ReadStep(r, "slot")
    /\ LET g == reader[r].seen IN
       ReaderGoes(r, [reader[r] EXCEPT !.pc = "confirm",
                          !.token = IF cache.generation = g THEN cache.token
                                    ELSE tokenSlot[Slot(g)]])
    /\ UNCHANGED <<stored, cache, inFlight, issue, call, late>>

Confirm(r) ==
    /\ ReadStep(r, "confirm")
    /\ ReaderGoes(r, [reader[r] EXCEPT !.pc = "judge",
                          !.ok = (authority.active = reader[r].seen)])
    /\ UNCHANGED <<stored, cache, inFlight, issue, call, late>>

Judge(r) ==
    /\ ReadStep(r, "judge")
    /\ LET rd == reader[r] IN
       \/ /\ ~rd.ok
          /\ cache' = CacheWithout(rd.seen)
          /\ ReaderGoes(r, Again(rd))
          /\ UNCHANGED authority
       \/ /\ rd.ok /\ Valid(rd.token)
          /\ cache' = [generation |-> rd.seen, token |-> rd.token]
          /\ ReaderGoes(r, [rd EXCEPT !.pc = "found"])
          /\ UNCHANGED authority
       \/ /\ rd.ok /\ ~Valid(rd.token)
          /\ authority' = Retired(authority, rd.seen)
          /\ ReaderGoes(r, [rd EXCEPT !.pc = "retired",
                                      !.ok = Retires(authority, rd.seen)])
          /\ UNCHANGED cache
    /\ UNCHANGED <<slots, inFlight, issue, call, late>>

AfterRetire(r) ==
    /\ ReadStep(r, "retired")
    /\ cache' = CacheWithout(reader[r].seen)
    /\ ReaderGoes(r, IF reader[r].ok THEN [reader[r] EXCEPT !.pc = "none"]
                                     ELSE Again(reader[r]))
    /\ UNCHANGED <<stored, inFlight, issue, call, late>>

Reading == {"read", "slot", "confirm", "judge", "retired"}

\* SQLite or SecureStore fails.
ReadFails(r) ==
    /\ reader[r].pc \in Reading
    /\ ReaderGoes(r, [reader[r] EXCEPT !.pc = "failed"])
    /\ UNCHANGED <<stored, cache, inFlight, issue, call, late>>

-----------------------------------------------------------------------------
(* Calls                                                                   *)

CallStep(c, pc) == call[c].pc = pc
Ended(rec, answer) ==
    [NoCall EXCEPT !.kind = rec.kind, !.pc = "done", !.token = rec.token,
                   !.identity = rec.identity, !.answer = answer]

\* getOrIssue and getOrIssueIdentity begin with readActive; invalidate is
\* called with a token the server refused, which some call was answered.
Begin(c) ==
    /\ CallStep(c, "idle")
    /\ \/ /\ call[c].kind = "invalidate"
          /\ \E t \in {call[d].token : d \in Calls} \ {None} :
                call' = [call EXCEPT ![c].pc = "inv_read", ![c].token = t]
          /\ UNCHANGED reader
       \/ /\ call[c].kind \in {"getOrIssue", "getOrIssueIdentity"}
          /\ call' = [call EXCEPT ![c].pc = "reading"]
          /\ ReaderGoes(c, StartRead)
    /\ UNCHANGED <<stored, cache, inFlight, issue, late>>

\* getOrIssue has a token: the answer, or what getOrIssueIdentity goes on with.
GotToken(rec, t) ==
    IF rec.kind = "getOrIssue"
    THEN [Ended(rec, "token") EXCEPT !.token = t]
    ELSE [rec EXCEPT !.pc = "id_read", !.token = t, !.issue = None]

ReadEnds(c) ==
    /\ CallStep(c, "reading")
    /\ reader[c].pc \in {"found", "failed"}
    /\ call' = [call EXCEPT ![c] = IF reader[c].pc = "found"
                                   THEN GotToken(@, reader[c].token)
                                   ELSE Ended(@, "failed")]
    /\ ReaderGoes(c, NoRead)
    /\ UNCHANGED <<stored, cache, inFlight, issue, late>>

\* this.inFlight ?? this.startIssue(), and joinIssue.
Join_Alone(c) ==
    /\ CallStep(c, "reading") /\ ReadStep(c, "none")
    /\ \E i \in Issues :
          /\ issue[i].pc = "unused" /\ \A j \in 1 .. i - 1 : issue[j].pc # "unused"
          /\ issue' = [issue EXCEPT ![i].callers = @ \cup {c}, ![i].pc = "reserve"]
          /\ inFlight' = i
          /\ call' = [call EXCEPT ![c].pc = "join", ![c].issue = i]
    /\ ReaderGoes(c, NoRead)
    /\ UNCHANGED <<stored, cache, late>>
Join(c) ==
    /\ CallStep(c, "reading") /\ ReadStep(c, "none")
    /\ \E i \in Issues :
          /\ IF inFlight # None
             THEN i = inFlight
             ELSE /\ issue[i].pc = "unused"
                  /\ \A j \in 1 .. i - 1 : issue[j].pc # "unused"
          /\ issue' = [issue EXCEPT ![i].callers = @ \cup {c},
                                    ![i].pc = IF @ = "unused" THEN "reserve" ELSE @]
          /\ inFlight' = i
          /\ call' = [call EXCEPT ![c].pc = "join", ![c].issue = i]
    /\ ReaderGoes(c, NoRead)
    /\ UNCHANGED <<stored, cache, late>>

\* The promise of the issue settles, or its retirement after the last caller
\* left does.
Deliver(c) ==
    LET i == call[c].issue IN
    /\ call[c].pc \in {"join", "cancelling"}
    /\ issue[i].pc = "done"
    /\ call' = [call EXCEPT ![c] =
          CASE call[c].pc = "cancelling" -> Ended(@, issue[i].error)
            [] issue[i].result # None    -> GotToken(@, issue[i].result)
            [] OTHER                     -> Ended(@, issue[i].error)]
    /\ issue' = [issue EXCEPT ![i].callers = @ \ {c}]
    /\ UNCHANGED <<stored, cache, inFlight, reader, late>>

\* The native operation an await was aborted on, when it changes something.
Abandoned(c) ==
    CASE ReadStep(c, "judge") /\ reader[c].ok /\ ~Valid(reader[c].token)
            -> {[op |-> "retire", generation |-> reader[c].seen]}
      [] CallStep(c, "id_judged")
            -> {[op |-> "retire", generation |-> call[c].seen]}
      [] CallStep(c, "id_delete")
            -> {[op |-> "delete", generation |-> call[c].seen]}
      [] OTHER -> {}

AbortRead(c) ==
    /\ \/ CallStep(c, "reading") /\ reader[c].pc \in Reading
       \/ call[c].pc \in {"id_read", "id_slots", "id_confirm", "id_judged", "id_retired",
                        "id_delete"}
    /\ late' \in {late, late \cup Abandoned(c)}
    /\ call' = [call EXCEPT ![c] = Ended(@, "cancelled")]
    /\ ReaderGoes(c, NoRead)
    /\ UNCHANGED <<stored, cache, inFlight, issue>>

\* The native operation an issue was waiting for when it was aborted.
Unfinished(i) ==
    CASE issue[i].pc = "reserve"  -> {[op |-> "reserve", generation |-> None, by |-> i]}
      [] issue[i].pc = "token"    -> {[op |-> "token", generation |-> issue[i].generation,
                                       by |-> i]}
      [] issue[i].pc = "identity" -> {[op |-> "identity", generation |-> issue[i].generation,
                                       by |-> i]}
      [] OTHER -> {}

\* cancel of joinIssue, when a call that waits for the issue is aborted: a
\* committing issue is left to commit, one with other callers goes on, and the
\* last caller cancels the issue and waits until its generation is retired.
Committing(i)       == issue[i].phase = "committing"

\* cancelBeforeCommit.  The abort rejects what the issue awaits, unless the
\* operation has ended and only its continuation is left to run.
Cancelled(i) ==
    {[issue[i] EXCEPT !.callers = {}, !.phase = "cancelling", !.aborted = TRUE,
                      !.error = "cancelled", !.pc = pc] :
        pc \in {IF issue[i].generation = None THEN "done" ELSE "failing"} \cup
               ({"reserved", "commit"} \cap {issue[i].pc})}

CancelJoin(c) ==
    LET i == call[c].issue
        stops == ~Committing(i) /\ issue[i].callers = {c} /\ issue[i].pc # "done"
    IN
    /\ CallStep(c, "join")
    /\ call' = [call EXCEPT ![c] =
          IF stops /\ issue[i].generation # None
          THEN [@ EXCEPT !.pc = "cancelling"]
          ELSE Ended(@, IF Committing(i) THEN "indeterminate" ELSE "cancelled")]
    /\ IF stops
       THEN /\ \E rec \in Cancelled(i) : issue' = [issue EXCEPT ![i] = rec]
            /\ inFlight' = IF inFlight = i THEN None ELSE inFlight
            /\ late' \in {late, late \cup Unfinished(i)}
       ELSE /\ issue' = [issue EXCEPT ![i].callers = @ \ {c}]
            /\ UNCHANGED <<inFlight, late>>
    /\ UNCHANGED <<stored, cache, reader>>

-----------------------------------------------------------------------------
(* getOrIssueIdentity, after getOrIssue                                    *)

CallGoes(c, rec) == call' = [call EXCEPT ![c] = rec]

\* A call retires the generation it has seen.
RetireSeen(c, from, to) ==
    /\ CallStep(c, from)
    /\ authority' = Retired(authority, call[c].seen)
    /\ CallGoes(c, [call[c] EXCEPT !.pc = to, !.ok = Retires(authority, call[c].seen)])
    /\ UNCHANGED <<slots, cache, inFlight, issue, reader, late>>

IdentityRetire(c)   == RetireSeen(c, "id_judged", "id_retired")
InvalidateRetire(c) == RetireSeen(c, "inv_retire", "inv_retired")

\* The next attempt of its loop, which begins with getOrIssue.
NextAttempt(c) ==
    IF call[c].tries + 1 < MaxAttempts
    THEN /\ CallGoes(c, [call[c] EXCEPT !.pc = "reading", !.tries = @ + 1,
                                        !.token = None, !.identity = None])
         /\ ReaderGoes(c, StartRead)
    ELSE CallGoes(c, Ended(call[c], "failed")) /\ UNCHANGED reader

IdentityRead(c) ==
    /\ CallStep(c, "id_read")
    /\ IF authority.active = None
       THEN NextAttempt(c)
       ELSE /\ CallGoes(c, [call[c] EXCEPT !.pc = "id_slots", !.seen = authority.active])
            /\ UNCHANGED reader
    /\ UNCHANGED <<stored, cache, inFlight, issue, late>>

\* The token read here is compared with the answer of getOrIssue; ok says
\* whether they are the same.
IdentitySlots(c) ==
    /\ CallStep(c, "id_slots")
    /\ LET s == Slot(call[c].seen) IN
       CallGoes(c, [call[c] EXCEPT !.pc = "id_confirm", !.identity = identitySlot[s],
                                   !.ok = (tokenSlot[s] = call[c].token)])
    /\ UNCHANGED <<stored, cache, inFlight, issue, reader, late>>

\* Confirms that the generation is still active, and answers with the pair or
\* retires the generation.
IdentityConfirm(c) ==
    /\ CallStep(c, "id_confirm")
    /\ LET rec  == call[c]
           good == rec.ok /\ Valid(rec.token) /\ rec.identity # None
       IN
       \/ /\ authority.active # rec.seen
          /\ NextAttempt(c)
          /\ UNCHANGED <<authority, cache>>
       \/ /\ authority.active = rec.seen /\ good
          /\ cache' = [generation |-> rec.seen, token |-> rec.token]
          /\ CallGoes(c, Ended(rec, "identity"))
          /\ UNCHANGED <<authority, reader>>
       \/ /\ authority.active = rec.seen /\ ~good
          /\ CallGoes(c, [rec EXCEPT !.pc = "id_judged"])
          /\ UNCHANGED <<authority, cache, reader>>
    /\ UNCHANGED <<slots, inFlight, issue, late>>

IdentityRetired(c) ==
    /\ CallStep(c, "id_retired")
    /\ IF call[c].ok
       THEN /\ cache' = CacheWithout(call[c].seen)
            /\ CallGoes(c, [call[c] EXCEPT !.pc = "id_delete"])
            /\ UNCHANGED reader
       ELSE NextAttempt(c) /\ UNCHANGED cache
    /\ UNCHANGED <<stored, inFlight, issue, late>>

\* deleteGeneration.
DeleteSlots(g) ==
    /\ tokenSlot' = [tokenSlot EXCEPT ![Slot(g)] = None]
    /\ identitySlot' = [identitySlot EXCEPT ![Slot(g)] = None]

IdentityDelete(c) ==
    /\ CallStep(c, "id_delete")
    /\ DeleteSlots(call[c].seen)
    /\ NextAttempt(c)
    /\ UNCHANGED <<authority, expired, cache, inFlight, issue, late>>

CallFails(c) ==
    /\ call[c].pc \in {"id_read", "id_slots", "id_confirm", "id_judged", "id_delete"}
    /\ CallGoes(c, Ended(call[c], "failed"))
    /\ UNCHANGED <<stored, cache, inFlight, issue, reader, late>>

-----------------------------------------------------------------------------
(* invalidate, which is never aborted and never fails its caller           *)

InvalidateRead(c) ==
    /\ CallStep(c, "inv_read")
    /\ CallGoes(c, IF authority.active = None
                   THEN Ended(call[c], "void")
                   ELSE [call[c] EXCEPT !.pc = "inv_slot", !.seen = authority.active])
    /\ UNCHANGED <<stored, cache, inFlight, issue, reader, late>>

ActiveToken(g) == IF cache.generation = g THEN cache.token ELSE tokenSlot[Slot(g)]

InvalidateSlot_Unchecked(c) ==
    /\ CallStep(c, "inv_slot")
    /\ CallGoes(c, [call[c] EXCEPT !.pc = "inv_retire"])
    /\ UNCHANGED <<stored, cache, inFlight, issue, reader, late>>
InvalidateSlot(c) ==
    /\ CallStep(c, "inv_slot")
    /\ CallGoes(c, IF ActiveToken(call[c].seen) = call[c].token
                   THEN [call[c] EXCEPT !.pc = "inv_retire"]
                   ELSE Ended(call[c], "void"))
    /\ UNCHANGED <<stored, cache, inFlight, issue, reader, late>>

InvalidateEnds(c) ==
    /\ \/ CallStep(c, "inv_retired")
       \/ call[c].pc \in {"inv_read", "inv_slot", "inv_retire"}   \* storage failed
    /\ cache' = IF CallStep(c, "inv_retired") /\ call[c].ok
                THEN CacheWithout(call[c].seen) ELSE cache
    /\ CallGoes(c, Ended(call[c], "void"))
    /\ UNCHANGED <<stored, inFlight, issue, reader, late>>

-----------------------------------------------------------------------------
(* issue                                                                   *)

IssueStep(i, pc) == issue[i].pc = pc
IssueGoes(i, rec) == issue' = [issue EXCEPT ![i] = rec]

\* isCurrent
IsCurrent_Always(i) == TRUE
IsCurrent(i) ==
    inFlight = i /\ issue[i].phase = "issuing" /\ issue[i].callers # {}
    /\ ~issue[i].aborted

\* The catch of issue: a generation that is not finalized is retired first.
Failing(rec, error) ==
    [rec EXCEPT !.error = error,
                !.pc = IF rec.generation = None THEN "done" ELSE "failing"]

\* startIssue's finally, with the continuation that settles the promise.
SettleFlight(i) == inFlight' = IF inFlight = i THEN None ELSE inFlight

Reserve(i) ==
    /\ IssueStep(i, "reserve")
    /\ authority' = Reserved(authority)
    /\ IssueGoes(i, [issue[i] EXCEPT !.pc = "reserved", !.ticket = authority.next])
    /\ UNCHANGED <<slots, cache, inFlight, reader, call, late>>

AfterReserve(i) ==
    /\ IssueStep(i, "reserved")
    /\ LET rec == [issue[i] EXCEPT !.pc = "fetch", !.generation = issue[i].ticket] IN
       IssueGoes(i, IF IsCurrent(i) THEN rec ELSE Failing(rec, "cancelled"))
    /\ UNCHANGED <<stored, cache, inFlight, reader, call, late>>

\* POST /v2/installations answers with a token and an identity.
Fetched(i) ==
    /\ IssueStep(i, "fetch")
    /\ IssueGoes(i, [issue[i] EXCEPT !.pc = "token"])
    /\ UNCHANGED <<stored, cache, inFlight, reader, call, late>>

WriteToken_Last(i) ==
    /\ IssueStep(i, "token")
    /\ tokenSlot' = [tokenSlot EXCEPT ![Slot(issue[i].generation)] = i]
    /\ IssueGoes(i, [issue[i] EXCEPT !.pc = "commit"])
    /\ UNCHANGED <<authority, identitySlot, expired, cache, inFlight, reader, call, late>>
WriteToken(i) ==
    /\ IssueStep(i, "token")
    /\ tokenSlot' = [tokenSlot EXCEPT ![Slot(issue[i].generation)] = i]
    /\ IssueGoes(i, [issue[i] EXCEPT !.pc = "identity"])
    /\ UNCHANGED <<authority, identitySlot, expired, cache, inFlight, reader, call, late>>

WriteIdentity(i) ==
    /\ IssueStep(i, "identity")
    /\ identitySlot' = [identitySlot EXCEPT ![Slot(issue[i].generation)] = i]
    /\ IssueGoes(i, [issue[i] EXCEPT !.pc = "commit"])
    /\ UNCHANGED <<authority, tokenSlot, expired, cache, inFlight, reader, call, late>>

Commit(i) ==
    /\ IssueStep(i, "commit")
    /\ IssueGoes(i, IF IsCurrent(i)
                    THEN [issue[i] EXCEPT !.pc = "finalize", !.phase = "committing"]
                    ELSE Failing(issue[i], "cancelled"))
    /\ UNCHANGED <<stored, cache, inFlight, reader, call, late>>

Finalize(i) ==
    /\ IssueStep(i, "finalize")
    /\ authority' = Finalized(authority, issue[i].generation)
    /\ IssueGoes(i, IF authority'.active = issue[i].generation
                    THEN [issue[i] EXCEPT !.pc = "finalized"]
                    ELSE Failing(issue[i], "cancelled"))
    /\ UNCHANGED <<slots, cache, inFlight, reader, call, late>>

\* When the generation was retired since, the answer is what readActive finds.
ConfirmIssue(i) ==
    /\ IssueStep(i, "finalized")
    /\ IF authority.active = issue[i].generation
       THEN /\ IssueGoes(i, [issue[i] EXCEPT !.pc = "confirmed"])
            /\ UNCHANGED reader
       ELSE /\ IssueGoes(i, [issue[i] EXCEPT !.pc = "replaced"])
            /\ ReaderGoes(i, StartRead)
    /\ UNCHANGED <<stored, cache, inFlight, call, late>>

Answered(i) ==
    /\ IssueStep(i, "confirmed")
    /\ cache' = [generation |-> issue[i].generation, token |-> i]
    /\ IssueGoes(i, [issue[i] EXCEPT !.pc = "done", !.result = i])
    /\ SettleFlight(i)
    /\ UNCHANGED <<stored, reader, call, late>>

Replaced(i) ==
    /\ IssueStep(i, "replaced") /\ reader[i].pc \in {"found", "none", "failed"}
    /\ IssueGoes(i, [issue[i] EXCEPT !.pc = "done",
                        !.result = IF ReadStep(i, "found") THEN reader[i].token ELSE None])
    /\ SettleFlight(i)
    /\ ReaderGoes(i, NoRead)
    /\ UNCHANGED <<stored, cache, call, late>>

\* retireInFlightGeneration, once for the catch and for a cancellation.
RetireIssue(i) ==
    /\ IssueStep(i, "failing")
    /\ authority' = Retired(authority, issue[i].generation)
    /\ IssueGoes(i, [issue[i] EXCEPT !.pc = "done"])
    /\ SettleFlight(i)
    /\ UNCHANGED <<slots, cache, reader, call, late>>

\* The network, SQLite or SecureStore fails the issue.
IssueFails(i) ==
    /\ issue[i].pc \in {"reserve", "fetch", "token", "identity", "finalize",
                        "finalized", "failing"}
    /\ IssueGoes(i, IF issue[i].pc \in {"finalized", "failing"}
                    THEN [issue[i] EXCEPT !.pc = "done", !.error = "failed"]
                    ELSE Failing(issue[i], "failed"))
    /\ IF issue'[i].pc = "done" THEN SettleFlight(i) ELSE UNCHANGED inFlight
    /\ UNCHANGED <<stored, cache, reader, call, late>>

-----------------------------------------------------------------------------
(* The rest of the phone                                                   *)

\* An operation nobody waits for any more runs.
RunLate(o) ==
    /\ o \in late
    /\ late' = late \ {o}
    /\ CASE o.op = "reserve" ->
              authority' = Reserved(authority) /\ UNCHANGED <<tokenSlot, identitySlot>>
         [] o.op = "retire" ->
              /\ authority' = Retired(authority, o.generation)
              /\ UNCHANGED <<tokenSlot, identitySlot>>
         [] o.op = "token" ->
              /\ tokenSlot' = [tokenSlot EXCEPT ![Slot(o.generation)] = o.by]
              /\ UNCHANGED <<authority, identitySlot>>
         [] o.op = "identity" ->
              /\ identitySlot' = [identitySlot EXCEPT ![Slot(o.generation)] = o.by]
              /\ UNCHANGED <<authority, tokenSlot>>
         [] o.op = "delete" -> DeleteSlots(o.generation) /\ UNCHANGED authority
    /\ UNCHANGED <<expired, cache, inFlight, issue, reader, call>>

Expire(t) ==
    /\ t \notin expired
    /\ issue[t].result = t
    /\ expired' = expired \cup {t}
    /\ UNCHANGED <<authority, tokenSlot, identitySlot, cache, inFlight, issue, reader, call, late>>

\* The app is killed: what is in SQLite and SecureStore stays.
Restart ==
    /\ cache' = NoCache /\ inFlight' = None /\ late' = {}
    /\ issue' = [i \in Issues |->
          IF issue[i].pc \in {"unused", "done"} THEN issue[i]
          ELSE [NoIssue EXCEPT !.pc = "done"]]
    /\ reader' = [r \in Calls \cup Issues |-> NoRead]
    /\ call' = [c \in Calls |-> IF call[c].pc = "idle" THEN call[c]
                                ELSE Ended(call[c], IF call[c].pc = "done"
                                                    THEN call[c].answer ELSE "failed")]
    /\ UNCHANGED <<stored>>

Read(r) ==
    \/ ReadAuthority(r) \/ ReadSlot(r) \/ Confirm(r) \/ Judge(r) \/ AfterRetire(r)
    \/ ReadFails(r)

Next ==
    \/ \E r \in Calls \cup Issues : Read(r)
    \/ \E c \in Calls :
          \/ Begin(c)
          \/ ReadEnds(c) \/ Join(c) \/ Deliver(c) \/ AbortRead(c) \/ CancelJoin(c)
          \/ IdentityRead(c) \/ IdentitySlots(c) \/ IdentityConfirm(c)
          \/ IdentityRetire(c) \/ IdentityRetired(c) \/ IdentityDelete(c) \/ CallFails(c)
          \/ InvalidateRead(c) \/ InvalidateSlot(c) \/ InvalidateRetire(c)
          \/ InvalidateEnds(c)
    \/ \E i \in Issues :
          \/ Reserve(i) \/ AfterReserve(i) \/ Fetched(i) \/ WriteToken(i)
          \/ WriteIdentity(i) \/ Commit(i) \/ Finalize(i) \/ ConfirmIssue(i)
          \/ Answered(i) \/ Replaced(i) \/ RetireIssue(i)
          \/ IssueFails(i) \/ Expire(i)
    \/ \E o \in late : RunLate(o)
    \/ Restart

Spec == Init /\ [][Next]_vars

-----------------------------------------------------------------------------
(* Properties                                                              *)

TypeOK ==
    /\ authority \in AuthorityRow
    /\ tokenSlot \in [Generations -> Tokens \cup {None}]
    /\ identitySlot \in [Generations -> Tokens \cup {None}]
    /\ expired \subseteq Tokens
    /\ cache \in [generation : Generations \cup {None}, token : Tokens \cup {None}]
    /\ inFlight \in Issues \cup {None}
    /\ \A i \in Issues : issue[i].callers \subseteq Calls
    /\ \A c \in Calls : call[c].answer \in Answers \cup {"none"}
    /\ authority.active < authority.next /\ authority.pending < authority.next
    /\ authority.pending # None => authority.active < authority.pending

\* Whatever the order of aborts, native operations and restarts, an issue
\* whose callers were told that it was cancelled never becomes the
\* installation ("aborting only the await would let SQLite activate a token
\* after a caller was told that it had been cancelled").
CancelledNeverActive ==
    \A i \in Issues :
        issue[i].aborted /\ issue[i].ticket # None
            => authority.active # issue[i].ticket

\* The active generation has its token and the identity that came with it, so
\* a late write or delete of another generation never reaches them.
ActiveComplete ==
    LET g == authority.active IN
    g # None => /\ tokenSlot[Slot(g)] # None
                /\ identitySlot[Slot(g)] = tokenSlot[Slot(g)]

\* The installation token and the RevenueCat identity that are answered
\* together were issued together.
IdentityOfToken ==
    \A c \in Calls : call[c].answer = "identity" => call[c].identity = call[c].token

\* Callers that run at once share one issue: of the issues that still can
\* commit there is at most one.
OneIssue ==
    Cardinality({i \in Issues : /\ issue[i].pc \notin {"unused", "done"}
                                /\ issue[i].phase # "cancelling"}) <= 1

\* The authority changes its active generation by a refused token only when
\* it is that token's: a late invalidation never retires a newer installation.
InvalidatesOnlyItsToken ==
    [][\A c \in Calls :
          InvalidateRetire(c) /\ authority'.active # authority.active
              => tokenSlot[Slot(authority.active)] = call[c].token]_vars
=============================================================================
