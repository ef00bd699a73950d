---------------------------- MODULE LocalErasure ----------------------------
(***************************************************************************)
(* mobile/src/privacy/localErasure.ts and LocalErasureProvider.tsx: Delete *)
(* All.  The session, the saved reports (with temporary files) and the     *)
(* workspace are cleared one after the other; a journal in SecureStore     *)
(* remembers which are cleared, so that an interrupted erasure is finished *)
(* when the app is opened again, or by the next Delete All.  The person    *)
(* can go on working at any moment.                                        *)
(***************************************************************************)
EXTENDS Integers, FiniteSets

CONSTANT MaxItems   \* bound of the model: things the person creates

Stores == {"session", "reports", "workspace"}
Items  == 1 .. MaxItems

\* The order in which execute clears the stores.
Order == <<"session", "reports", "workspace">>

MaxItemsAssumption == MaxItems \in Nat \ {0}

VARIABLES
    store,     \* what each store holds
    journal,   \* the journal in SecureStore: cleared stores, or Absent
    run,       \* the flight: where execute is, and the journal it holds
    busy,      \* LocalErasureProvider's busy
    presser,   \* a Delete All that was confirmed and waits for its answer
    message,   \* what the last Delete All told the person
    pressed,   \* history: what existed when Delete All was last confirmed
    begun      \* history: what existed when the journal was created

vars == <<store, journal, run, busy, presser, message, pressed, begun>>

Absent  == {"absent"}
Journal == (SUBSET Stores) \cup {Absent}
NoRun   == [pc |-> "none", creates |-> FALSE, cleared |-> {}]
Steps   == {"none", "read", "clear", "mark", "finish", "done", "nothing", "error"}

Everything == UNION {store[s] : s \in Stores}

Init ==
    /\ store = [s \in Stores |-> {}]
    /\ journal = Absent
    /\ run = NoRun
    /\ busy = TRUE
    /\ presser = FALSE
    /\ message = "none"
    /\ pressed = {}
    /\ begun = {}

-----------------------------------------------------------------------------
(* LocalErasureCoordinator.execute                                         *)

\* run: a flight that is under way is shared, whoever began it.
Flight(creates) ==
    IF run.pc = "none" THEN [NoRun EXCEPT !.pc = "read", !.creates = creates]
                       ELSE run

\* The first store that is not cleared yet.
NextStore == CHOOSE s \in Stores \ run.cleared :
                \A i, j \in 1 .. 3 : Order[i] = s /\ j < i => Order[j] \in run.cleared

Progress(cleared) ==
    [run EXCEPT !.cleared = cleared, !.pc = IF cleared = Stores THEN "finish" ELSE "clear"]

ReadJournal ==
    /\ run.pc = "read"
    /\ \/ /\ journal = Absent /\ ~run.creates
          /\ run' = [run EXCEPT !.pc = "nothing"]
          /\ UNCHANGED <<journal, begun>>
       \/ /\ journal = Absent /\ run.creates
          /\ journal' = {}
          /\ begun' = Everything
          /\ run' = Progress({})
       \/ /\ journal # Absent
          /\ run' = Progress(journal)
          /\ UNCHANGED <<journal, begun>>
    /\ UNCHANGED <<store, busy, presser, message, pressed>>

\* resetSession, deleteReports or deleteWorkspace, verified by its receipt.
ClearStore ==
    /\ run.pc = "clear"
    /\ store' = [store EXCEPT ![NextStore] = {}]
    /\ run' = [run EXCEPT !.pc = "mark"]
    /\ UNCHANGED <<journal, busy, presser, message, pressed, begun>>

MarkCleared ==
    /\ run.pc = "mark"
    /\ LET cleared == run.cleared \cup {NextStore} IN
       journal' = cleared /\ run' = Progress(cleared)
    /\ UNCHANGED <<store, busy, presser, message, pressed, begun>>

ClearJournal ==
    /\ run.pc = "finish"
    /\ journal' = Absent
    /\ run' = [run EXCEPT !.pc = "done"]
    /\ UNCHANGED <<store, busy, presser, message, pressed, begun>>

\* A store fails, half done, or its receipt counts failures.
ClearFails_Ignored ==
    /\ run.pc = "clear"
    /\ \E part \in SUBSET store[NextStore] : store' = [store EXCEPT ![NextStore] = part]
    /\ run' = [run EXCEPT !.pc = "mark"]
    /\ UNCHANGED <<journal, busy, presser, message, pressed, begun>>
ClearFails ==
    /\ run.pc = "clear"
    /\ \E part \in SUBSET store[NextStore] : store' = [store EXCEPT ![NextStore] = part]
    /\ run' = [run EXCEPT !.pc = "error"]
    /\ UNCHANGED <<journal, busy, presser, message, pressed, begun>>

JournalFails ==
    /\ run.pc \in {"read", "mark", "finish"}
    /\ run' = [run EXCEPT !.pc = "error"]
    /\ UNCHANGED <<store, journal, busy, presser, message, pressed, begun>>

-----------------------------------------------------------------------------
(* LocalErasureProvider                                                    *)

\* The effect that runs when the local stores have opened.  Until then the
\* button is refused as well, so busy is TRUE from the start here.
Resume ==
    /\ busy' = TRUE
    /\ run' = Flight(FALSE)
    /\ UNCHANGED <<store, journal, presser, message, pressed, begun>>

MayPress_Always == TRUE
MayPress        == ~busy

\* eraseAll, when the button and its confirmation were pressed.
Press ==
    /\ MayPress /\ ~presser
    /\ busy' = TRUE /\ presser' = TRUE /\ message' = "none"
    /\ pressed' = Everything
    /\ run' = Flight(TRUE)
    /\ UNCHANGED <<store, journal, begun>>

\* The flight's promise settles for everyone who waits for it.
Settle ==
    /\ run.pc \in {"done", "nothing", "error"}
    /\ run' = NoRun
    /\ busy' = FALSE /\ presser' = FALSE
    /\ message' = IF ~presser THEN message
                  ELSE IF run.pc = "error" THEN "failed" ELSE "cleared"
    /\ UNCHANGED <<store, journal, pressed, begun>>

\* The app is killed, at any moment, and opened again.
Killed ==
    /\ run' = NoRun /\ busy' = TRUE /\ presser' = FALSE /\ message' = "none"
    /\ store' = [store EXCEPT !["session"] = {}]
    /\ UNCHANGED <<journal, pressed, begun>>

\* The person analyses a resume, saves a report or writes a version.
Create(s) ==
    /\ \E i \in Items :
          /\ i \notin Everything \cup pressed \cup begun
          /\ store' = [store EXCEPT ![s] = @ \cup {i}]
    /\ message' = "none"
    /\ UNCHANGED <<journal, run, busy, presser, pressed, begun>>

Next ==
    \/ ReadJournal \/ ClearStore \/ MarkCleared \/ ClearJournal
    \/ ClearFails \/ JournalFails
    \/ Resume \/ Press \/ Settle \/ Killed
    \/ \E s \in Stores : Create(s)

Spec == Init /\ [][Next]_vars

-----------------------------------------------------------------------------
(* Properties                                                              *)

TypeOK ==
    /\ store \in [Stores -> SUBSET Items]
    /\ journal \in Journal
    /\ run.pc \in Steps /\ run.cleared \subseteq Stores
    /\ busy \in BOOLEAN /\ presser \in BOOLEAN
    /\ message \in {"none", "cleared", "failed"}
    /\ presser => busy

\* What existed when the journal was created is gone from every store the
\* journal calls cleared, however often the erasure is killed or fails.
JournalHonest ==
    journal # Absent => \A s \in journal : store[s] \cap begun = {}

\* A person is told that everything was cleared only by a flight that erased:
\* what existed when its journal was created is gone, and the journal after it.
\* A flight that found nothing to resume is never the answer of a Delete All.
ClaimErased ==
    [][message' = "cleared" /\ message # "cleared"
          => run.pc = "done" /\ journal = Absent /\ Everything \cap begun = {}]_vars

\* The success receipt of Delete All speaks of what was there when it was
\* confirmed ("All active local data stores were verified as cleared").
ClaimCoversPress == message = "cleared" => Everything \cap pressed = {}
=============================================================================
