------------------------------ MODULE MCClients ------------------------------
(* What the clients of the server keep, on small instances.  The phone: its *)
(* token (InstallationToken), with three mixes of calls; the purchases that *)
(* the server verifies for it (Billing); the databases of reports and of    *)
(* resumes (ReportStore, Workspace).  The browser: its page (WebClient).    *)
(* Each has the answers of its neighbours as steps of its own, so a         *)
(* behaviour steps only one of the five.                                    *)
EXTENDS InstallationToken, TLC

Of(kind, n, load) == Cardinality({c \in Calls : load[c] = kind}) = n

\* Three calls that share issues; two, one of which may want the identity; and
\* one or two invalidations beside the calls for a token.
Mixes ==
    {load \in [Calls -> Kinds \cup {"none"}] :
        \/ Of("getOrIssue", 3, load)
        \/ Of("none", 1, load) /\ Of("invalidate", 0, load)
        \/ /\ Of("none", 0, load) /\ Of("getOrIssueIdentity", 0, load)
           /\ ~Of("getOrIssue", 0, load)}

CONSTANTS Nothing, MaxTime, Period, PlanTtl, MaxIdentity, MaxOps
VARIABLES now, sub, identity, configured, products, sdk, service, snapshot, op, ops
Purchases   == INSTANCE Billing WITH None <- Nothing, shown <- snapshot
billingVars == <<now, sub, identity, configured, products, sdk, service, snapshot, op, ops>>

CONSTANTS Submissions, MaxEdits, MaxTokens, MaxLeaves
VARIABLES inputs, pageToken, session, keeps, owner, aborted, step, sent, busy, report, error,
          page, stranded, given, leaves
Page    == INSTANCE WebClient
           WITH None <- Nothing, token <- pageToken, active <- owner, issued <- given
webVars == <<inputs, pageToken, session, keeps, owner, aborted, step, sent, busy, report, error,
             page, stranded, given, leaves>>

CONSTANTS Reports, Repos, Caps, TempFiles, MaxCalls, MaxKills
VARIABLES reports, work, called, stage, handle, closing, flight, copies, sweeping, calls, kills
Repository == INSTANCE ReportStore
              WITH None <- Nothing, disk <- reports, queue <- called, files <- copies
reportVars == <<reports, work, called, stage, handle, closing, flight, copies, sweeping,
                calls, kills>>

CONSTANTS FreeVersions, ProVersions, FreeJobs, ProJobs, MaxSnapshots, MaxIds, MaxAskings
VARIABLES space, change, asked, statement, spaceHandle, leaving, issued, askings, spaceKills
Space     == INSTANCE Workspace
             WITH None <- Nothing, disk <- space, work <- change, queue <- asked, stage <- statement,
                  handle <- spaceHandle, closing <- leaving, calls <- askings,
                  MaxCalls <- MaxAskings, kills <- spaceKills
spaceVars == <<space, change, asked, statement, spaceHandle, leaving, issued, askings, spaceKills>>

ASSUME ClientsAssumption ==
    /\ Page!WebAssumption /\ Purchases!BillingAssumption
    /\ Repository!FileAssumption /\ Space!CapsAssumption

VARIABLE stepping   \* the part this behaviour steps
clientsVars == <<vars, billingVars, webVars, reportVars, spaceVars, stepping>>

\* One initial state of each part that does not step is enough.
ClientsInit ==
    /\ Init /\ Purchases!Init /\ Repository!Init /\ Space!Init /\ Page!Init
    /\ stepping \in {"token", "billing", "reports", "workspace", "web"}
    /\ stepping # "token"     => \A c \in Calls : call[c].kind = "getOrIssue"
    /\ stepping # "billing"   => sub.until = 0
    /\ stepping # "reports"   => reports = Repository!Schema(0, {})
    /\ stepping # "workspace" => space = Space!Empty
    /\ stepping # "web"       => keeps /\ session = 0

\* Three callers of getOrIssue that share issues start two of them at most.
FewIssues ==
    (\A c \in Calls : call[c].kind = "getOrIssue") => issue'[MaxIssues].pc = "unused"

ClientsNext ==
    /\ \/ /\ stepping = "token" /\ Next /\ FewIssues
          /\ UNCHANGED <<billingVars, reportVars, spaceVars, webVars>>
       \/ /\ stepping = "billing" /\ Purchases!Next
          /\ UNCHANGED <<vars, reportVars, spaceVars, webVars>>
       \/ /\ stepping = "reports" /\ Repository!Next
          /\ UNCHANGED <<vars, billingVars, spaceVars, webVars>>
       \/ /\ stepping = "workspace" /\ Space!Next
          /\ UNCHANGED <<vars, billingVars, reportVars, webVars>>
       \/ /\ stepping = "web" /\ Page!Next
          /\ UNCHANGED <<vars, billingVars, reportVars, spaceVars>>
    /\ UNCHANGED stepping

ClientsSpec == ClientsInit /\ [][ClientsNext]_clientsVars

\* InstallationToken: a cancelled issue never becomes the active generation, an
\* active one is complete, there is one issue at a time, and an identity is that
\* of the token it is answered with.
TokensSound ==
    stepping = "token" =>
        CancelledNeverActive /\ ActiveComplete /\ OneIssue /\ IdentityOfToken

\* Billing: nothing paid for is open without a plan the server verified.
ProNeedsActivePlan == Purchases!ProNeedsActivePlan

\* Billing: a purchase opens what was paid for.
PurchaseActivates == Purchases!PurchaseActivates

\* ReportStore and Workspace: a file in use has its schema, and its rows refer
\* to rows that are there.
FilesSound ==
    /\ stepping = "reports"   => Repository!ReadyMeansMigrated
    /\ stepping = "workspace" => Space!ReferencesSound

\* ReportStore: a report leaves the file only by a deletion.
NothingLost == Repository!NothingLost

\* ReportStore and Workspace: a save respects the limit of its own plan.
CapsHeld == Repository!CapRespected /\ Space!CapsHeld

\* WebClient: an answer to an older submission changes nothing.
OlderAnswersSilent == Page!OlderAnswersSilent

\* WebClient: the controls are disabled exactly while a submission runs.
FormUsable == Page!FormUsable

Symmetry == Permutations(Calls)
=============================================================================
