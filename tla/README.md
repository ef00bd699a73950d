# Resume AI: a verification project in TLA+

This directory models the parts of Resume AI whose correctness depends on the
order in which things happen: a Flask service (`src/server`, gunicorn with two
workers of four threads on each of two instances, all of them sharing one
Redis) and an Expo / React Native app (`src/mobile`) that keeps resumes,
reports and credentials on the phone. TLC checks each model on small instances;
TLAPS proves some of the results for every value of the constants.

How to run: `tlc -config X.cfg M` checks a run, `tlapm M.tla` a proof module.
`PROJECT.json` lists the runs, which definition models which lines, and for
every property a mutated definition that breaks it.

## 1. Inventory

### Server

| part | state it keeps | operations | what is hard | correct means |
|---|---|---|---|---|
| AI allowance (`entitlements.py`) | Redis: alias roots, generations, member lists, monthly counters, request leases, charge markers | `reserve`, `begin_dispatch`, `release`, `link_quota_subjects` | optimistic transactions of many workers; EXEC whose reply is lost; installations linked to accounts between a reservation and its charge; month ends | one charge per request and group, no usage lost or counted twice, no limit passed |
| verified plans (`entitlements.py`, `revenuecat.py`, webhook route) | Redis: plan cache, generation per app user, event keys | `verify`, `put_verified_if_generation`, `claim_webhook_event` | a fetch racing a webhook; late, repeated, reordered webhooks; clocks of several workers | no plan from before a claimed webhook is cached or answered |
| admission (`admission.py`) | process: PDF count and bytes, emergency second and count; Redis: bucket, PDF and provider slots | `admit`, `AdmissionLease.release` | a failure at each of ten steps, each with its own clean-up; crash; expiry | capacity is bounded, exact and handed back; Redis outage degrades texts and refuses PDFs |
| rate limiter (`rate_limit.py`) | Redis: fixed-window counters | `check_v2_analysis` (and v1 `check`) | up to six windows in one transaction; clock read before it | no window grants more than its limit, a refusal costs nothing |
| request lease (`rate_limit.py`, v1 route) | Redis: owner marker | `acquire`, `release` | the marker expires under its handler | one handler per request; nobody removes another's marker |
| sign-in, tokens, PDF parser, scoring, AI gateway, privacy, telemetry, config | none that outlives a call (nonces: one key) | | data, not control | tested by the repository; not modelled |

`POST /v2/analyses`: `app.before_request` calls `admission.admit`, which passes
the global bucket (module GlobalBucket), the windows (RateLimiter), the PDF and
provider slots, and `production.reserve_allowance`, which verifies the plan
(PlanCache) and reserves (AiAllowance). The route then scores, calls
`begin_dispatch` and the provider; the teardown releases the lease.
`POST /v2/entitlements/sync` verifies, links and takes a snapshot.
`POST /v2/revenuecat/webhook` claims an event.

### App

| part | state it keeps | operations | what is hard | correct means |
|---|---|---|---|---|
| installation token (`security/`) | SQLite authority row; SecureStore slots per generation; memory: token, shared issue | `getOrIssue`, `getOrIssueIdentity`, `invalidate` | callers that share an issue and abort; native operations that outlive an aborted await; restart | what is active is complete; what was cancelled never becomes active |
| local erasure (`privacy/`) | SecureStore journal; provider's busy flag | `eraseAll`, resume | killed between two stores; work done meanwhile; a shared flight | "cleared" is only said when it is true |
| data providers (`storage/DataProvider.tsx`, `workspace/WorkspaceProvider.tsx`) | chain of lifecycles, status | mount, unmount, open, close | mounts overlap; closes fail | one owner of the database |
| temporary files (`documents/tempFileRegistry.ts`) | cache directory; live requests; promise fence | `stagePdf`, `cleanupRequest`, `cleanupAbandoned` | awaits between check and effect; file system fails half way; restart | a lease only ever sees its own copy; "deleted" is true |
| analysis coordinator (`analysis/`) | state of the reducer; generation; mutation chain; claims of staged copies; obligations of unverified clean-ups | pick, select, edit, extract, analyze, consent, cancel, reset, recover, background, dispose | every command may come at every await of another; a clean-up that is given up is answered later; the commands share the copies they delete | what is uploaded is what the screen shows; privacy is ready only with every copy accounted for; nothing stays busy |
| report repository (`storage/reportRepository.ts`, `migrations.ts`) | one SQLite file; a queue; the map of migrations in flight | `initialize`, `save`, `deleteById`, `deleteAll`, reads, `close` | two connections on one file; killed inside a migration; Delete All waits for a sweep that may never answer | a repository in use has a schema it can read; nothing is lost but by deletion; a save keeps to its plan |
| workspace repository (`workspace/`) | one SQLite file of versions, snapshots and jobs | `saveVersion`, `addSnapshot`, `deleteVersion`, `saveJob`, `deleteJob`, `deleteAll` | several statements each; failures and kills between them | a version can be opened; no row refers to one that is gone; caps hold |
| history (`controllers/AppController.tsx`, `ReportList.tsx`) | list, count, cursor, generation, a chain of operations | `load`, `loadMore`, save, delete, delete all | what a press captured is old when its turn comes | the list is the store's; loading ends |
| billing (`billing/`) | RevenueCat's configuration and customer; the plan the server verified; a snapshot | `load`, `purchase`, `restore` | two servers that answer or not; plans that expire; a replaced identity | Pro only with a verified plan; a confirmed purchase opens it |
| API client (`api/resumeApi.ts`, `planApi.ts`) | one request each | `analyze`, `sync` | time-out, cancel and answers race at every wait | what is told is what happened; nothing is sent unwanted |
| report export (`export/reportExporter.ts`, results screen) | PDFs in the print directory, those in use; a screen's share | share a PDF or text, discard, sweep | the person leaves between any two steps; two screens share the exporter | a PDF has an owner that deletes it; no sheet over another screen |
| web page (`static/app.js`, `lifecycle.js`) | form, token, the submission that owns the page | submit, edit, cancel, leave, return | answers to older submissions; a page restored from the browser's cache | older answers change nothing; the form is usable |
| consent, account identity, vision, other screens | one key or one call each | | data, not control | not modelled |

The app's parts meet in few places: the coordinator stages files through the
registry, asks the token store for a token and the API client for a result;
Delete All calls the session reset and the two repositories; the report
repository has the registry sweep inside its own Delete All; the history, the
workspace and the exporter ask billing what is open. Each model has the answers
of its neighbours as steps of its own, bad and late ones included.

## 2. The modules

Definitions keep the names of the code where they can. A definition
`Name_Something` just before `Name` is a plausible bug in that code, used only
to show that a property can fail. Variables marked "history" are not in the
code; no guard of an action reads one unless the comment says so.

**AiAllowance** (`server/entitlements.py`). A WATCH/MULTI/EXEC transaction is
one action: EXEC fails when a watched key changed and the loop starts over, so
its reads and writes are of one moment. What the code reads before the loop,
the clock and hence the month, is a separate step (`Arrive`, `LinkArrive`).
`reply = FALSE` is an EXEC that committed and lost its reply, after which the
loop runs again. Giving up, failing and dying are `GiveUp` and `LinkEnd`; what
is left in Redis expires (`LeaseExpire`, `Sweep`). An absent key is its
default: a digest is its own root, a counter is 0. `Root` walks two links where
the code walks sixteen; `GroupsConsistent` shows that one is enough.

**QuotaLedger** is what AiAllowance promises, without Redis: groups that only
merge, a set of charges, a limit. `AiAllowance!ImplementsLedger` is the
refinement: a group's representative is its root, `spent` is the charges that
were committed.

**PlanCache** (`VerifiedEntitlementCache`, `RevenueCatPlanVerifier`, the webhook
route). A plan is abstracted to the version of the billing history it was read
from, so "stale" is an order and not a guess. `verify` is its steps: read cache
and generation, fetch, read the clock, put if the generation still holds, check
the generation again, return. RevenueCat's record changes, for one user or
(a transfer) several, and each event is delivered late, again, or in any order.
Every key expires when it will. The generation has the TTL its claim gave it, which
no reading extends, so it may expire under a verification and be made again with
the same number: such a verification, and the entry it caches, is marked
`outlived` (history).

**Admission** (`server/admission.py`). One request's thread: a stage per Redis
command or transaction, each with the branch where it fails (`...Fails`), and
with `FailedDrop` the branch where it took effect and lost its reply. The
process-local counters change in `ReserveLocalPdf` and `ReleaseLocalPdf`, both
under `_local_lock`. `unwind` is the except clause of `_admit_with_store`,
`teardown` the release after the response. `Loads` says what the requests are;
`Crash` is a killed worker. The answers of the bucket, the windows and the
allowance are nondeterministic here and modelled in their own modules.

**GlobalBucket** (`RedisCapacityStore.admit_global`). The code keeps millitokens
and milliseconds; a tick is here the time of whole tokens. Reading the clock and
committing are two steps. `admitted` (history) is what was admitted up to each
time.

**RateLimiter** (`check_v2_analysis`, `_atomic_v2_check`). Counters by scope,
subject and window; all windows of one analysis are checked and counted in one
step; the key names come from an earlier clock reading. A counter may expire as soon
as its window is over, also under a check that has read its name, which then makes it
anew; what such a check is granted is not counted as granted in the window
(`InTime`).

**RequestLease** (`RedisRequestLeaseStore`, `analyze_resume`). Marker, owner,
expiry under a working handler.

**InstallationToken** (`installationToken.ts`, `tokenAuthority.ts`). JavaScript
runs one continuation at a time, so a step is a native operation or a
continuation up to its next await. An aborted await does not stop the
operation: it is put in `late` and runs some day (`RunLate`), before or after
anything else. A token is named for the issue that obtained it, and the
identity that came with it has the same name, so that a mismatched pair is
visible. `Loads` says which methods are called.

**LocalErasure** (`localErasure.ts`, `LocalErasureProvider.tsx`). What a store
holds is a set of things the person created, so one can say which of them an
erasure covered. `Killed` may come at any step, `Create` as well.

**StoreLifecycle** (`DataProvider.tsx`; `WorkspaceProvider.tsx` is the same
code over the workspace database). `life` is where `ownLifecycle` of a mount is;
`closed` and `unclosed` are its TRUE and FALSE.

**AnalysisCoordinator** (`analysisCoordinator.ts`, `analysisReducer.ts`). A step
is what runs between two awaits, and continuations run before the next event
(`Quiet`). `app` is the reducer's state; `queue` is `mutationTail`, each element
with what its closure captured (`claim`, `source`, `act`) and where it is; `acts`
the activations, by a name that is reused; `vision` the extraction; `port` the
calls of the registry that are queued or in progress, with those nobody waits
for any more (`late`); `owed` the obligation of `currentAbandonedCleanupEpoch`;
`sweeps` and `recoveries` the operations that work on it. A cleanup ends in
`Settle`: verified, or refused, failed or timed out, which transfers it to an
obligation, supersedes everything and blocks privacy. The registry is reduced to
what it promises: one call at a time, a lease that is given back whatever became
of the copy, a cleanup without its lease refused, a sweep that leaves live
copies and is verified only when none is left; `Behind` are the copies it makes
after the call it is busy with. `Reliable` is a registry and a picker that
never fail or stall. The steps inside one registry call are TempFileRegistry's.

**TempFileRegistry** (`tempFileRegistry.ts`). The fence is a queue of operations;
the head takes its steps one await at a time while the file system may fail
before or after its work. A caller is its own lease (in the code a fresh
object); two callers may draw one request id, which the code allows for and
the model needs in order to say anything about quarantine. `receipt` records
who was told that the bytes are gone.

**ReportStore** (`reportRepository.ts`, `migrations.ts`). Several repositories
over one file: the app makes a new one with each mount of the provider. `disk`
is the committed file, `work` the snapshot of a transaction. SQLite's rule that a
snapshot may write only while it is still the file is `MayWrite`, and stands for
the failure of an upgraded read (SQLITE_BUSY) that makes the count of `save`
safe. What nobody can observe between a first write and the commit is one step.
`Met` are the files the program may find: none, either version, a newer one, and
two that were tampered with, which have to be refused. `Kill` keeps the file.

**Workspace** (`workspaceRepository.ts`). One repository, whose operations are
modelled statement by statement, because what has to be shown is that no failure
or kill between two statements leaves half of them. Names are numbered in the
order in which they are issued. A cap is judged from the plan when the call is
made and applied in the transaction, as in the code.

**HistoryController** (`AppController.tsx`, `ReportList.tsx`,
`(tabs)/history.tsx`). An element of `tail` holds what its closure captured
(generation, cursor, list). `stage` separates a write from the continuation that
shows it, so that a press can come in between. Presses are offered as the screens
offer them (`status`, `cursor`, the dialog that covers a deletion).

**Billing** (`revenueCatService.ts`, `BillingProvider.tsx`). One operation at a
time (`operationLocked`): configure, the App Store's sheet, the server's answer,
its use, with time passing in between. `shown` is computed once, and only then.
The store's subscription, its owner and the server's plan are external.

**ApiRequest** (`resumeApi.ts`, `planApi.ts`). A wait that was won by its answer
is `held` until its continuation runs, and one that was rejected is `rejected`: the
signal may be aborted in between. What a wait is rejected with is passed on as the
two catch clauses do (`Rethrown`), the token store's own "cancelled" included
(`withdrawn`). The stores and the server answer when they will, or never.

**ReportExport** (`reportExporter.ts`, `results/[analysisId].tsx`). `tail` is
the exporter's chain; `authority` what a screen's share or deletion is allowed
to show. `failed` records PDFs whose deletion failed, or that a kill left: the
only ones that may be without an owner.

**WebClient** (`app.js`, `lifecycle.js`). The form is a number that every edit
raises, so that "a report about what the form holds" can be said. The page may
be left, and restored as it was, or loaded anew.

**Proofs.** A component that is a specification of its own has its theorems in a
module that EXTENDS it (PlanCacheProofs, InstallationTokenProofs,
AnalysisCoordinatorProofs). Where a run steps several components, the theorems
are about the run's specification and the module EXTENDS its MC module
(AdmissionProofs, ServerGatesProofs, ClientsProofs, LifecyclesProofs,
PdfCustodyProofs): each component has an invariant of its own, which the steps of
the others leave alone. ServerGatesProofs also has the theorems of AiAllowance,
about its own Spec; what the coordinator promises is proved of its own Spec and
carried over to CustodySpec.

## 3. The runs

| run | instance | what it shows |
|---|---|---|
| AiAllowance_links | 2 installations, 2 accounts, 2 linkers, 2 calls on one request id, within one month | TypeOK, GroupsConsistent, UsageSound, MarkersKept, and the refinement ImplementsLedger |
| ServerGates | 2 AI calls, 2 request ids, one installation and one account, 2 months; the windows with 3 requests, late transactions, counters that expire and a lost reply each; the bucket with 2 workers; the marker with 3 handlers | ChargedOnce, WithinLimit, RatesBound, OneAtATime |
| AiAllowance_straddle | the calls of ServerGates, with a link that reads one month and commits in the next | violation of WithinLimit: finding 1 |
| Admission_loads | 3 PDFs of two sizes, or 3 texts, to one process, or 2 AI requests of either source to two; 2 seconds | PdfsBound, ProvidersBound, NothingLeaks |
| Admission_outage | 1 text request that asks for AI | violation of OutageDegrades: finding 2 |
| Clients | token: 3 calls in three mixes, 3 issues, 2 attempts; billing: 4 operations, 4 ticks, 2 identities; reports: 2 repositories, 2 calls, a kill; workspace: 3 calls, a kill; web page: 2 submissions, 2 departures | TokensSound, InvalidatesOnlyItsToken, ProNeedsActivePlan, PurchaseActivates, FilesSound, NothingLost, CapsHeld, FormUsable, OlderAnswersSilent |
| Lifecycles | 4 mounts; Delete All with 3 things created meanwhile; 1 user, 2 verifiers, 2 changes, keys that expire; 2 report repositories with 2 calls; a history of 4 reports and 4 presses; an analysis and a verification | LifecyclesTypeOK, OneOwner, JournalHonest, ClaimErased, HistoryHonest, CacheFresh, AnswersInOrder, ToldTruth, NothingSentUnwanted; liveness: MountsDecide, OutdatedPlansGo, LoadingEnds, EverybodyAnswered |
| Lifecycles_again | Delete All over an unfinished journal | violation of ClaimCoversPress: finding 3 |
| History_stale | 2 presses on a history in pages of two | violation of DeletedStaysOut: finding 5 |
| PdfCustody | 4 commands about 2 PDFs, 2 activations, with and without local review; 2 callers on 2 request ids, 2 cleanups each, 2 sweeps, a restart; 2 result screens, 2 PDFs, a kill | PdfsHaveAnEnd, UploadsCurrent; CopiesKept, SweepHonest; PdfAccounted, SheetIsWanted |
| AnalysisCoordinator_supersede | 4 commands, the app's setting, nothing fails | violation of LatestSelectionCommits: finding 4 |
| AnalysisCoordinator_gone | 5 commands about 2 PDFs, no local review, a registry that fails | violation of DeletedNeverSent: finding 6 |

Some properties are the conjunction of the invariants of the modules they come
from, which are stated there one by one:

| property | conjuncts |
|---|---|
| UsageSound | UsageConserved, LeaseSound |
| AnswersInOrder | AnswerFresh, NewestObservationWins |
| PdfsBound | LocalPdfExact, PdfFailsClosed |
| ProvidersBound | ProviderBound, EmergencyBound |
| RatesBound | WindowBound, CountersExact, RateBound |
| TokensSound | CancelledNeverActive, ActiveComplete, OneIssue, IdentityOfToken |
| PdfsHaveAnEnd | ReadyMeansClean, EveryPdfHasAnEnd, BusyHasATask |
| CopiesKept | OwnBytesOnly, SourceKept, DeletedMeansGone, LiveHasHolder |
| FilesSound | ReadyMeansMigrated (ReportStore), ReferencesSound (Workspace) |
| CapsHeld | CapRespected (ReportStore), CapsHeld (Workspace) |
| HistoryHonest | ListMatchesStore, CountHonest |
| EverybodyAnswered | EveryCallAnswered (ReportStore), RequestEnds (ApiRequest) |

ServerGates, Clients, Lifecycles and PdfCustody put components that share no
variable into one run. A behaviour steps one of them (`stepping`) and leaves the
others in an initial state: the state space is the sum of theirs. A step of one
neither enables nor disables a step of another, and what a component needs of
its neighbour (the registry of the coordinator, the sweep of the report
repository, the server of everybody) is in its own module as nondeterministic
steps, so an interleaving of two has no state of either that its own steps do not
reach. Lifecycles holds what has liveness, and so has no symmetry.

**Bounds.** Every bound is a constant. They are chosen for the case to happen:

- Two calls on one request id are what a double charge needs, and on two ids
  they fill the limit (1). Two linkers and two accounts give chains of
  links, links that race, and members under an old root. Two months give one
  month end, one sweep and one straddle. `MaxCounter`, `MaxMembers` and
  `MaxGeneration` stand for 10^6, 64 and 10^9 and are not reached.
- Two changes of the billing history are two webhooks out of order; two verifiers
  are a race for one key; a generation that goes to two and expires is made again
  with a number it had. Users share nothing but the delivery of a transfer, so the
  run has one (two, without the other components, pass in 5.1 million states) and
  the theorems have any number.
- Three PDFs pass a process limit of two in count and of three in bytes; two AI
  requests pass a provider limit of one; three texts pass an emergency rate of
  two, and two seconds let the count start again.
- The limits of the windows are one or two, so three requests fill a window of
  one installation, or of an account by two installations; `MaxLost` lets one reply
  a counter be lost. The bucket holds
  three tokens and gets two a tick over four ticks, so it is empty, capped and
  expired at times. Three handlers are two that meet and a third that
  comes after a wrong release.
- Three callers are two that share an issue and one that comes after, so three
  callers of `getOrIssue` start two issues at most; with a caller for the
  identity or an invalidation, three issues are a replaced one and its
  successors.
- Two report repositories are a mount and the one that overlaps it, with two
  operations between them (two saves that both counted, a deletion of everything
  that meets a save) on every file that `Met` lists; the caps are 1 and 2. A
  repository may be initialized and closed as often as it comes to it.
- Three calls to the workspace make, link and delete a version, or fill the caps
  of either plan (1 and 2 rows) with one waiting behind another; the file may
  hold a version with its snapshot and a linked job already. `MaxIds` is what
  three calls can issue.
- Four operations of the billing are a load, a purchase that fails, one that
  does not, and a restore; a plan lasts one tick, a subscription two, of four.
- Two submissions are one that is overtaken and its successor; two edits and two
  departures come before, between and after.
- Four mounts are two that overlap, one after a chain that was forgotten, one
  after a close that failed.
- Four reports in pages of one and a window of two make the list drop its newest;
  four presses are a page, a deletion, a save and a refresh.
- One analysis beside a verification is two that want the same token.
- Two callers on two ids are two that collide or do not; a caller whose cleanup
  was refused or failed asks again, with a sweep or a restart between.
- Two result screens over one exporter are a share and a sweep that races it.
- Four commands are a pick, a task on its PDF, a command that supersedes the task,
  and one more (a recovery, an edit, a second pick): superseding a superseding
  command, or recovering from a failed clean-up, needs no more. Two PDFs are one
  that is committed and one that comes; two activations one that is aborted and
  not over and its successor. Clean-ups, sweeps and time-outs are not bounded.

Deadlock is not checked: every one of these systems may stop, a call is made
once and time is bounded.

**Symmetry** is used over sets of model values in runs without liveness. In
ServerGates the phones of the windows are the request ids of the charges: the
two never step together, and one symmetry serves both.

**Fairness.** PlanCache assumes WF of the delivery of each event: RevenueCat
redelivers an event until it is answered with 2xx, and the route answers 503,
retryable, until the claim committed. It assumes nothing of workers.
StoreLifecycle assumes WF of each lifecycle's own steps: promises of the
database settle, well or badly. ReportStore assumes WF of what a repository, its
SQLite and its timer do, and nothing of the registry's sweep, which may never
answer: EveryCallAnswered rests on the time-out. ApiRequest assumes WF of the
continuations and of the timer, and nothing of the stores and the server.
HistoryController assumes that its chain goes on (`serialize` continues whatever
became of an operation). Nothing is assumed of a person: mounting, unmounting,
pressing, aborting are not fair.

**What the runs assume and the code does not promise.** Four constants switch
off an interleaving that the code allows, so that the rest can be checked, and
each was set to TRUE to see what happens:

- `MonthEndStraddle` (finding 1).
- `PagesDuringDeletes` (finding 5).
- `StaleSecond`: `_take_emergency_score` reads the clock before it takes the
  lock and compares seconds with `!=`. A thread that read the previous second
  and gets the lock late sets `_emergency_second` back, and one second of one
  process takes more than two scores. EmergencyBound fails with it.
- `StaleClock`: `admit_global` stores its own clock reading even when the stored
  one is newer, so an overtaken worker gives one refill twice. RateBound fails
  with it.

Two interleavings stay in the models, and the properties say what they leave out:

- *A check that is late.* `_atomic_v2_check` reads its clock, and so the names of
  its counters, before its transaction, and a counter's TTL is what was left of its
  window when it was written. A transaction that commits after its window is over
  may find the counter gone: it is granted, though the window was full. WindowBound
  counts what was granted while the window was current; with what was granted
  later TLC finds more than the limit.
- *A generation that is made again.* The generation key of a user lives 73 hours
  from the claim that set it. When it expires under a verification, and a claim
  gives it the number the verification read, both checks of the generation pass
  and a plan from before that claim is cached and answered. CacheFresh and the first
  half of AnswersInOrder leave out a verification that had its generation
  expire under it, and the entry it cached (`outlived`), which the next claim or its
  own expiry ends. Without that exemption TLC finds both violated.

## 4. Findings

1. *Straddled link* (AiAllowance_straddle, `entitlements.py:227`). The month a
   link merges is read before its transaction. If the month ends in between, the
   new month's charges of the installation are not merged and its group is
   charged beyond the limit. The design says that "linking cannot mint a fresh
   allowance".
2. *Redis lost late* (Admission_outage, `admission.py:459`). AllowanceUnavailable
   between the provider slot and the allowance is not one of the two exceptions
   that `admit` turns into the emergency path: a reviewed text gets a 503 where
   the design promises a deterministic score.
3. *Delete All again* (Lifecycles_again, `localErasure.ts:112`). A new Delete
   All that finds the journal of an unfinished one skips the stores marked in it,
   with what was created in them since, and says that all stores were verified
   as cleared.
4. *Selection over a task that ends its PDF* (AnalysisCoordinator_supersede,
   `analysisCoordinator.ts:1001`). A selection captures the claim of the source
   it replaces, waits for the extraction (or analysis, or selection) that it
   aborted, which deletes the copy and gives its lease back, and then deletes the
   claim again. The registry refuses, the refusal is taken for an unverified
   clean-up, privacy is blocked and the selection dropped. Tests say that such a
   replacement is committed; their fake registry verifies every clean-up.
5. *A page from before a deletion* (History_stale, `AppController.tsx:158`).
   `loadMore` captures the list that was shown when it was pressed and, since a
   deletion does not raise the generation, appends its page to that list even
   when a deletion was answered first: the deleted report, or with Delete All the
   whole history, is listed again until the next load. The design says that
   "stale pages cannot overwrite a refresh".
6. *A deleted PDF is uploaded* (AnalysisCoordinator_gone,
   `analysisCoordinator.ts:1165`). While an analysis of a PDF runs, a failure
   elsewhere (the clean-up of another pick) blocks privacy. The analysis is aborted,
   deletes its copy and, being superseded, does not consume the source. A recovery
   makes privacy ready and leaves the source on the screen. `analyze` then finds no
   committed claim of it, takes a null claim, and with nothing to check gives
   the PDF whose copy is gone to the API. Tests ("live single-use PDF ownership")
   say that a PDF whose clean-up completed is never analysed. UploadsCurrent, which
   is proved, says of copies only that the one whose claim an analysis holds is
   live and not being deleted.

Observations on the way, which no run states:

- *A source that is gone* (finding 6) is not selected away either: the next selection
  finds no claim of it and fails as a privacy error, until a reset or an edit.
- *A cancellation nobody asked for.* The token store rejects a caller of an issue
  that another one superseded with the category "cancelled"
  (`installationToken.ts:547`); `analyze` and `sync` pass it on, and the screen shows
  that the analysis was cancelled (`analysisCoordinator.ts:1620`). ToldTruth allows
  it, when nothing was sent.
- *Editing while blocked.* `setJobDescription` has no guard on a blocked privacy
  and returns from its mutation without ending it: `state.mutation` stays
  "editing" until a recovery, a reset or another mutation. BusyHasATask speaks
  of ready privacy for that reason.
- *A page from the browser's cache.* `pagehide` invalidates the submission and
  does not enable the form; no handler of `pageshow` does. A page that was left
  with a submission and is restored as it was keeps its controls disabled, and
  Cancel, which finds no owner, does not help. FormUsable leaves it out
  (`stranded`).
- *Two gates for one plan.* `entitlementActive` is computed once, the workspace
  compares the plan with the clock. After `PLAN_CACHE_MAX_SECONDS` Settings still
  shows the limits of Pro and the workspace applies those of Free, until a load.
- *The allowance outlives its plan.* `requireVerification` forgets the plan and
  keeps the allowance, which Settings shows.
- *A configured identity.* RevenueCat is configured once. When a 401 makes a new
  installation, purchases go to the old identity until a relaunch and a restore.
  PurchaseActivates is stated for an identity that did not change. A 401 to
  `planApi` does not have the token taken back; only an analysis does.
- *A job that comes back.* A status that is saved from a screen while the job's
  deletion is queued inserts the job again (`workspaceRepository.ts:509`).
- *Delete All and the identity.* A design document counts "SecureStore identity
  tokens" among what Delete All covers; the code does not clear them, and
  LocalErasure models the code.

## 5. What is proved

| theorem | module | statement |
|---|---|---|
| TypeCorrect, GroupsStayConsistent | ServerGatesProofs | Spec => []TypeOK, Spec => []GroupsConsistent |
| MarkersAndLeases, RequestsChargedOnce | ServerGatesProofs | markers stay findable and leases sound; Spec => ChargedOnce |
| UsageStaysSound, NoFreshAllowance | ServerGatesProofs | with ~MonthEndStraddle: Spec => []UsageSound, Spec => WithinLimit |
| StoreImplementsLedger | ServerGatesProofs | with ~MonthEndStraddle: Spec => ImplementsLedger |
| CacheTypes | PlanCacheProofs | Spec => []TypeOK |
| PlansStayFresh, PlansAnsweredInOrder | LifecyclesProofs | LifecyclesSpec => []CacheFresh, AnswersInOrder (of any number of users) |
| PdfsCounted, CallsBounded, NothingIsLeaked | AdmissionProofs | Spec => []PdfsBound, []ProviderBound, []NothingLeaks |
| ProvidersHeld | AdmissionProofs | with ~StaleSecond: Spec => []ProvidersBound |
| OneHandlerAtATime, WindowsKept | ServerGatesProofs | one handler per request; no window grants more than its limit while it is current, counters exact |
| RatesKept | ServerGatesProofs | with ~StaleClock: GatesSpec => []RatesBound |
| FormStaysUsable, OlderAnswersStaySilent | ClientsProofs | []FormUsable, OlderAnswersSilent |
| ProNeedsAPlan, PurchasesActivate | ClientsProofs | []ProNeedsActivePlan, PurchaseActivates |
| NoReportLost, FilesStaySound, CapsStayHeld | ClientsProofs | NothingLost, []FilesSound, CapsHeld |
| JournalsAreHonest, ClaimsAreTrue | LifecyclesProofs | []JournalHonest, ClaimErased |
| CallersAreToldTheTruth, UnwantedStaysHome | LifecyclesProofs | []ToldTruth, NothingSentUnwanted |
| StoreTypeCorrect, OneOwnerAlways | LifecyclesProofs | LifecyclesSpec => []TypeOK, []OneOwner (of the store) |
| HistoryIsHonest, DeletedStaysGone | LifecyclesProofs | []HistoryHonest; []DeletedStaysOut of a history without pages during deletions |
| AllTypesKept | LifecyclesProofs | LifecyclesSpec => []LifecyclesTypeOK |
| CopiesStayKept, SweepsAreHonest | PdfCustodyProofs | CustodySpec => []CopiesKept, SweepHonest |
| PdfsReachTheirEnd, OnlyTheCurrentIsUploaded | PdfCustodyProofs | CustodySpec => []PdfsHaveAnEnd, UploadsCurrent |
| PdfsEnd, UploadsAreCurrent | AnalysisCoordinatorProofs | the same of the coordinator alone: its three invariants, and that only the current source is uploaded |
| CoordinatorTypes | AnalysisCoordinatorProofs | Spec => []TypeOK, with the types of all tasks and queues |
| PdfsAreAccounted, SheetsAreWanted | PdfCustodyProofs | CustodySpec => []PdfAccounted, SheetIsWanted |
| TokensStaySound, RefusedTokenIsItsOwn | ClientsProofs | []TokensSound, InvalidatesOnlyItsToken |
| CancelledStaysInactive, ActiveStaysComplete, OneIssueAtATime, RefusedRetiresItsOwn | InstallationTokenProofs | the same, one by one, of the token service alone |

**What they assume.** They hold for every value of the constants that satisfies
the named assumptions of the modules: the sets of installations and accounts
are disjoint; subjects, calls, checks and reports are finite; limits, caps and
bounds are natural numbers (a rate, a period and a page at least 1, a page no
longer than the window of the list, a bucket full again before its key
expires); a plan's limit is a counter the decoder accepts; and a name for
"nothing" is not a value (CoordinatorAssumption says it of PDFs, activations, the
records of tasks and the words for their places and outcomes). A module that other modules only INSTANCE defines its
assumption, and the MC module of its run assumes it, where TLC evaluates it. The
proofs read the specification the runs check: no definition is replaced.

Three theorems have a hypothesis on a constant that switches off an interleaving
the code allows (section 3); each is needed. Without `~MonthEndStraddle`,
WithinLimit is what finding 1 refutes; without `~StaleSecond` and `~StaleClock`
TLC refutes EmergencyBound and RateBound. The two theorems about the history are
about LifecyclesSpec, whose history has PagesDuringDeletes FALSE: no page is asked
for behind a deletion that is not shown yet. With such pages DeletedStaysOut is
what finding 5 refutes. What does not need these hypotheses is a
theorem of its own (RequestsChargedOnce, CallsBounded, WindowsKept).

**A request is charged once.** ChargedOnce is about one step, and not inductive:
that a call with a lease may charge depends on what other calls with other
leases did before. `ChargeInv` strengthens it. Groups are one level deep and the
member list of a root is its group (GroupsConsistent, proved on its own:
`Linked` moves both groups with all their chains, so no member is left behind).
The clocks agree: a month that was swept is of no live call (ClocksAgree). A
captured generation is not in the future (PastIdentity), so a link that touches
any digest of a call's chain makes SameIdentity false for good. With these, a
call that still has its lease and identity sees every marker of its group
(LeaseSound), and a marker moves with no link but stays in the member list of
the root it is found from (MarkersKept). A charge of a second call would need a
marker to be missing, which MarkersKept excludes.

**A link grants no fresh allowance.** `LedgerInv` adds to ChargeInv that a
reserve or a link between its clock reading and its commit is of this month
(CommitsInTime, what the hypothesis gives), that nothing is counted in a month
that has not come, and that the counter of a root is the number of charges of
its group (UsageConserved). A charge adds one call to one group's set; a link
unites two disjoint sets, whose cardinalities add up as the counters do. The
refinement has the same invariant: a group of the ledger is a root, and the
steps map to Spend, Merge, Forget or a stutter, one lemma each. A merge
changes representatives, so the ledger's count of a group is compared with the
count by calls through a bijection (SameCount).

**A webhook is not undone.** Unless the key expired under it (`outlived`), a
worker's generation is never ahead of the stored one, and a claim moves the stored
one past it. So a worker whose generation still matches has seen no claim for its
user since it read, and what RevenueCat answered it is as new as all claims
(`CacheInv`: RecordAhead, VerifiersBehind and their neighbours). Deliveries may
be repeated and reordered: only the first of an event claims. The invariant is
PlanCacheProofs', carried over to LifecyclesSpec by an instance over its variables.

**Admission.** A lease is empty outside admission and service, and process-local
capacity is its first reservation, for a PDF as long as it is served
(LeaseShape). From there: the two counters of a process are the number and the
bytes of the requests whose lease holds such capacity (CountInv); a request
that asks or calls the provider has a slot, or outlived it, from the moment it
was reserved (SlotsKept); and what a request that met no failure has in Redis is
in its lease, or in the hands of the code that is about to put it there (Owed). That a sum over a finite set does not depend on the order in which it is taken
is proved from a least set for which it would (LeastSubset). The limiter:
what a process took in this second is no more than its counter says
(EmergencyInv).

**The gates.** Lease: a working handler has its marker or outlived it
(MarkersHeld), and only an owner removes a marker. Windows: unless it
is gone, which takes its window to be over, a counter is what was granted in its
window and what was lost with a reply (CountersHeld); and what is granted after
the window was over is not granted in time (LateGrants).
Bucket: what was admitted since any moment and what the bucket still holds are
together no more than a burst and the refill since then (Budget).

**The clients.** Web page: who owns the page awaits an answer, was not aborted,
and was made of what the form holds (OwnerCurrent). Billing: the
service and the snapshot a Delete All may restore are open only with a plan of
Pro (Honest), and an answer that waits to be applied is about the subscription
(AnswerNamesSub). Reports: one connection writes at a time, to a snapshot that
is the file still (OneWriter, SnapshotSound), and the second version of the schema
is there before anything is asked of a repository (MigratedFirst). Workspace:
names are issued in order, so no operation overwrites a row it did not read
(NamesInOrder), and the transaction of each operation is, after each
of its statements, what is committed with the changes made so far (WorkSound). Requests: where a
request is says whether it was posted, committed and told (Placed, Told). Delete
All: what the flight or the journal calls cleared lacks what there was when the
journal was created (RunHonest), and who pressed is told of a flight that
erases (PresserErases).

**The token.** A generation of the journal has one history, reserved, active,
retired, and none goes back: one that was active once is not pending and will
never be again, so who saw it active finds it active or gone for good (Known).
An issue that was cancelled, by a reset or by a newer generation, never
finalizes: it lost the journal before it could (PhaseOk, WrittenOk). What the
platform's storage still does late is either of a cancelled issue or deletes a
generation that is retired (LateOk), so only the one live issue touches the
slots of the active and of the wanted pending generation (SlotsMove), and the
live issue is the one in flight (OneFlight). The journal has a generation left
for every issue that has none (Spare), which is what the bound of the model needs.

**The database has one owner.** OneOwner follows from: mounts begin in order
(InOrder), each is chained to the one before, or to none when all before are
closed (Chained), the coordinator forgets only a chain that is all closed
(HandoffLast), and whoever holds the database has only closed mounts before it
(OwnersLast).

**The history.** A list shown is what its load read, changed by each press
whose turn has come, so `HistoryInv` says of every press in the queue that
what it captured when it was called is true at its turn. A load is of the
present generation once at most, and makes what was asked before it stale
(OneLoad, LoadsFirst); a page is never asked for behind a deletion (PagesFirst);
so the cursor and the list of a page are those it will be appended to (Captured),
and every report of the store is in the list or older than its cursor, unless a newer one
was announced or could not be shown (Covers, Matches). The number is that
of the store up to the write being shown (Counted). That the pages are ascending
enumerations, which the model takes with CHOOSE, is proved of every finite set
of numbers (AscendingExists, from a least set that had none), and with it that a page
leaves out nothing above the cursor it returns (PageCovers).

**Types.** All six components of LifecyclesSpec keep their types. Four invariants
above contain theirs; the reports' is StoreInv (a repository at work has a call at
the head of its queue, one in a transaction a snapshot); that of the plans comes from
PlanCacheProofs, an instance of which is over the variables the plans have here.

**Copies on disk.** One operation of the registry is under way, the head of the
fence (Turns), so what a staging found when it looked still holds at its later
steps: it has its lease from the creation of the directory on, and none where it
gave it back (StagingAt); a cleanup that deletes has its caller's lease
(CleanupAt), and that caller asked for it, so no copy that is still wanted goes.
A sweep deletes only what nobody has live, and what it has not looked at yet is
all there is, unless it missed something (SweepAt): no staging runs between its
listing and its end.

**PDFs of a share.** A screen has one export in the chain at a time, with the
authority it began with (OneExport). A PDF that is printed goes into activeUris
together with the operation that will share or discard it, is out of it when that
operation begins, and no other operation owns it (Protected, Begun); so clean-ups
cannot take it before the sheet, and each has its deletion to come (Accounted).

**The coordinator's copies.** That a PDF has an end to come is said of moments of
rest, and is not inductive: a copy changes hands between a selection, the committed
source, an activation, an extraction, a disposal, the exact cleanups and the
sweep, each of which waits for others. `CoordInv` says who answers for it at every
step, in parts that need each other:

- A claim is a live lease whose copy is there, and the committed PDF is claimed
  (Leases). A claimed copy is being deleted, or committed, or wanted by a
  selection that has not ended (Owners).
- A cleanup that runs has one call at the registry that somebody waits for, and a
  task that hears of it (Answers, Waits); a call that came too late is about a
  copy that is claimed no more. So an answer or a deadline tells exactly who must
  know, and a late answer tells nobody.
- Who leaves a copy behind blocks privacy first: unless something is owed every
  copy has an owner, and unless privacy is blocked nothing is owed (Privacy). That
  an epoch's fence waits only for calls that are there is kept apart (FenceOk): no
  safety property needs it but the types.
- A mutation is described by the place it is at (MutationAt): when it ends as
  committed, its PDF was verified and is still claimed, and the claim of the one
  before is gone; when it is dropped, either it was superseded or privacy is
  blocked. Only the first of the chain is under way, in the order of generations
  (Order), and the PDF a selection brings is nobody's yet (Fresh).
- An activation that is current has the source that is shown, committed and not
  being deleted, in privacy that is ready, and one that is about to upload and
  was not aborted is current (ActAt): this is UploadsCurrent. One that is over
  waits for the cleanup of its PDF as long as that is claimed.
- What the screen shows in progress has its task: an extraction (Extracting), a
  mutation that is the last of the chain, an activation (Progress).

A step is proved by its effect and not by its action: the many actions and
continuations have few effects on the invariant (a mutation goes on, an
activation goes on or stops, an extraction goes on, tasks hear of a cleanup, a
claim is retired, an epoch is opened or cleared), each with a lemma on the parts
it disturbs. EveryPdfHasAnEnd and BusyHasATask then follow from Owners, Waits and
Progress when nothing is left to run.

**Only model-checked.** Every invariant and every action property of a passing run
is a theorem. TLAPS cannot prove liveness under fairness, so MountsDecide,
OutdatedPlansGo, LoadingEnds and EverybodyAnswered stay with TLC; and so do the
counterexamples of section 4.

## 6. What is not modelled

Per component in `PROJECT.json`. Not modelled at all: validation in the routes,
signing and verifying of tokens and accounts, the PDF parser, scoring, the AI
gateway, privacy and telemetry, consent and account identity (one key each), the
native text recognition (one promise), the forms among the screens, and the
scripts. None of them keeps state that two actors share.

Where a modelled component leaves something out: the 400-day expiry of links; the expiry of event keys, which live 73
hours, longer than a cached plan; the snapshot of an allowance, which changes nothing; the v1
windows, which are the same transaction over other keys; `save`, `clear` and
`retireAll` of the token store, `createRequest` of the registry and `linkAccount`,
`logIn` and `logOut` of the billing, which nothing in the app calls; foreign files
in the cache directory; the copy the document picker makes; request ids that
collide, in the coordinator (TempFileRegistry has them); a PDF selected without
the picker, which the app does not do; the receipts that commands return, of
which the state they report is modelled; the limit of 256 (100, 32) attempts of a
transaction, which is a nondeterministic failure; the reads of the two
repositories, their order and pages, which change nothing (the history has pages
of its own); what a report, a version or a job says; a results screen whose route
parameter changes while it is mounted; the HTML of a report; the reset handler
of the web form, for which the page has no control. Text, formats, digests and
cryptography are model values.

## 7. Plan

AnalysisCoordinator, further: liveness under settling promises (mutations and
disposal end, an obligation can be recovered from).
