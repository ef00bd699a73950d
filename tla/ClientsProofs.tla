---------------------------- MODULE ClientsProofs ----------------------------
(***************************************************************************)
(* That the clients of the server keep what they promise, for any number   *)
(* of callers, submissions, reports and resumes.  Each part is proved from *)
(* its own invariant; a behaviour of all of them steps one part and leaves *)
(* the variables of the others alone.                                      *)
(***************************************************************************)
EXTENDS MCClients, InstallationTokenProofs, Sequences

-----------------------------------------------------------------------------
(* WebClient: the submission that owns the page awaits an answer, was not  *)
(* aborted, and was made of what the form holds still: an edit would have  *)
(* ended it.                                                               *)

OwnerCurrent ==
    owner # Nothing => /\ step[owner] \in Page!Awaits
                       /\ owner \notin aborted
                       /\ sent[owner] = inputs

\* Only what was submitted is ever aborted.
NewNotAborted == \A s \in Submissions : step[s] = "new" => s \notin aborted

PageInv ==
    /\ Page!TypeOK
    /\ DOMAIN sent = Submissions
    /\ OwnerCurrent /\ NewNotAborted /\ FormUsable

LEMMA PageInvInit == Page!Init => PageInv
BY ClientsAssumption
DEF Page!WebAssumption, Page!Init, PageInv, Page!TypeOK, OwnerCurrent, NewNotAborted, FormUsable, Page!FormUsable,
    Page!Awaits

LEMMA PageInvStep == PageInv /\ [Page!Next]_webVars => PageInv'
<1> SUFFICES ASSUME PageInv, [Page!Next]_webVars
             PROVE  PageInv'
  OBVIOUS
<1> USE ClientsAssumption
    DEF Page!WebAssumption, PageInv, Page!TypeOK, OwnerCurrent, NewNotAborted, FormUsable, Page!FormUsable,
        Page!Awaits, Page!tokens, Page!shown, Page!lifecycle, Page!visit
<1>1. CASE Page!Edit
  BY <1>1 DEF Page!Edit, Page!Enable, Page!Invalidate
<1>2. CASE Page!Refuse
  BY <1>2 DEF Page!Refuse
<1>3. CASE Page!Cancel
  BY <1>3 DEF Page!Cancel, Page!Invalidate
<1>4. CASE Page!PageHide
  BY <1>4 DEF Page!PageHide, Page!Invalidate
<1>5. CASE Page!PageShow
  BY <1>5 DEF Page!PageShow
<1>6. CASE Page!Reload
  BY <1>6 DEF Page!Reload
<1>7. ASSUME NEW s \in Submissions, Page!Submit(s)
      PROVE  PageInv'
  BY <1>7 DEF Page!Submit
<1>8. ASSUME NEW s \in Submissions, Page!Drop(s)
      PROVE  PageInv'
  BY <1>8 DEF Page!Drop, Page!At, Page!To, Page!Owns
<1>9. ASSUME NEW s \in Submissions, Page!Answered(s)
      PROVE  PageInv'
  BY <1>9 DEF Page!Answered, Page!At, Page!To, Page!Owns
<1>10. ASSUME NEW s \in Submissions, Page!Issued(s)
       PROVE  PageInv'
  BY <1>10 DEF Page!Issued, Page!At, Page!To, Page!Owns, Page!SaveToken
<1>11. ASSUME NEW s \in Submissions, Page!Render(s)
       PROVE  PageInv'
  BY <1>11 DEF Page!Render, Page!At, Page!To, Page!Owns, Page!Finish
<1>12. ASSUME NEW s \in Submissions, Page!Fail(s)
       PROVE  PageInv'
  BY <1>12 DEF Page!Fail, Page!At, Page!To, Page!Owns, Page!Finish, Page!ClearToken
<1>13. CASE UNCHANGED webVars
  BY <1>13 DEF webVars
<1> QED
  BY <1>1, <1>2, <1>3, <1>4, <1>5, <1>6, <1>7, <1>8, <1>9, <1>10, <1>11, <1>12, <1>13
  DEF Page!Next

\* What an answer may change: only that of the owner anything, and a report is
\* of what the form holds.
AnswerSilent ==
    /\ \A s \in Submissions :
         step'[s] # step[s] /\ step[s] \in Page!Awaits /\ owner # s /\ page' = page
           => UNCHANGED <<Page!shown, Page!tokens>>
    /\ report' # report /\ report' # Nothing => report' = inputs

LEMMA PageInvSilent == PageInv /\ [Page!Next]_webVars => [AnswerSilent]_webVars
<1> SUFFICES ASSUME PageInv, Page!Next
             PROVE  AnswerSilent
  BY DEF webVars
<1> USE ClientsAssumption
    DEF Page!WebAssumption, PageInv, Page!TypeOK, OwnerCurrent, AnswerSilent, Page!Awaits, Page!tokens,
        Page!shown, Page!lifecycle, Page!visit
<1>1. CASE Page!Edit \/ Page!Refuse \/ Page!Cancel \/ Page!PageHide \/ Page!PageShow \/ Page!Reload
  BY <1>1 DEF Page!Edit, Page!Refuse, Page!Cancel, Page!PageHide, Page!PageShow, Page!Reload
<1>2. ASSUME NEW s \in Submissions, Page!Submit(s)
      PROVE  AnswerSilent
  BY <1>2 DEF Page!Submit
<1>3. ASSUME NEW s \in Submissions, Page!Drop(s) \/ Page!Answered(s) \/ Page!Issued(s)
      PROVE  AnswerSilent
  BY <1>3 DEF Page!Drop, Page!Answered, Page!Issued, Page!At, Page!To, Page!Owns
<1>4. ASSUME NEW s \in Submissions, Page!Render(s) \/ Page!Fail(s)
      PROVE  AnswerSilent
  BY <1>4 DEF Page!Render, Page!Fail, Page!At, Page!To, Page!Owns, Page!Finish
<1> QED
  BY <1>1, <1>2, <1>3, <1>4 DEF Page!Next

LEMMA PageHolds == ClientsSpec => []PageInv
<1>1. ClientsInit => PageInv
  BY PageInvInit DEF ClientsInit
<1>2. PageInv /\ [ClientsNext]_clientsVars => PageInv'
  BY PageInvStep DEF ClientsNext, clientsVars
<1> QED
  BY <1>1, <1>2, PTL DEF ClientsSpec

\* The controls of the page are disabled exactly while a submission owns it
\* (setBusy, RequestLifecycle).
THEOREM FormStaysUsable == ClientsSpec => []FormUsable
<1>1. PageInv => FormUsable
  BY DEF PageInv
<1> QED
  BY <1>1, PageHolds, PTL

\* An answer to an older submission changes neither the page nor its token, and
\* a report is shown only of what the form holds (owns, invalidateForEdit).
THEOREM OlderAnswersStaySilent == ClientsSpec => OlderAnswersSilent
<1>1. PageInv /\ [ClientsNext]_clientsVars => [AnswerSilent]_webVars
  BY PageInvSilent DEF ClientsNext, clientsVars
<1>2. ClientsSpec => [][AnswerSilent]_webVars
  BY <1>1, PageHolds, PTL DEF ClientsSpec
<1> QED
  BY <1>2, PTL DEF OlderAnswersSilent, Page!OlderAnswersSilent, AnswerSilent, webVars, Page!vars

-----------------------------------------------------------------------------
(* Billing: a service, or the snapshot of one, has the paid functions open *)
(* exactly while it has a plan that is current, up to the time that passed *)
(* since; and what the server answered to the running operation names the  *)
(* subscription, unless the installation got another identity meanwhile.   *)

Plans == [kind : {"free", "pro"}, until : Nat, expires : Nat]
Services == [status : {"loading", "free", "pro_verified", "pro_verification_needed"},
             active : BOOLEAN, plan : Plans \cup {Nothing}, allowance : {Nothing, "free", "pro"}]
Operations == [kind : {"load", "purchase", "restore"},
               step : {"configure", "sheet", "sync", "apply"}, answer : Plans \cup {Nothing}]

BillingTypes ==
    /\ now \in Nat /\ identity \in Nat \ {0}
    /\ sub \in [owner : Nat, until : Nat]
    /\ configured \in 0 .. identity
    /\ service \in Services
    /\ snapshot # Nothing => snapshot.service \in Services
    /\ op # Nothing => op \in Operations /\ (op.step # "apply" => op.answer = Nothing)

Honest(s) ==
    /\ s.active => s.plan # Nothing /\ s.plan.kind = "pro" /\ s.allowance = "pro"
    /\ s.plan # Nothing /\ Purchases!Pro(s.plan) => s.active

AnswerNamesSub ==
    op # Nothing /\ op.step = "apply" /\ op.answer # Nothing
    /\ configured = identity /\ Purchases!Attributed(configured)
      => op.answer.kind = "pro" /\ op.answer.expires = sub.until

BillingInv ==
    /\ BillingTypes
    /\ Honest(service) /\ (snapshot # Nothing => Honest(snapshot.service))
    /\ AnswerNamesSub

LEMMA BillingInvInit == Purchases!Init => BillingInv
<1> SUFFICES ASSUME Purchases!Init
             PROVE  BillingInv
  OBVIOUS
<1> USE DEF Purchases!Init
<1>1. sub \in [owner : Nat, until : Nat]
  BY ClientsAssumption DEF Purchases!BillingAssumption
<1>2. service \in Services /\ Honest(service)
  BY DEF Services, Honest
<1> QED
  BY <1>1, <1>2 DEF BillingInv, BillingTypes, AnswerNamesSub

\* What the server answers, and what the client makes of an answer.
LEMMA AnswersTyped ==
    ASSUME BillingTypes
    PROVE  /\ Purchases!ServerPlan \in Plans
           /\ Purchases!Attributed(identity) => /\ Purchases!ServerPlan.kind = "pro"
                                               /\ Purchases!ServerPlan.expires = sub.until
           /\ \A plan \in Plans : /\ Purchases!Applied(plan) \in Services
                                  /\ Honest(Purchases!Applied(plan))
                                  /\ Purchases!Applied(plan).active = Purchases!Pro(plan)
           /\ \A shows : /\ Purchases!Unverified(shows) \in Services
                         /\ Honest(Purchases!Unverified(shows))
<1> USE DEF BillingTypes
<1>1. /\ Purchases!ServerPlan \in Plans
      /\ Purchases!Attributed(identity) => /\ Purchases!ServerPlan.kind = "pro"
                                          /\ Purchases!ServerPlan.expires = sub.until
  <2>1. now + PlanTtl \in Nat /\ sub.until \in Nat
    BY ClientsAssumption DEF Purchases!BillingAssumption
  <2>2. Purchases!SmallerOf(now + PlanTtl, sub.until) \in Nat
    BY <2>1 DEF Purchases!SmallerOf
  <2> QED
    BY <2>1, <2>2 DEF Purchases!ServerPlan, Plans
<1>2. ASSUME NEW plan \in Plans
      PROVE  /\ Purchases!Applied(plan) \in Services
             /\ Honest(Purchases!Applied(plan))
             /\ Purchases!Applied(plan).active = Purchases!Pro(plan)
  <2>1. Purchases!Pro(plan) \in BOOLEAN
    BY DEF Purchases!Pro
  <2>2. plan.kind \in {"free", "pro"}
    BY DEF Plans
  <2>3. Purchases!Pro(plan) => plan.kind = "pro" /\ plan # Nothing
    BY ClientsAssumption DEF Purchases!Pro, Purchases!BillingAssumption, Plans
  <2> QED
    BY <2>1, <2>2, <2>3 DEF Purchases!Applied, Services, Honest
<1>3. ASSUME NEW shows
      PROVE  /\ Purchases!Unverified(shows) \in Services
             /\ Honest(Purchases!Unverified(shows))
  BY DEF Purchases!Unverified, Services, Honest
<1> QED
  BY <1>1, <1>2, <1>3

LEMMA BillingInvStep == BillingInv /\ [Purchases!Next]_billingVars => BillingInv'
<1> SUFFICES ASSUME BillingInv, [Purchases!Next]_billingVars
             PROVE  BillingInv'
  OBVIOUS
<1>0. /\ BillingTypes /\ Honest(service) /\ (snapshot # Nothing => Honest(snapshot.service))
      /\ AnswerNamesSub
  BY DEF BillingInv
<1> USE <1>0
<1>1. ASSUME NEW kind \in {"load", "purchase", "restore"}, Purchases!Begin(kind)
      PROVE  BillingInv'
  BY <1>1 DEF BillingInv, BillingTypes, Operations, Honest, AnswerNamesSub, Purchases!Begin,
              Purchases!store, Purchases!Pro, Purchases!Current
<1>2. CASE Purchases!Configure
  BY <1>2 DEF BillingInv, BillingTypes, Operations, Honest, AnswerNamesSub, Purchases!Configure,
              Purchases!At, Purchases!Goes, Purchases!After, Purchases!store, Purchases!Pro,
              Purchases!Current
<1>3. CASE Purchases!ConfigureFails
  BY <1>3
  DEF BillingInv, BillingTypes, Honest, AnswerNamesSub, Purchases!ConfigureFails, Purchases!At,
      Purchases!Ends, Purchases!store, Purchases!Pro, Purchases!Current, Purchases!Snapshot,
      Purchases!Unverified, Services
<1>4. CASE Purchases!Buys
  <2>1. /\ configured \in Nat /\ now + Period \in Nat
    BY ClientsAssumption DEF Purchases!BillingAssumption, BillingTypes
  <2>2. sub' \in [owner : Nat, until : Nat]
    BY <1>4, <2>1 DEF Purchases!Buys
  <2>3. op' \in Operations /\ op'.step = "sync" /\ op'.answer = Nothing
    BY <1>4 DEF Purchases!Buys, Purchases!At, Operations, BillingTypes
  <2> QED
    BY <1>4, <2>2, <2>3 DEF Purchases!Buys, BillingInv, BillingTypes, Honest, AnswerNamesSub,
                            Purchases!Pro, Purchases!Current
<1>5. CASE Purchases!Restores
  <2>1. sub' \in [owner : Nat, until : Nat]
    BY <1>5 DEF Purchases!Restores, BillingTypes
  <2>2. op' \in Operations /\ op'.step = "sync" /\ op'.answer = Nothing
    BY <1>5 DEF Purchases!Restores, Purchases!At, Operations, BillingTypes
  <2> QED
    BY <1>5, <2>1, <2>2 DEF Purchases!Restores, BillingInv, BillingTypes, Honest, AnswerNamesSub,
                            Purchases!Pro, Purchases!Current
<1>6. CASE Purchases!SheetFails
  BY <1>6 DEF BillingInv, BillingTypes, Honest, AnswerNamesSub, Purchases!SheetFails,
              Purchases!Ends, Purchases!store, Purchases!Pro, Purchases!Current
<1>7. CASE Purchases!Synced
  <2>1. op' \in Operations /\ op'.step = "apply" /\ op'.answer = Purchases!ServerPlan
    BY <1>7, AnswersTyped DEF Purchases!Synced, Purchases!At, Operations, BillingTypes
  <2>2. AnswerNamesSub'
    BY <1>7, <2>1, AnswersTyped DEF Purchases!Synced, Purchases!store, AnswerNamesSub,
                                    Purchases!Attributed, Purchases!Lasts
  <2> QED
    BY <1>7, <2>1, <2>2 DEF Purchases!Synced, Purchases!store, BillingInv, BillingTypes, Honest,
                            Purchases!Pro, Purchases!Current
<1>8. CASE Purchases!SyncFails
  BY <1>8 DEF BillingInv, BillingTypes, Operations, Honest, AnswerNamesSub, Purchases!SyncFails,
              Purchases!At, Purchases!Goes, Purchases!store, Purchases!Pro, Purchases!Current
<1>9. CASE Purchases!Told
  <2>1. op.answer \in Plans \cup {Nothing}
    BY <1>9 DEF Purchases!Told, Purchases!At, Operations, BillingTypes
  <2>2. PICK s \in Services :
          /\ Honest(s)
          /\ service' = s /\ snapshot'.service = s /\ op' = Nothing
          /\ UNCHANGED <<now, sub, identity, configured>>
    BY <1>9, <2>1, AnswersTyped
    DEF Purchases!Told, Purchases!Publish, Purchases!Snapshot, Purchases!store
  <2> QED
    BY <2>2 DEF BillingInv, BillingTypes, Honest, AnswerNamesSub, Purchases!Pro,
                Purchases!Current
<1>10. CASE Purchases!Refreshed
  <2>1. op.answer \in Plans \cup {Nothing}
    BY <1>10 DEF Purchases!Refreshed, Purchases!At, Operations, BillingTypes
  <2>2. PICK s \in Services :
          /\ Honest(s)
          /\ service' = s /\ snapshot'.service = s /\ op' = Nothing
          /\ UNCHANGED <<now, sub, identity, configured>>
    BY <1>10, <2>1, AnswersTyped
    DEF Purchases!Refreshed, Purchases!Publish, Purchases!Snapshot, Purchases!store,
        Purchases!Ends
  <2> QED
    BY <2>2 DEF BillingInv, BillingTypes, Honest, AnswerNamesSub, Purchases!Pro,
                Purchases!Current
<1>11. CASE Purchases!Tick
  BY <1>11
  DEF Purchases!Tick, BillingInv, BillingTypes, Services, Plans, Honest, AnswerNamesSub,
      Purchases!Pro, Purchases!Current, Purchases!Attributed, Purchases!Lasts
<1>12. CASE Purchases!Reissue
  BY <1>12 DEF BillingInv, BillingTypes, Honest, AnswerNamesSub, Purchases!Reissue,
               Purchases!Pro, Purchases!Current
<1>13. CASE Purchases!Relaunch
  BY <1>13 DEF BillingInv, BillingTypes, Services, Honest, AnswerNamesSub, Purchases!Relaunch,
               Purchases!store
<1>14. CASE UNCHANGED billingVars
  BY <1>14 DEF billingVars, BillingInv, BillingTypes, Honest, AnswerNamesSub, Purchases!Pro,
               Purchases!Current, Purchases!Attributed, Purchases!Lasts
<1> QED
  BY <1>1, <1>2, <1>3, <1>4, <1>5, <1>6, <1>7, <1>8, <1>9, <1>10, <1>11, <1>12, <1>13, <1>14
  DEF Purchases!Next

LEMMA BillingHolds == ClientsSpec => []BillingInv
<1>1. ClientsInit => BillingInv
  BY BillingInvInit DEF ClientsInit
<1>2. BillingInv /\ [ClientsNext]_clientsVars => BillingInv'
  BY BillingInvStep DEF ClientsNext, clientsVars
<1> QED
  BY <1>1, <1>2, PTL DEF ClientsSpec

\* Nothing paid for is open without a plan that the server verified, and the
\* workspace opens only for a plan the rest of the app shows (applyVerifiedPlan).
THEOREM ProNeedsAPlan == ClientsSpec => []ProNeedsActivePlan
<1>1. BillingInv => ProNeedsActivePlan
  BY DEF BillingInv, Honest, ProNeedsActivePlan, Purchases!ProNeedsActivePlan,
         Purchases!ReportsPro, Purchases!WorkspacePro
<1> QED
  BY <1>1, BillingHolds, PTL

Activates ==
    /\ Purchases!At({"purchase", "restore"}, "apply") /\ op' = Nothing /\ snapshot' # Nothing
    /\ op.answer # Nothing /\ configured = identity /\ Purchases!Attributed(configured)
    /\ now < op.answer.until
    => Purchases!ReportsPro'

LEMMA BillingInvActivates == BillingInv /\ [Purchases!Next]_billingVars => [Activates]_billingVars
<1> SUFFICES ASSUME BillingInv, Purchases!Next,
                    Purchases!At({"purchase", "restore"}, "apply"), op' = Nothing,
                    snapshot' # Nothing, op.answer # Nothing, configured = identity,
                    Purchases!Attributed(configured), now < op.answer.until
             PROVE  Purchases!ReportsPro'
  BY DEF billingVars, Activates
<1>1. Purchases!Refreshed
  BY DEF Purchases!Next, Purchases!At, Purchases!Begin, Purchases!Configure, Purchases!Goes,
         Purchases!ConfigureFails, Purchases!Buys, Purchases!Restores, Purchases!SheetFails,
         Purchases!Synced, Purchases!SyncFails, Purchases!Told, Purchases!Tick,
         Purchases!Reissue, Purchases!Relaunch
<1>2. op.answer \in Plans /\ Purchases!Pro(op.answer)
  BY DEF BillingInv, BillingTypes, Operations, AnswerNamesSub, Purchases!At, Purchases!Pro,
         Purchases!Current, Purchases!Attributed, Purchases!Lasts
<1> QED
  BY <1>1, <1>2, AnswersTyped
  DEF BillingInv, Purchases!Refreshed, Purchases!Publish, Purchases!Snapshot,
      Purchases!ReportsPro

\* A purchase or a restore for the identity that the installation has still ends
\* with the paid functions open, if the server could be asked and the
\* subscription lasts (refreshVerifiedPlan).
THEOREM PurchasesActivate == ClientsSpec => PurchaseActivates
<1>1. BillingInv /\ [ClientsNext]_clientsVars => [Activates]_billingVars
  BY BillingInvActivates DEF ClientsNext, clientsVars
<1>2. ClientsSpec => [][Activates]_billingVars
  BY <1>1, BillingHolds, PTL DEF ClientsSpec
<1> QED
  BY <1>2, PTL DEF PurchaseActivates, Purchases!PurchaseActivates, Activates, billingVars,
                   Purchases!vars

-----------------------------------------------------------------------------
(* ReportStore: one repository at a time writes the file, from a snapshot  *)
(* that is the file still; a file whose version is the second is wholly so,*)
(* and it is before anything is asked of a repository.                     *)

Files == [user : Nat, table : Nat, meta : Nat, index : BOOLEAN, rowv : Nat, rows : SUBSET Reports]
Asked == Repository!Operations \cup {Repository!Initialize, Repository!Op("close", Nothing, 0)}

StoreTypes ==
    /\ reports \in Files
    /\ work \in [Repos -> Files \cup {Nothing}]
    /\ called \in [Repos -> Seq(Asked)]
    /\ stage \in [Repos -> {"idle", "begin", "joined", "lock", "counted", "written", "cleaning"}]
    /\ handle \in [Repos -> {"none", "open", "ready", "closed"}]

Genuine(d) == d.user = 2 => d = Repository!Schema(2, d.rows)

\* The second version is there before anything is asked of a repository.
Used(q) == \E i \in DOMAIN q : q[i] \in Repository!Operations
MigratedFirst ==
    \A r \in Repos : handle[r] = "ready" \/ Used(called[r]) => reports.user = 2

SnapshotSound(r) ==
    /\ stage[r] # "idle" => called[r] # <<>>
    /\ stage[r] = "lock" => work[r] = reports
    /\ stage[r] = "counted" =>
         /\ work[r] # Nothing
         /\ Head(called[r]).kind = "save" =>
              Cardinality(work[r].rows) < Head(called[r]).cap
    /\ stage[r] = "written" =>
         /\ Head(called[r]).id \in Reports
         /\ work[r] = [reports EXCEPT !.rows = @ \cup {Head(called[r]).id}]
         /\ Cardinality(reports.rows) < Head(called[r]).cap
    /\ stage[r] = "cleaning" => work[r] = [reports EXCEPT !.rows = {}]

Writing(r) == stage[r] \in {"lock", "written", "cleaning"}
OneWriter == \A q, r \in Repos : Writing(q) /\ Writing(r) => q = r

StoreInv ==
    /\ StoreTypes
    /\ Genuine(reports) /\ (\A r \in Repos : work[r] # Nothing => Genuine(work[r]))
    /\ MigratedFirst
    /\ \A r \in Repos : SnapshotSound(r)
    /\ OneWriter

\* An instance has symbols of its own for what its module extends.
LEMMA SameReportCounting ==
    \A S : /\ Repository!IsFiniteSet(S) = IsFiniteSet(S)
           /\ Repository!Cardinality(S) = Cardinality(S)
BY DEF IsFiniteSet, Repository!IsFiniteSet, Cardinality, Repository!Cardinality

LEMMA StoreInvInit == Repository!Init => StoreInv
<1> SUFFICES ASSUME Repository!Init
             PROVE  StoreInv
  OBVIOUS
<1>1. reports \in Files /\ Genuine(reports)
  <2>1. ASSUME NEW version \in Nat, NEW rows \in SUBSET Reports
        PROVE  /\ Repository!Schema(version, rows) \in Files
               /\ Repository!Schema(version, rows).user = version
               /\ Genuine(Repository!Schema(version, rows))
    BY DEF Repository!Schema, Files, Genuine
  <2>2. \A d \in Files, n \in {0, 3} : [d EXCEPT !.user = n] \in Files /\ Genuine([d EXCEPT !.user = n])
    BY DEF Files, Genuine
  <2>3. ASSUME NEW d \in Files, d.user = 1
        PROVE  [d EXCEPT !.index = TRUE] \in Files /\ Genuine([d EXCEPT !.index = TRUE])
    <3> DEFINE e == [d EXCEPT !.index = TRUE]
    <3>1. e \in Files
      BY DEF Files
    <3>2. e.user = 1
      BY <2>3 DEF Files
    <3> QED
      BY <3>1, <3>2 DEF Genuine
  <2>4. ASSUME NEW d \in Repository!Met
        PROVE  d \in Files /\ Genuine(d)
    <3>1. CASE d = Repository!Schema(0, {})
      BY <2>1, <3>1
    <3>2. ASSUME NEW i \in Reports, d \in {Repository!Schema(1, {i}), Repository!Schema(2, {i})}
          PROVE  d \in Files /\ Genuine(d)
      BY <2>1, <3>2
    <3>3. CASE d = [Repository!Schema(2, Reports) EXCEPT !.user = 3]
      BY <2>1, <2>2, <3>3
    <3>4. CASE d = [Repository!Schema(1, Reports) EXCEPT !.user = 0]
      BY <2>1, <2>2, <3>4
    <3>5. CASE d = [Repository!Schema(1, Reports) EXCEPT !.index = TRUE]
      BY <2>1, <2>3, <3>5
    <3> QED
      BY <3>1, <3>2, <3>3, <3>4, <3>5 DEF Repository!Met
  <2> QED
    BY <2>4 DEF Repository!Init
<1> QED
  BY <1>1 DEF Repository!Init, StoreInv, StoreTypes, MigratedFirst, Used, SnapshotSound,
              OneWriter, Writing

LEMMA TailFacts ==
    ASSUME NEW q \in Seq(Asked), q # <<>>
    PROVE  /\ Head(q) \in Asked /\ Tail(q) \in Seq(Asked) /\ Tail(q) # q
           /\ Used(Tail(q)) => Used(q)
           /\ Head(q) \in Repository!Operations => Used(q)
<1>1. /\ Head(q) = q[1] /\ 1 \in DOMAIN q
      /\ Head(q) \in Asked /\ Tail(q) \in Seq(Asked) /\ Len(Tail(q)) = Len(q) - 1
      /\ \A i \in DOMAIN Tail(q) : i + 1 \in DOMAIN q /\ Tail(q)[i] = q[i + 1]
  OBVIOUS
<1>2. ASSUME Tail(q) = q
      PROVE  FALSE
  <2>1. Len(q) \in Nat
    OBVIOUS
  <2>2. Len(q) = Len(q) - 1
    BY <1>1, <1>2, Zenon
  <2> QED
    BY <2>1, <2>2
<1> QED
  BY <1>1, <1>2 DEF Used

LEMMA AppendFacts ==
    ASSUME NEW q \in Seq(Asked), NEW x \in Asked
    PROVE  /\ Append(q, x) \in Seq(Asked)
           /\ q # <<>> => Append(q, x) # <<>> /\ Head(Append(q, x)) = Head(q)
           /\ Used(Append(q, x)) => Used(q) \/ x \in Repository!Operations
BY DEF Used

LEMMA RowsReplaced ==
    ASSUME NEW d \in Files, NEW rows \in SUBSET Reports
    PROVE  /\ [d EXCEPT !.rows = rows] \in Files
           /\ [d EXCEPT !.rows = rows].rows = rows
           /\ [d EXCEPT !.rows = rows].user = d.user
           /\ Genuine(d) => Genuine([d EXCEPT !.rows = rows])
<1> DEFINE e == [d EXCEPT !.rows = rows]
<1>1. e \in Files /\ e.rows = rows /\ e.user = d.user
  BY DEF Files
<1>2. ASSUME d = Repository!Schema(2, d.rows)
      PROVE  e = Repository!Schema(2, rows)
  BY <1>2 DEF Repository!Schema, Files
<1> QED
  BY <1>1, <1>2 DEF Genuine

LEMMA OneWriterAlone ==
    ASSUME StoreInv, NEW r \in Repos, ~Repository!WrittenByAnother(r) \/ Writing(r)
    PROVE  \A q \in Repos \ {r} : ~Writing(q)
<1>1. ASSUME NEW q \in Repos, Writing(q)
      PROVE  work[q] \in Files
  <2>1. reports \in Files /\ reports.rows \in SUBSET Reports
    BY DEF StoreInv, StoreTypes, Files
  <2>2. CASE stage[q] = "lock"
    BY <2>1, <2>2 DEF StoreInv, SnapshotSound
  <2>3. CASE stage[q] = "written"
    <3>1. /\ work[q] = [reports EXCEPT !.rows = @ \cup {Head(called[q]).id}]
          /\ reports.rows \cup {Head(called[q]).id} \in SUBSET Reports
      BY <2>1, <2>3 DEF StoreInv, SnapshotSound
    <3> QED
      BY <2>1, <3>1, RowsReplaced
  <2>4. CASE stage[q] = "cleaning"
    <3>1. work[q] = [reports EXCEPT !.rows = {}] /\ {} \in SUBSET Reports
      BY <2>4 DEF StoreInv, SnapshotSound
    <3> QED
      BY <2>1, <3>1, RowsReplaced
  <2> QED
    BY <1>1, <2>2, <2>3, <2>4 DEF Writing
<1>2. Nothing \notin Files
  BY ClientsAssumption DEF Repository!FileAssumption, Files
<1> QED
  BY <1>1, <1>2 DEF Repository!WrittenByAnother, Writing, StoreInv, OneWriter

\* A step of one repository: what the others hold stays sound.
LEMMA StepOfOne ==
    ASSUME StoreInv, NEW r \in Repos, StoreTypes', Genuine(reports'),
           reports.user = 2 => reports'.user = 2,
           \A q \in Repos \ {r} : /\ stage'[q] = stage[q] /\ work'[q] = work[q]
                                  /\ called'[q] = called[q] /\ handle'[q] = handle[q],
           work'[r] = Nothing \/ Genuine(work'[r]),
           handle'[r] = "ready" \/ Used(called'[r]) => reports'.user = 2,
           SnapshotSound(r)',
           reports' # reports \/ Writing(r)' => \A q \in Repos \ {r} : ~Writing(q)
    PROVE  StoreInv'
<1>1. MigratedFirst'
  BY DEF StoreInv, MigratedFirst
<1>2. \A q \in Repos : SnapshotSound(q)'
  BY DEF StoreInv, SnapshotSound, Writing
<1>3. OneWriter'
  BY DEF StoreInv, OneWriter, Writing
<1> QED
  BY <1>1, <1>2, <1>3 DEF StoreInv

LEMMA FlightEndsSound ==
    ASSUME StoreInv, NEW r \in Repos, NEW ok \in BOOLEAN, Repository!FlightEnds(r, ok),
           called[r] # <<>>, stage[r] \in {"begin", "lock"},
           reports' \in Files, Genuine(reports'), reports.user = 2 \/ ok => reports'.user = 2,
           reports' # reports => \A q \in Repos \ {r} : ~Writing(q)
    PROVE  StoreInv'
<1> DEFINE crew == {r} \cup {q \in Repos : stage[q] = "joined"}
<1>1. /\ called' = [q \in Repos |-> IF q \in crew THEN Tail(called[q]) ELSE called[q]]
      /\ stage' = [q \in Repos |-> IF q \in crew THEN "idle" ELSE stage[q]]
      /\ handle' = [q \in Repos |-> IF q \in crew /\ ok THEN "ready" ELSE handle[q]]
      /\ work' = [work EXCEPT ![r] = Nothing]
  BY DEF Repository!FlightEnds
<1>2. ASSUME NEW q \in Repos
      PROVE  /\ called[q] \in Seq(Asked) /\ (q \in crew => called[q] # <<>>)
             /\ called'[q] \in Seq(Asked) /\ (Used(called'[q]) => Used(called[q]))
  <2>1. called[q] \in Seq(Asked) /\ (q \in crew => called[q] # <<>>)
    BY DEF StoreInv, StoreTypes, SnapshotSound
  <2>2. CASE q \in crew
    <3>1. called'[q] = Tail(called[q])
      BY <1>1, <2>2
    <3> QED
      BY <2>1, <2>2, <3>1, TailFacts
  <2>3. CASE q \notin crew
    BY <1>1, <2>1, <2>3
  <2> QED
    BY <2>1, <2>2, <2>3
<1>3. StoreTypes'
  <2>1. called' \in [Repos -> Seq(Asked)]
    BY <1>1, <1>2
  <2> QED
    BY <1>1, <2>1 DEF StoreInv, StoreTypes
<1>4. MigratedFirst'
  BY <1>1, <1>2 DEF StoreInv, MigratedFirst
<1>5. ASSUME NEW q \in Repos
      PROVE  SnapshotSound(q)'
  <2>1. CASE q \in crew
    BY <1>1, <2>1 DEF SnapshotSound
  <2>2. CASE q \notin crew
    BY <1>1, <2>2 DEF StoreInv, StoreTypes, SnapshotSound, Writing
  <2> QED
    BY <2>1, <2>2
<1>6. OneWriter'
  BY <1>1 DEF StoreInv, OneWriter, Writing
<1> QED
  BY <1>1, <1>3, <1>4, <1>5, <1>6 DEF StoreInv, StoreTypes

\* The three ways to step one repository: a call is queued, an operation goes on,
\* or it is answered.
LEMMA CallOfOne ==
    ASSUME StoreInv, NEW r \in Repos, NEW o \in Asked,
           called' = [called EXCEPT ![r] = Append(@, o)],
           o \in Repository!Operations => handle[r] = "ready",
           UNCHANGED <<reports, work, stage, handle>>
    PROVE  StoreInv'
<1>1. StoreTypes' /\ called[r] \in Seq(Asked) /\ called'[r] = Append(called[r], o)
  BY AppendFacts DEF StoreInv, StoreTypes
<1>2. handle'[r] = "ready" \/ Used(called'[r]) => reports'.user = 2
  BY <1>1, AppendFacts DEF StoreInv, MigratedFirst
<1>3. SnapshotSound(r)'
  BY <1>1, AppendFacts DEF StoreInv, SnapshotSound
<1>4. \A q \in Repos \ {r} : called'[q] = called[q]
  BY DEF StoreInv, StoreTypes
<1> QED
  BY <1>1, <1>2, <1>3, <1>4, StepOfOne DEF StoreInv, Writing, OneWriter

LEMMA MoveOfOne ==
    ASSUME StoreInv, NEW r \in Repos, NEW to, NEW w \in Files \cup {Nothing},
           Repository!Moves(r, to, w),
           to \in {"idle", "begin", "joined", "lock", "counted", "written", "cleaning"},
           w = Nothing \/ Genuine(w),
           SnapshotSound(r)',
           to \in {"lock", "written", "cleaning"} => \A q \in Repos \ {r} : ~Writing(q)
    PROVE  StoreInv'
<1>1. StoreTypes' /\ stage'[r] = to /\ work'[r] = w
  BY DEF StoreInv, StoreTypes, Repository!Moves
<1>2. \A q \in Repos \ {r} : stage'[q] = stage[q] /\ work'[q] = work[q]
  BY DEF StoreInv, StoreTypes, Repository!Moves
<1> QED
  BY <1>1, <1>2, StepOfOne DEF StoreInv, MigratedFirst, Writing, Repository!Moves

LEMMA AnswerOfOne ==
    ASSUME StoreInv, NEW r \in Repos, called[r] # <<>>, Repository!Answered(r),
           reports' \in Files, Genuine(reports'), reports.user = 2 => reports'.user = 2,
           handle' = handle \/ handle' = [handle EXCEPT ![r] = "closed"],
           reports' # reports => \A q \in Repos \ {r} : ~Writing(q)
    PROVE  StoreInv'
<1>1. /\ StoreTypes' /\ stage'[r] = "idle" /\ work'[r] = Nothing
      /\ called'[r] = Tail(called[r]) /\ called[r] \in Seq(Asked)
      /\ handle'[r] = "ready" => handle[r] = "ready"
  <2>1. StoreTypes
    BY DEF StoreInv
  <2>2. called[r] \in Seq(Asked) /\ Tail(called[r]) \in Seq(Asked)
    BY <2>1, TailFacts DEF StoreTypes
  <2>3. /\ called' \in [Repos -> Seq(Asked)] /\ called'[r] = Tail(called[r])
        /\ stage'[r] = "idle" /\ work'[r] = Nothing
    BY <2>1, <2>2 DEF StoreTypes, Repository!Answered
  <2>4. handle' \in [Repos -> {"none", "open", "ready", "closed"}]
    BY <2>1 DEF StoreTypes
  <2>5. handle'[r] = "ready" => handle[r] = "ready"
    BY <2>1 DEF StoreTypes
  <2> QED
    BY <2>1, <2>2, <2>3, <2>4, <2>5 DEF StoreTypes, Repository!Answered
<1>2. \A q \in Repos \ {r} : /\ stage'[q] = stage[q] /\ work'[q] = work[q]
                             /\ called'[q] = called[q] /\ handle'[q] = handle[q]
  BY DEF StoreInv, StoreTypes, Repository!Answered
<1>3. handle'[r] = "ready" \/ Used(called'[r]) => reports'.user = 2
  <2>1. Used(Tail(called[r])) => Used(called[r])
    <3>1. called[r] \in Seq(Asked) /\ called[r] # <<>>
      BY <1>1
    <3> QED
      BY <3>1, TailFacts
  <2> QED
    BY <1>1, <2>1 DEF StoreInv, MigratedFirst
<1> QED
  BY <1>1, <1>2, <1>3, StepOfOne DEF StoreInv, SnapshotSound, Writing

LEMMA MigratedFacts ==
    ASSUME NEW d \in Files, Genuine(d), Repository!Migrated(d) # Nothing
    PROVE  /\ Repository!Migrated(d) \in Files /\ Genuine(Repository!Migrated(d))
           /\ Repository!Migrated(d).user = 2
           /\ Repository!Migrated(d).rows = d.rows
<1>1. \/ Repository!Migrated(d) = Repository!Schema(2, d.rows)
      \/ d.user = 2 /\ Repository!Migrated(d) = d
  BY DEF Repository!Migrated
<1>2. LET e == Repository!Schema(2, d.rows)
      IN  e \in Files /\ Genuine(e) /\ e.user = 2 /\ e.rows = d.rows
  BY DEF Repository!Schema, Files, Genuine
<1> QED
  BY <1>1, <1>2

LEMMA StoreInvStep == StoreInv /\ [Repository!Next]_reportVars => StoreInv'
<1> SUFFICES ASSUME StoreInv, [Repository!Next]_reportVars
             PROVE  StoreInv'
  OBVIOUS
<1>0. /\ reports \in Files /\ reports.rows \in SUBSET Reports /\ Genuine(reports)
      /\ \A r \in Repos : /\ work[r] # Nothing => work[r] \in Files /\ Genuine(work[r])
                          /\ called[r] # <<>> => Head(called[r]) \in Asked
      /\ Nothing \notin Files
  BY TailFacts, ClientsAssumption
  DEF StoreInv, StoreTypes, Files, Repository!FileAssumption
<1>1. ASSUME NEW r \in Repos, NEW o \in Repository!Operations, Repository!Call(r, o)
      PROVE  StoreInv'
  BY <1>1, CallOfOne DEF Repository!Call, Asked
<1>2. ASSUME NEW r \in Repos, Repository!CallInitialize(r)
      PROVE  StoreInv'
  BY <1>2, CallOfOne
  DEF Repository!CallInitialize, Asked, Repository!Operations, Repository!Initialize, Repository!Op
<1>3. ASSUME NEW r \in Repos, Repository!Close(r)
      PROVE  StoreInv'
  BY <1>3, CallOfOne DEF Repository!Close, Asked, Repository!Operations, Repository!Op
<1>4. ASSUME NEW r \in Repos, Repository!CloseHandle(r)
      PROVE  StoreInv'
  BY <1>4, <1>0, AnswerOfOne DEF Repository!CloseHandle, Repository!AtHead
<1>5. ASSUME NEW r \in Repos, Repository!Open(r)
      PROVE  StoreInv'
  <2>1. /\ handle'[r] = "open" /\ handle' \in [Repos -> {"none", "open", "ready", "closed"}]
        /\ \A q \in Repos \ {r} : handle'[q] = handle[q]
        /\ UNCHANGED <<reports, work, called, stage>>
    BY <1>5 DEF Repository!Open, StoreInv, StoreTypes
  <2> QED
    BY <2>1, StepOfOne DEF StoreInv, StoreTypes, MigratedFirst, SnapshotSound, Writing, OneWriter
<1>6. ASSUME NEW r \in Repos, Repository!Join(r)
      PROVE  StoreInv'
  <2>1. PICK to \in {"begin", "joined"} : Repository!Moves(r, to, Nothing)
    BY <1>6 DEF Repository!Join
  <2>2. stage'[r] = to /\ called' = called /\ called[r] # <<>>
    BY <1>6, <2>1 DEF Repository!Join, Repository!AtHead, Repository!Moves, StoreInv, StoreTypes
  <2>3. SnapshotSound(r)'
    BY <2>2 DEF SnapshotSound
  <2> QED
    BY <2>1, <2>3, MoveOfOne
<1>7. ASSUME NEW r \in Repos, Repository!Lock(r)
      PROVE  StoreInv'
  <2>1. /\ Repository!Moves(r, "lock", reports) /\ called[r] # <<>>
        /\ \A q \in Repos \ {r} : ~Writing(q)
    BY <1>7, OneWriterAlone DEF Repository!Lock, Repository!AtHead
  <2>2. SnapshotSound(r)'
    BY <2>1 DEF Repository!Moves, SnapshotSound, StoreInv, StoreTypes
  <2> QED
    BY <1>0, <2>1, <2>2, MoveOfOne
<1>8. ASSUME NEW r \in Repos, Repository!Migrate(r)
      PROVE  StoreInv'
  <2>1. /\ called[r] # <<>> /\ stage[r] = "lock" /\ Repository!FlightEnds(r, TRUE)
        /\ reports' = Repository!Migrated(work[r]) /\ reports' # Nothing
        /\ \A q \in Repos \ {r} : ~Writing(q)
    BY <1>8, OneWriterAlone DEF Repository!Migrate, Repository!AtHead, Writing
  <2>2. work[r] = reports
    BY <2>1 DEF StoreInv, SnapshotSound
  <2>3. reports' \in Files /\ Genuine(reports') /\ reports'.user = 2
    BY <1>0, <2>1, <2>2, MigratedFacts
  <2> QED
    BY <2>1, <2>3, FlightEndsSound
<1>9. ASSUME NEW r \in Repos, Repository!MigrationFails(r)
      PROVE  StoreInv'
  BY <1>0, <1>9, FlightEndsSound DEF Repository!MigrationFails, Repository!AtHead
<1>10. ASSUME NEW r \in Repos, Repository!Read(r) \/ Repository!Fails(r) \/ Repository!CleanupTimesOut(r)
       PROVE  StoreInv'
  BY <1>10, <1>0, AnswerOfOne
  DEF Repository!Read, Repository!Fails, Repository!CleanupTimesOut, Repository!AtHead,
      Repository!Refused
<1>11. ASSUME NEW r \in Repos, Repository!Count(r)
       PROVE  StoreInv'
  <2>1. /\ Repository!Moves(r, "counted", reports) /\ called[r] # <<>>
        /\ Head(called[r]).kind = "save" => Cardinality(reports.rows) < Head(called[r]).cap
    BY <1>11, SameReportCounting DEF Repository!Count, Repository!AtHead, Repository!Head1
  <2>2. SnapshotSound(r)'
    BY <1>0, <2>1 DEF Repository!Moves, SnapshotSound, StoreInv, StoreTypes
  <2> QED
    BY <1>0, <2>1, <2>2, MoveOfOne
<1>12. ASSUME NEW r \in Repos, Repository!Insert(r)
       PROVE  StoreInv'
  <2> DEFINE rows == reports.rows \cup {Head(called[r]).id}
             w == [reports EXCEPT !.rows = rows]
  <2>1. /\ Repository!Moves(r, "written", w) /\ called[r] # <<>>
        /\ Head(called[r]).kind = "save" /\ Head(called[r]) \in Asked
        /\ work[r] = reports /\ stage[r] = "counted"
        /\ \A q \in Repos \ {r} : ~Writing(q)
    BY <1>0, <1>12, OneWriterAlone
    DEF Repository!Insert, Repository!AtHead, Repository!Head1, Repository!MayWrite
  <2>2. Head(called[r]).id \in Reports
    BY <2>1 DEF Asked, Repository!Operations, Repository!Initialize, Repository!Op
  <2>3. Cardinality(reports.rows) < Head(called[r]).cap
    BY <2>1 DEF StoreInv, SnapshotSound
  <2>4. SnapshotSound(r)'
    BY <2>1, <2>2, <2>3 DEF Repository!Moves, SnapshotSound, StoreInv, StoreTypes
  <2>5. w \in Files /\ Genuine(w)
    BY <1>0, <2>2, RowsReplaced
  <2> QED
    BY <2>1, <2>4, <2>5, MoveOfOne
<1>13. ASSUME NEW r \in Repos, Repository!Commit(r)
       PROVE  StoreInv'
  <2>1. /\ called[r] # <<>> /\ Repository!Answered(r) /\ handle' = handle
        /\ reports' = work[r] /\ stage[r] = "written"
    BY <1>13 DEF Repository!Commit, Repository!AtHead
  <2>2. /\ reports' = [reports EXCEPT !.rows = @ \cup {Head(called[r]).id}]
        /\ Head(called[r]).id \in Reports
        /\ \A q \in Repos \ {r} : ~Writing(q)
    BY <2>1, OneWriterAlone DEF StoreInv, SnapshotSound, Writing
  <2>3. reports' \in Files /\ Genuine(reports') /\ reports'.user = reports.user
    BY <1>0, <2>2, RowsReplaced
  <2> QED
    BY <2>1, <2>2, <2>3, AnswerOfOne
<1>14. ASSUME NEW r \in Repos, Repository!Delete(r)
       PROVE  StoreInv'
  <2>1. /\ called[r] # <<>> /\ Repository!Answered(r) /\ handle' = handle
        /\ reports' = [reports EXCEPT !.rows = @ \ {Head(called[r]).id}]
        /\ \A q \in Repos \ {r} : ~Writing(q)
    BY <1>14, OneWriterAlone DEF Repository!Delete, Repository!AtHead, Repository!Head1
  <2>2. reports' \in Files /\ Genuine(reports') /\ reports'.user = reports.user
    BY <1>0, <2>1, RowsReplaced
  <2> QED
    BY <2>1, <2>2, AnswerOfOne
<1>15. ASSUME NEW r \in Repos, Repository!DeleteRows(r)
       PROVE  StoreInv'
  <2> DEFINE w == [reports EXCEPT !.rows = {}]
  <2>1. /\ Repository!Moves(r, "cleaning", w) /\ called[r] # <<>>
        /\ \A q \in Repos \ {r} : ~Writing(q)
    BY <1>15, OneWriterAlone DEF Repository!DeleteRows, Repository!AtHead, Repository!MayWrite
  <2>2. SnapshotSound(r)'
    BY <2>1 DEF Repository!Moves, SnapshotSound, StoreInv, StoreTypes
  <2>3. w \in Files /\ Genuine(w)
    BY <1>0, {} \in SUBSET Reports, RowsReplaced
  <2> QED
    BY <2>1, <2>2, <2>3, MoveOfOne
<1>16. ASSUME NEW r \in Repos, Repository!CleanupVerified(r)
       PROVE  StoreInv'
  <2>1. /\ called[r] # <<>> /\ Repository!Answered(r) /\ handle' = handle
        /\ reports' = work[r] /\ stage[r] = "cleaning"
    BY <1>16 DEF Repository!CleanupVerified, Repository!AtHead
  <2>2. /\ reports' = [reports EXCEPT !.rows = {}]
        /\ \A q \in Repos \ {r} : ~Writing(q)
    BY <2>1, OneWriterAlone DEF StoreInv, SnapshotSound, Writing
  <2>3. reports' \in Files /\ Genuine(reports') /\ reports'.user = reports.user
    BY <1>0, <2>2, {} \in SUBSET Reports, RowsReplaced
  <2> QED
    BY <2>1, <2>2, <2>3, AnswerOfOne
<1>17. ASSUME NEW r \in Repos, Repository!CleanupUnverified(r)
       PROVE  StoreInv'
  BY <1>17, <1>0, AnswerOfOne
  DEF Repository!CleanupUnverified, Repository!RolledBack, Repository!AtHead
<1>18. CASE Repository!Sweep
  BY <1>18
  DEF Repository!Sweep, StoreInv, StoreTypes, MigratedFirst, SnapshotSound, Writing, OneWriter
<1>19. CASE Repository!Kill
  <2>1. StoreTypes'
    BY <1>19 DEF Repository!Kill, StoreInv, StoreTypes
  <2> QED
    BY <1>19, <2>1
    DEF Repository!Kill, StoreInv, MigratedFirst, Used, SnapshotSound, Writing, OneWriter
<1>20. CASE UNCHANGED reportVars
  BY <1>20
  DEF reportVars, StoreInv, StoreTypes, MigratedFirst, SnapshotSound, Writing, OneWriter
<1> QED
  BY <1>1, <1>2, <1>3, <1>4, <1>5, <1>6, <1>7, <1>8, <1>9, <1>10, <1>11, <1>12, <1>13, <1>14,
     <1>15, <1>16, <1>17, <1>18, <1>19, <1>20
  DEF Repository!Next, Repository!Step

LEMMA StoreHolds == ClientsSpec => []StoreInv
<1>1. ClientsInit => StoreInv
  BY StoreInvInit DEF ClientsInit
<1>2. StoreInv /\ [ClientsNext]_clientsVars => StoreInv'
  BY StoreInvStep DEF ClientsNext, clientsVars
<1> QED
  BY <1>1, <1>2, PTL DEF ClientsSpec

LEMMA StoreInvMigrated == StoreInv => Repository!ReadyMeansMigrated
<1> SUFFICES ASSUME StoreInv, NEW r \in Repos, handle[r] = "ready"
             PROVE  Repository!AttestedAs(2, reports) /\ reports.rowv = 2
  BY DEF Repository!ReadyMeansMigrated
<1>1. reports = Repository!Schema(2, reports.rows)
  BY DEF StoreInv, MigratedFirst, Genuine
<1> QED
  BY <1>1 DEF Repository!AttestedAs, Repository!Schema

\* What a step does to the rows: nothing; one row more by a save within its plan;
\* one less by its deletion; none left by a deleteAll that saw the copies deleted.
RowsStay == reports'.rows = reports.rows
RowSaved(r) ==
    /\ called[r] # <<>> /\ called'[r] # called[r]
    /\ reports'.rows = reports.rows \cup {Head(called[r]).id}
    /\ Head(called[r]).cap \in Nat /\ Cardinality(reports.rows) < Head(called[r]).cap
RowDeleted(r) ==
    /\ called[r] # <<>>
    /\ Head(called[r]) = Repository!Op("delete", Head(called[r]).id, 0)
    /\ reports'.rows = reports.rows \ {Head(called[r]).id}
RowsCleared(r) ==
    /\ called[r] # <<>> /\ Head(called[r]).kind = "deleteAll" /\ copies = {}
    /\ reports'.rows = {}
RowsChange == RowsStay \/ \E r \in Repos : RowSaved(r) \/ RowDeleted(r) \/ RowsCleared(r)

LEMMA StoreInvRows == StoreInv /\ [Repository!Next]_reportVars => RowsChange
<1> SUFFICES ASSUME StoreInv, [Repository!Next]_reportVars, ~RowsStay
             PROVE  \E r \in Repos : RowSaved(r) \/ RowDeleted(r) \/ RowsCleared(r)
  BY DEF RowsChange
<1>0. /\ reports \in Files /\ reports.rows \in SUBSET Reports /\ Genuine(reports)
      /\ called \in [Repos -> Seq(Asked)]
  BY DEF StoreInv, StoreTypes, Files
<1>1. PICK r \in Repos : \/ Repository!Migrate(r) \/ Repository!Commit(r)
                         \/ Repository!Delete(r) \/ Repository!CleanupVerified(r)
  BY DEF RowsStay, Repository!Next, Repository!Step, reportVars, Repository!Call,
         Repository!CallInitialize, Repository!Close, Repository!CloseHandle, Repository!Open,
         Repository!Join, Repository!Lock, Repository!MigrationFails, Repository!Read,
         Repository!Fails, Repository!Count, Repository!Insert, Repository!DeleteRows,
         Repository!CleanupUnverified, Repository!RolledBack, Repository!CleanupTimesOut,
         Repository!Refused, Repository!Moves, Repository!Sweep, Repository!Kill
<1>2. CASE Repository!Migrate(r)
  <2>1. reports' = Repository!Migrated(reports) /\ reports' # Nothing
    BY <1>2 DEF Repository!Migrate, Repository!AtHead, StoreInv, SnapshotSound
  <2> QED
    BY <1>0, <2>1, MigratedFacts DEF RowsStay
<1>3. CASE Repository!Commit(r)
  <2>1. /\ called[r] # <<>> /\ called'[r] = Tail(called[r]) /\ Head(called[r]).kind = "save"
        /\ reports' = work[r] /\ stage[r] = "written"
    BY <1>0, <1>3 DEF Repository!Commit, Repository!AtHead, Repository!Answered, Repository!Head1
  <2>2. /\ reports' = [reports EXCEPT !.rows = @ \cup {Head(called[r]).id}]
        /\ Head(called[r]).id \in Reports
        /\ Cardinality(reports.rows) < Head(called[r]).cap
    BY <2>1 DEF StoreInv, SnapshotSound
  <2>3. reports'.rows = reports.rows \cup {Head(called[r]).id}
    BY <1>0, <2>2, RowsReplaced
  <2>4. called'[r] # called[r] /\ Head(called[r]) \in Asked
    BY <1>0, <2>1, TailFacts
  <2>5. Head(called[r]).cap \in Nat
    <3>1. Head(called[r]).cap \in Caps
      BY <2>1, <2>4 DEF Asked, Repository!Operations, Repository!Initialize, Repository!Op
    <3>2. Caps \subseteq Nat
      BY ClientsAssumption DEF Repository!FileAssumption
    <3> QED
      BY <3>1, <3>2
  <2> QED
    BY <2>1, <2>2, <2>3, <2>4, <2>5 DEF RowSaved
<1>4. CASE Repository!Delete(r)
  <2>1. /\ called[r] # <<>> /\ Head(called[r]).kind = "delete" /\ Head(called[r]) \in Asked
        /\ reports' = [reports EXCEPT !.rows = @ \ {Head(called[r]).id}]
    BY <1>0, <1>4, TailFacts DEF Repository!Delete, Repository!AtHead, Repository!Head1
  <2>2. Head(called[r]) = Repository!Op("delete", Head(called[r]).id, 0)
    BY <2>1 DEF Asked, Repository!Operations, Repository!Initialize, Repository!Op
  <2>3. reports'.rows = reports.rows \ {Head(called[r]).id}
    BY <1>0, <2>1, RowsReplaced
  <2> QED
    BY <2>1, <2>2, <2>3 DEF RowDeleted
<1>5. CASE Repository!CleanupVerified(r)
  <2>1. /\ called[r] # <<>> /\ Head(called[r]).kind = "deleteAll" /\ copies = {}
        /\ reports' = work[r] /\ stage[r] = "cleaning"
    BY <1>5 DEF Repository!CleanupVerified, Repository!AtHead, Repository!Head1
  <2>2. reports' = [reports EXCEPT !.rows = {}]
    BY <2>1 DEF StoreInv, SnapshotSound
  <2>3. reports'.rows = {}
    BY <1>0, <2>2, {} \in SUBSET Reports, RowsReplaced
  <2> QED
    BY <2>1, <2>3 DEF RowsCleared
<1> QED
  BY <1>1, <1>2, <1>3, <1>4, <1>5

LEMMA RowsAlwaysChange == ClientsSpec => [][RowsChange]_reportVars
<1>1. StoreInv /\ [ClientsNext]_clientsVars => [RowsChange]_reportVars
  BY StoreInvRows DEF ClientsNext, clientsVars
<1> QED
  BY <1>1, StoreHolds, PTL DEF ClientsSpec

\* A report leaves the file only by its own deletion, or by a deletion of all
\* that saw the copies of the PDFs deleted (deleteAll).
THEOREM NoReportLost == ClientsSpec => NothingLost
<1>1. RowsChange => \A i \in reports.rows \ reports'.rows : \E r \in Repos :
                      /\ called[r] # <<>>
                      /\ \/ Repository!Head1(r) = Repository!Op("delete", i, 0)
                         \/ Repository!Head1(r).kind = "deleteAll" /\ copies = {}
  BY DEF RowsChange, RowsStay, RowSaved, RowDeleted, RowsCleared, Repository!Head1
<1> QED
  BY <1>1, RowsAlwaysChange, PTL DEF NothingLost, Repository!NothingLost, reportVars,
                                     Repository!vars

\* Whatever a step does, it adds a row only within the plan of a save.
LEMMA RowsWithinCap ==
    ASSUME StoreInv, RowsChange,
           Repository!Cardinality(reports'.rows) > Repository!Cardinality(reports.rows)
    PROVE  \E r \in Repos : /\ called[r] # <<>> /\ called'[r] # called[r]
                            /\ Repository!Cardinality(reports'.rows) <= Repository!Head1(r).cap
<1>1. /\ IsFiniteSet(reports.rows) /\ Cardinality(reports.rows) \in Nat
      /\ Cardinality(reports'.rows) > Cardinality(reports.rows)
  <2>1. reports.rows \in SUBSET Reports /\ IsFiniteSet(Reports)
    BY ClientsAssumption, SameReportCounting
    DEF StoreInv, StoreTypes, Files, Repository!FileAssumption
  <2> QED
    BY <2>1, SameReportCounting, FS_Subset, FS_CardinalityType
<1>2. ASSUME NEW r \in Repos, RowDeleted(r) \/ RowsCleared(r)
      PROVE  FALSE
  <2>1. reports'.rows \in SUBSET reports.rows
    BY <1>2 DEF RowDeleted, RowsCleared
  <2>2. Cardinality(reports'.rows) <= Cardinality(reports.rows) /\ Cardinality(reports'.rows) \in Nat
    BY <1>1, <2>1, FS_Subset, FS_CardinalityType
  <2> QED
    BY <1>1, <2>2
<1>3. PICK r \in Repos : RowSaved(r)
  BY <1>1, <1>2 DEF RowsChange, RowsStay
<1>4. Cardinality(reports'.rows) <= Head(called[r]).cap
  <2>1. Cardinality(reports'.rows) \in {Cardinality(reports.rows), Cardinality(reports.rows) + 1}
    BY <1>1, <1>3, FS_AddElement DEF RowSaved
  <2> QED
    BY <1>1, <1>3, <2>1 DEF RowSaved
<1> QED
  BY <1>3, <1>4, SameReportCounting DEF RowSaved, Repository!Head1

LEMMA CapsOfReports == ClientsSpec => Repository!CapRespected
<1>1. StoreInv /\ RowsChange =>
        (Repository!Cardinality(reports'.rows) > Repository!Cardinality(reports.rows) =>
           \E r \in Repos : /\ called[r] # <<>> /\ called'[r] # called[r]
                            /\ Repository!Cardinality(reports'.rows) <= Repository!Head1(r).cap)
  BY RowsWithinCap
<1> QED
  BY <1>1, StoreHolds, RowsAlwaysChange, PTL
  DEF Repository!CapRespected, reportVars, Repository!vars

-----------------------------------------------------------------------------
(* Workspace: what the transaction of the running operation has written so *)
(* far, and that names are used in the order in which they were issued: the*)
(* names of a call that waits are newer than those in the file and those of*)
(* the calls before it.                                                    *)

Spaces == [schema : {"none", "tables", "one", "other"},
           versions : SUBSET [id : Nat, latest : Nat],
           snapshots : SUBSET [id : Nat, of : Nat],
           jobs : SUBSET [id : Nat, link : Nat \cup {Nothing}]]
Requests ==
    [kind : {"saveVersion"}, id : Nat, snapshot : Nat, cap : Nat]
      \cup [kind : {"addSnapshot"}, id : Nat, snapshot : Nat]
      \cup [kind : {"deleteVersion", "deleteJob"}, id : Nat]
      \cup [kind : {"saveJob"}, id : Nat, link : Nat \cup {Nothing}, cap : Nat]
      \cup [kind : {"deleteAll", "initialize", "close"}]

SpaceTypes ==
    /\ space \in Spaces /\ IsFiniteSet(space.versions) /\ IsFiniteSet(space.jobs)
    /\ asked \in Seq(Requests) /\ statement \in 0 .. 3
    /\ issued \in Seq({"version", "snapshot", "job"})

\* A call that adds a snapshot, with the first name it was issued.
Naming(o) == o.kind \in {"saveVersion", "addSnapshot"}
First(o) == IF o.kind = "saveVersion" THEN o.id ELSE o.snapshot

NamesInOrder ==
    /\ \A v \in space.versions : v.id <= Len(issued)
    /\ \A s \in space.snapshots : s.id <= Len(issued)
    /\ \A i \in DOMAIN asked : Naming(asked[i]) =>
         /\ asked[i].snapshot <= Len(issued)
         /\ asked[i].kind = "saveVersion" => asked[i].snapshot = asked[i].id + 1
         /\ \A v \in space.versions : v.id < First(asked[i])
         /\ \A s \in space.snapshots : s.id < First(asked[i])
         /\ \A j \in DOMAIN asked : j < i /\ Naming(asked[j]) => asked[j].snapshot < First(asked[i])

Holds(d, versions, snapshots, jobs) ==
    d \in Spaces /\ d.versions = versions /\ d.snapshots = snapshots /\ d.jobs = jobs

WorkSound ==
    statement > 0 =>
      /\ asked # <<>>
      /\ LET o == Head(asked)
             V == space.versions
             S == space.snapshots
             J == space.jobs
         IN  \/ /\ o.kind = "initialize"
                /\ Holds(change, V, S, J)
             \/ /\ o.kind = "saveVersion"
                /\ Cardinality(V) < o.cap
                /\ Holds(change, V \cup {Space!Version(o.id, o.snapshot)},
                         IF statement = 1 THEN S ELSE S \cup {Space!Snapshot(o.snapshot, o.id)}, J)
             \/ /\ o.kind = "addSnapshot"
                /\ Space!With(V, o.id) # {}
                /\ Holds(change,
                         IF statement = 1 THEN V
                         ELSE (V \ Space!With(V, o.id)) \cup {Space!Version(o.id, o.snapshot)},
                         S \cup {Space!Snapshot(o.snapshot, o.id)}, J)
             \/ /\ o.kind = "deleteVersion"
                /\ Holds(change, IF statement = 3 THEN V \ Space!With(V, o.id) ELSE V,
                         IF statement = 1 THEN S ELSE S \ Space!SnapshotsOf(space, o.id),
                         Space!Unlinked(J))
             \/ /\ o.kind = "saveJob" /\ statement = 1
                /\ o.link = Nothing \/ Space!With(V, o.link) # {}
                /\ Space!With(J, o.id) = {} => Cardinality(J) < o.cap
                /\ Holds(change, V, S, (J \ Space!With(J, o.id)) \cup {Space!Job(o.id, o.link)})
             \/ /\ o.kind = "deleteJob" /\ statement = 1
                /\ Holds(change, V, S, J \ Space!With(J, o.id))
             \/ /\ o.kind = "deleteAll"
                /\ Holds(change, IF statement = 3 THEN {} ELSE V, IF statement = 1 THEN S ELSE {}, {})

SpaceInv == SpaceTypes /\ NamesInOrder /\ WorkSound /\ Space!ReferencesSound

LEMMA SameRowCounting == \A S : Space!Cardinality(S) = Cardinality(S)
BY DEF Cardinality, Space!Cardinality

LEMMA SpaceInvInit == Space!Init => SpaceInv
<1> SUFFICES ASSUME Space!Init
             PROVE  SpaceInv
  OBVIOUS
<1> DEFINE Contents(V, S, J) == /\ space \in Spaces
                                /\ space.versions = V /\ space.snapshots = S /\ space.jobs = J
<1>1. \/ Contents({}, {}, {}) /\ issued = <<>>
      \/ /\ Contents({Space!Version(1, 2)}, {Space!Snapshot(2, 1)}, {Space!Job(3, 1)})
         /\ issued = <<"version", "snapshot", "job">>
  <2>1. CASE space = Space!Empty /\ issued = <<>>
    BY <2>1 DEF Space!Empty, Spaces
  <2>2. CASE space \in {Space!Used, [Space!Used EXCEPT !.schema = "other"]}
    <3>1. Space!Used \in Spaces
      BY DEF Space!Used, Space!Version, Space!Snapshot, Space!Job, Spaces
    <3>2. [Space!Used EXCEPT !.schema = "other"] \in Spaces
      BY <3>1 DEF Spaces
    <3>3. Contents({Space!Version(1, 2)}, {Space!Snapshot(2, 1)}, {Space!Job(3, 1)})
      BY <2>2, <3>1, <3>2 DEF Space!Used
    <3> QED
      BY <2>2, <3>3 DEF Space!Init, Space!Used, Space!Empty
  <2> QED
    BY <2>1, <2>2 DEF Space!Init
<1>2. SpaceTypes
  <2>1. IsFiniteSet(space.versions) /\ IsFiniteSet(space.jobs)
    <3>1. CASE Contents({}, {}, {})
      BY <3>1, FS_EmptySet
    <3>2. CASE Contents({Space!Version(1, 2)}, {Space!Snapshot(2, 1)}, {Space!Job(3, 1)})
      <4>1. IsFiniteSet({Space!Version(1, 2)}) /\ IsFiniteSet({Space!Job(3, 1)})
        BY FS_Singleton, Zenon
      <4> QED
        BY <3>2, <4>1
    <3> QED
      BY <1>1, <3>1, <3>2
  <2>2. issued \in Seq({"version", "snapshot", "job"})
    <3>1. /\ <<>> \in Seq({"version", "snapshot", "job"})
          /\ <<"version", "snapshot", "job">> \in Seq({"version", "snapshot", "job"})
      OBVIOUS
    <3> QED
      BY <1>1, <3>1
  <2>4. asked = <<>> /\ statement = 0
    BY DEF Space!Init
  <2>3. space \in Spaces
    BY <1>1
  <2> QED
    BY <2>1, <2>2, <2>3, <2>4 DEF SpaceTypes
<1>3. NamesInOrder
  BY <1>1 DEF Space!Init, NamesInOrder, Space!Version, Space!Snapshot
<1>4. Space!ReferencesSound
  <2>1. CASE Contents({}, {}, {})
    BY <2>1 DEF Space!ReferencesSound
  <2>2. CASE Contents({Space!Version(1, 2)}, {Space!Snapshot(2, 1)}, {Space!Job(3, 1)})
    <3>1. Space!Version(1, 2) \in Space!With(space.versions, 1)
      BY <2>2 DEF Space!Version, Space!With
    <3>2. /\ \A v \in space.versions : v = Space!Version(1, 2) /\ v.id = 1 /\ v.latest = 2
          /\ \A s \in space.snapshots : s.id = 2 /\ s.of = 1
          /\ \A j \in space.jobs : j.link = 1
      BY <2>2 DEF Space!Version, Space!Snapshot, Space!Job
    <3> QED
      BY <2>2, <3>1, <3>2 DEF Space!ReferencesSound, Space!SnapshotsOf
  <2> QED
    BY <1>1, <2>1, <2>2
<1> QED
  BY <1>2, <1>3, <1>4 DEF SpaceInv, WorkSound, Space!Init

LEMMA RequestsTail ==
    ASSUME NEW q \in Seq(Requests), q # <<>>
    PROVE  /\ Head(q) \in Requests /\ Tail(q) \in Seq(Requests)
           /\ 1 \in DOMAIN q /\ Head(q) = q[1]
           /\ \A i \in DOMAIN Tail(q) : /\ i + 1 \in DOMAIN q /\ Tail(q)[i] = q[i + 1]
                                        /\ i \in Nat /\ i > 0
OBVIOUS

LEMMA RequestsAppend ==
    ASSUME NEW q \in Seq(Requests), NEW o \in Requests
    PROVE  /\ Append(q, o) \in Seq(Requests) /\ Append(q, o) # <<>>
           /\ q # <<>> => Head(Append(q, o)) = Head(q)
           /\ \A i \in DOMAIN Append(q, o) :
                \/ i \in DOMAIN q /\ Append(q, o)[i] = q[i]
                \/ i = Len(q) + 1 /\ Append(q, o)[i] = o
           /\ \A i \in DOMAIN q : i \in Nat /\ i <= Len(q)
           /\ Len(q) \in Nat
OBVIOUS

LEMMA NamesTyped ==
    ASSUME SpaceTypes
    PROVE  /\ \A o \in Requests : Naming(o) => o.snapshot \in Nat /\ First(o) \in Nat
           /\ \A i \in DOMAIN asked : asked[i] \in Requests
           /\ \A v \in space.versions : v \in [id : Nat, latest : Nat] /\ v.id \in Nat
           /\ \A s \in space.snapshots : s \in [id : Nat, of : Nat] /\ s.id \in Nat
<1>1. \A o \in Requests : Naming(o) => o.snapshot \in Nat /\ First(o) \in Nat
  BY DEF Requests, Naming, First
<1>2. \A i \in DOMAIN asked : asked[i] \in Requests
  BY DEF SpaceTypes
<1>3. /\ space.versions \in SUBSET [id : Nat, latest : Nat]
      /\ space.snapshots \in SUBSET [id : Nat, of : Nat]
  BY DEF SpaceTypes, Spaces
<1> QED
  BY <1>1, <1>2, <1>3

\* A call takes names that are newer than all before it.
LEMMA SpaceInvCall ==
    ASSUME SpaceInv, NEW o \in Requests,
           NEW kinds \in Seq({"version", "snapshot", "job"}),
           asked' = Append(asked, o), issued' = issued \o kinds,
           UNCHANGED <<space, change, statement>>,
           Naming(o) => /\ Len(issued) < First(o)
                        /\ o.snapshot <= Len(issued) + Len(kinds)
                        /\ o.kind = "saveVersion" => o.snapshot = o.id + 1
    PROVE  SpaceInv'
<1>0. /\ asked \in Seq(Requests)
      /\ issued \in Seq({"version", "snapshot", "job"}) /\ Len(issued) \in Nat
      /\ Len(kinds) \in Nat
  BY DEF SpaceInv, SpaceTypes
<1>1. /\ issued' \in Seq({"version", "snapshot", "job"})
      /\ Len(issued') = Len(issued) + Len(kinds)
  BY <1>0
<1>2. SpaceTypes'
  BY <1>0, <1>1, RequestsAppend DEF SpaceInv, SpaceTypes
<1>3. WorkSound'
  <2>1. statement > 0 => asked # <<>> /\ asked' # <<>> /\ Head(asked') = Head(asked)
    BY <1>0, RequestsAppend DEF SpaceInv, WorkSound
  <2> QED
    BY <2>1 DEF SpaceInv, WorkSound, Space!Unlinked, Space!Op
<1>4. NamesInOrder'
  <2>1. /\ \A v \in space'.versions : v.id <= Len(issued')
        /\ \A s \in space'.snapshots : s.id <= Len(issued')
    BY <1>0, <1>1, NamesTyped DEF SpaceInv, NamesInOrder
  <2>2. ASSUME NEW i \in DOMAIN asked, asked'[i] = asked[i], Naming(asked[i])
        PROVE  /\ asked'[i].snapshot <= Len(issued')
               /\ asked'[i].kind = "saveVersion" => asked'[i].snapshot = asked'[i].id + 1
               /\ \A v \in space'.versions : v.id < First(asked'[i])
               /\ \A s \in space'.snapshots : s.id < First(asked'[i])
               /\ \A j \in DOMAIN asked' : j < i /\ Naming(asked'[j])
                                            => asked'[j].snapshot < First(asked'[i])
    <3>1. asked[i].snapshot <= Len(issued')
      BY <1>0, <1>1, <2>2, NamesTyped DEF SpaceInv, NamesInOrder
    <3>2. \A j \in DOMAIN asked' : j < i => j \in DOMAIN asked /\ asked'[j] = asked[j]
      BY <1>0, RequestsAppend
    <3> QED
      BY <2>2, <3>1, <3>2 DEF SpaceInv, NamesInOrder
  <2>3. ASSUME NEW i \in DOMAIN asked', i = Len(asked) + 1, asked'[i] = o, Naming(o)
        PROVE  /\ asked'[i].snapshot <= Len(issued')
               /\ asked'[i].kind = "saveVersion" => asked'[i].snapshot = asked'[i].id + 1
               /\ \A v \in space'.versions : v.id < First(asked'[i])
               /\ \A s \in space'.snapshots : s.id < First(asked'[i])
               /\ \A j \in DOMAIN asked' : j < i /\ Naming(asked'[j])
                                            => asked'[j].snapshot < First(asked'[i])
    <3>1. First(o) \in Nat
      BY <2>3, NamesTyped DEF SpaceInv
    <3>2. /\ \A v \in space'.versions : v.id < First(o)
          /\ \A s \in space'.snapshots : s.id < First(o)
      BY <1>0, <2>3, <3>1, NamesTyped DEF SpaceInv, NamesInOrder
    <3>3. ASSUME NEW j \in DOMAIN asked', j < i, Naming(asked'[j])
          PROVE  asked'[j].snapshot < First(o)
      <4>1. j \in DOMAIN asked /\ asked'[j] = asked[j]
        BY <1>0, <2>3, <3>3, RequestsAppend
      <4>2. asked[j].snapshot \in Nat /\ asked[j].snapshot <= Len(issued)
        BY <3>3, <4>1, NamesTyped DEF SpaceInv, NamesInOrder
      <4> QED
        BY <1>0, <2>3, <3>1, <4>1, <4>2
    <3> QED
      BY <1>1, <2>3, <3>2, <3>3
  <2>4. \A i \in DOMAIN asked' :
          \/ i \in DOMAIN asked /\ asked'[i] = asked[i]
          \/ i = Len(asked) + 1 /\ asked'[i] = o
    BY <1>0, RequestsAppend
  <2> QED
    BY <2>1, <2>2, <2>3, <2>4 DEF NamesInOrder
<1> QED
  BY <1>2, <1>3, <1>4 DEF SpaceInv, Space!ReferencesSound

\* The operation at the head ends; what it leaves in the file has its own names or
\* those that were there.
LEMMA NamesAfterHead ==
    ASSUME SpaceInv, asked # <<>>, asked' = Tail(asked), issued' = issued,
           \A v \in space'.versions :
               \/ \E w \in space.versions : v.id = w.id
               \/ Naming(Head(asked)) /\ v.id \in Nat /\ v.id <= Head(asked).snapshot,
           \A s \in space'.snapshots :
               \/ s \in space.snapshots
               \/ Naming(Head(asked)) /\ s.id = Head(asked).snapshot
    PROVE  NamesInOrder'
<1>1. /\ Head(asked) = asked[1] /\ 1 \in DOMAIN asked
      /\ \A i \in DOMAIN asked' : /\ i + 1 \in DOMAIN asked /\ asked'[i] = asked[i + 1]
                                   /\ i \in Nat /\ 1 < i + 1
      /\ Len(issued) \in Nat
  BY RequestsTail DEF SpaceInv, SpaceTypes
<1>2. Naming(Head(asked)) => /\ Head(asked).snapshot \in Nat
                             /\ Head(asked).snapshot <= Len(issued)
  BY <1>1, NamesTyped DEF SpaceInv, NamesInOrder
<1>3. /\ \A v \in space'.versions : v.id <= Len(issued')
      /\ \A s \in space'.snapshots : s.id <= Len(issued')
  BY <1>1, <1>2 DEF SpaceInv, NamesInOrder
<1>4. ASSUME NEW i \in DOMAIN asked', Naming(asked'[i])
      PROVE  /\ asked'[i].snapshot <= Len(issued')
             /\ asked'[i].kind = "saveVersion" => asked'[i].snapshot = asked'[i].id + 1
             /\ \A v \in space'.versions : v.id < First(asked'[i])
             /\ \A s \in space'.snapshots : s.id < First(asked'[i])
             /\ \A j \in DOMAIN asked' : j < i /\ Naming(asked'[j])
                                          => asked'[j].snapshot < First(asked'[i])
  <2>1. i + 1 \in DOMAIN asked /\ asked'[i] = asked[i + 1] /\ First(asked[i + 1]) \in Nat
    BY <1>1, <1>4, NamesTyped DEF SpaceInv
  <2>2. Naming(Head(asked)) => Head(asked).snapshot < First(asked[i + 1])
    BY <1>1, <1>4, <2>1 DEF SpaceInv, NamesInOrder
  <2>3. ASSUME NEW v \in space'.versions
        PROVE  v.id < First(asked'[i])
    BY <1>2, <1>4, <2>1, <2>2 DEF SpaceInv, NamesInOrder
  <2>4. ASSUME NEW s \in space'.snapshots
        PROVE  s.id < First(asked'[i])
    BY <1>4, <2>1, <2>2 DEF SpaceInv, NamesInOrder
  <2>5. ASSUME NEW j \in DOMAIN asked', j < i, Naming(asked'[j])
        PROVE  asked'[j].snapshot < First(asked'[i])
    <3>1. j + 1 \in DOMAIN asked /\ asked'[j] = asked[j + 1] /\ j + 1 < i + 1
      BY <1>1, <2>5
    <3> QED
      BY <1>4, <2>1, <2>5, <3>1 DEF SpaceInv, NamesInOrder
  <2>6. /\ asked'[i].snapshot <= Len(issued')
        /\ asked'[i].kind = "saveVersion" => asked'[i].snapshot = asked'[i].id + 1
    BY <1>4, <2>1 DEF SpaceInv, NamesInOrder
  <2> QED
    BY <2>3, <2>4, <2>5, <2>6
<1> QED
  BY <1>3, <1>4 DEF NamesInOrder

LEMMA SpaceInvEnds ==
    ASSUME SpaceInv, asked # <<>>, Space!Ends, UNCHANGED <<space, issued>>
    PROVE  SpaceInv'
<1>1. NamesInOrder'
  BY NamesAfterHead DEF Space!Ends
<1>2. SpaceTypes'
  BY RequestsTail DEF SpaceInv, SpaceTypes, Space!Ends
<1> QED
  BY <1>1, <1>2 DEF SpaceInv, WorkSound, Space!Ends, Space!ReferencesSound

\* A statement changes the transaction only.
LEMMA SpaceInvWrite ==
    ASSUME SpaceInv, statement' \in 0 .. 3, WorkSound', UNCHANGED <<space, asked, issued>>
    PROVE  SpaceInv'
BY DEF SpaceInv, SpaceTypes, NamesInOrder, Space!ReferencesSound

LEMMA RowsWritten ==
    ASSUME NEW V, NEW S, NEW J, NEW d, Holds(d, V, S, J)
    PROVE  /\ \A V2 \in SUBSET [id : Nat, latest : Nat] : Holds([d EXCEPT !.versions = V2], V2, S, J)
           /\ \A S2 \in SUBSET [id : Nat, of : Nat] : Holds([d EXCEPT !.snapshots = S2], V, S2, J)
           /\ \A J2 \in SUBSET [id : Nat, link : Nat \cup {Nothing}] :
                Holds([d EXCEPT !.jobs = J2], V, S, J2)
BY DEF Holds, Spaces

LEMMA RowsKept ==
    ASSUME NEW V, NEW S, NEW J, NEW d, Holds(d, V, S, J)
    PROVE  /\ Holds([d EXCEPT !.schema = "tables"], V, S, J)
           /\ Holds([d EXCEPT !.schema = "one"], V, S, J)
           /\ Holds([d EXCEPT !.versions = {}], {}, S, J)
           /\ Holds([d EXCEPT !.snapshots = {}], V, {}, J)
           /\ Holds([d EXCEPT !.jobs = {}], V, S, {})
BY DEF Holds, Spaces

LEMMA SpaceInvWrites == SpaceInv /\ Space!Writes => SpaceInv'
<1> SUFFICES ASSUME SpaceInv, Space!Writes
             PROVE  SpaceInv'
  OBVIOUS
<1> DEFINE o == Head(asked)
           V == space.versions
           S == space.snapshots
           J == space.jobs
<1>0. /\ Holds(space, V, S, J)
      /\ V \in SUBSET [id : Nat, latest : Nat] /\ S \in SUBSET [id : Nat, of : Nat]
      /\ J \in SUBSET [id : Nat, link : Nat \cup {Nothing}]
      /\ asked # <<>> => o \in Requests
  BY RequestsTail DEF SpaceInv, SpaceTypes, Spaces, Holds
<1>1. CASE Space!CreateSchema \/ Space!StampVersion
  <2>1. /\ asked # <<>> /\ o.kind = "initialize" /\ statement' \in {1, 2}
        /\ UNCHANGED <<space, asked, issued>>
    BY <1>1 DEF Space!CreateSchema, Space!StampVersion, Space!Write, Space!Runs, Space!Op
  <2>2. Space!StampVersion => Holds(change, V, S, J)
    BY DEF Space!StampVersion, Space!Write, Space!Runs, Space!Op, SpaceInv, WorkSound
  <2>3. Holds(change', V, S, J)
    <3>1. CASE Space!CreateSchema
      <4>1. change' \in {space, [space EXCEPT !.schema = "tables"]}
        BY <3>1 DEF Space!CreateSchema, Space!Write
      <4>2. Holds([space EXCEPT !.schema = "tables"], V, S, J)
        BY <1>0, RowsKept
      <4> QED
        BY <1>0, <4>1, <4>2
    <3>2. CASE Space!StampVersion
      <4>1. change' \in {change, [change EXCEPT !.schema = "one"]}
        BY <3>2 DEF Space!StampVersion, Space!Write
      <4>2. Holds([change EXCEPT !.schema = "one"], V, S, J)
        BY <2>2, <3>2, RowsKept
      <4> QED
        BY <2>2, <3>2, <4>1, <4>2
    <3> QED
      BY <1>1, <3>1, <3>2
  <2> QED
    BY <2>1, <2>3, SpaceInvWrite DEF WorkSound
<1>2. CASE Space!InsertVersion
  <2> DEFINE v == Space!Version(o.id, o.snapshot)
  <2>1. /\ asked # <<>> /\ o.kind = "saveVersion" /\ Cardinality(V) < o.cap
        /\ change' = [space EXCEPT !.versions = V \cup {v}]
        /\ statement' = 1 /\ UNCHANGED <<space, asked, issued>>
    BY <1>2, SameRowCounting
    DEF Space!InsertVersion, Space!Write, Space!Runs, Space!Op, Space!HasRoom
  <2>2. v \in [id : Nat, latest : Nat]
    BY <1>0, <2>1 DEF Requests, Space!Version
  <2>3. Holds(change', V \cup {v}, S, J)
    BY <1>0, <2>1, <2>2, RowsWritten
  <2> QED
    BY <2>1, <2>3, SpaceInvWrite DEF WorkSound
<1>3. CASE Space!InsertFirst
  <2> DEFINE s == Space!Snapshot(o.snapshot, o.id)
  <2>1. /\ asked # <<>> /\ o.kind = "saveVersion" /\ statement = 1
        /\ change' = [change EXCEPT !.snapshots = @ \cup {s}]
        /\ statement' = 2 /\ UNCHANGED <<space, asked, issued>>
    BY <1>3 DEF Space!InsertFirst, Space!Write, Space!Runs, Space!Op
  <2>2. s \in [id : Nat, of : Nat]
    BY <1>0, <2>1 DEF Requests, Space!Snapshot
  <2>3. /\ Holds(change, V \cup {Space!Version(o.id, o.snapshot)}, S, J)
        /\ Cardinality(V) < o.cap
    BY <2>1 DEF SpaceInv, WorkSound
  <2>4. Holds(change', V \cup {Space!Version(o.id, o.snapshot)}, S \cup {s}, J)
    <3>1. change.snapshots = S
      BY <2>3 DEF Holds
    <3> QED
      BY <1>0, <2>1, <2>2, <2>3, <3>1, RowsWritten
  <2> QED
    BY <2>1, <2>3, <2>4, SpaceInvWrite DEF WorkSound
<1>4. CASE Space!InsertSnapshot
  <2> DEFINE s == Space!Snapshot(o.snapshot, o.id)
  <2>1. /\ asked # <<>> /\ o.kind = "addSnapshot" /\ Space!With(V, o.id) # {}
        /\ change' = [space EXCEPT !.snapshots = S \cup {s}]
        /\ statement' = 1 /\ UNCHANGED <<space, asked, issued>>
    BY <1>4 DEF Space!InsertSnapshot, Space!Write, Space!Runs, Space!Op
  <2>2. s \in [id : Nat, of : Nat]
    BY <1>0, <2>1 DEF Requests, Space!Snapshot
  <2>3. Holds(change', V, S \cup {s}, J)
    BY <1>0, <2>1, <2>2, RowsWritten
  <2> QED
    BY <2>1, <2>3, SpaceInvWrite DEF WorkSound
<1>5. CASE Space!UpdateLatest
  <2> DEFINE s == Space!Snapshot(o.snapshot, o.id)
             versions == (V \ Space!With(V, o.id)) \cup {Space!Version(o.id, o.snapshot)}
  <2>1. /\ asked # <<>> /\ o.kind = "addSnapshot" /\ statement = 1
        /\ change' = [change EXCEPT !.versions = (@ \ Space!With(@, o.id))
                                                \cup {Space!Version(o.id, o.snapshot)}]
        /\ statement' = 2 /\ UNCHANGED <<space, asked, issued>>
    BY <1>5 DEF Space!UpdateLatest, Space!Write, Space!Runs, Space!Op
  <2>2. versions \in SUBSET [id : Nat, latest : Nat]
    BY <1>0, <2>1 DEF Requests, Space!Version
  <2>3. Holds(change, V, S \cup {s}, J) /\ Space!With(V, o.id) # {}
    BY <2>1 DEF SpaceInv, WorkSound
  <2>4. Holds(change', versions, S \cup {s}, J)
    <3>1. change.versions = V
      BY <2>3 DEF Holds
    <3> QED
      BY <2>1, <2>2, <2>3, <3>1, RowsWritten
  <2> QED
    BY <2>1, <2>3, <2>4, SpaceInvWrite DEF WorkSound
<1>6. CASE Space!Unlink
  <2>1. /\ asked # <<>> /\ o.kind = "deleteVersion"
        /\ change' = [space EXCEPT !.jobs = Space!Unlinked(J)]
        /\ statement' = 1 /\ UNCHANGED <<space, asked, issued>>
    BY <1>6 DEF Space!Unlink, Space!Write, Space!Runs, Space!Op
  <2>2. Space!Unlinked(J) \in SUBSET [id : Nat, link : Nat \cup {Nothing}]
    BY <1>0 DEF Space!Unlinked, Space!Job
  <2>3. Holds(change', V, S, Space!Unlinked(J))
    BY <1>0, <2>1, <2>2, RowsWritten
  <2>4. Space!Unlinked(J)' = Space!Unlinked(J)
    BY <2>1 DEF Space!Unlinked, Space!Op
  <2> QED
    BY <2>1, <2>3, <2>4, SpaceInvWrite DEF WorkSound
<1>7. CASE Space!DropSnapshots
  <2> DEFINE rest == S \ Space!SnapshotsOf(space, o.id)
  <2>1. /\ asked # <<>> /\ o.kind = "deleteVersion" /\ statement = 1
        /\ change' = [change EXCEPT !.snapshots = @ \ Space!SnapshotsOf(change, o.id)]
        /\ statement' = 2 /\ UNCHANGED <<space, asked, issued>>
    BY <1>7 DEF Space!DropSnapshots, Space!Write, Space!Runs, Space!Op
  <2>2. Holds(change, V, S, Space!Unlinked(J))
    BY <2>1 DEF SpaceInv, WorkSound
  <2>3. Holds(change', V, rest, Space!Unlinked(J))
    <3>1. change.snapshots \ Space!SnapshotsOf(change, o.id) = rest
      BY <2>2 DEF Holds, Space!SnapshotsOf
    <3> QED
      BY <1>0, <2>1, <2>2, <3>1, RowsWritten
  <2>4. Space!Unlinked(J)' = Space!Unlinked(J)
    BY <2>1 DEF Space!Unlinked, Space!Op
  <2> QED
    BY <2>1, <2>3, <2>4, SpaceInvWrite DEF WorkSound, Space!SnapshotsOf
<1>8. CASE Space!DropVersion
  <2> DEFINE rest == S \ Space!SnapshotsOf(space, o.id)
  <2>1. /\ asked # <<>> /\ o.kind = "deleteVersion" /\ statement = 2
        /\ change' = [change EXCEPT !.versions = @ \ Space!With(@, o.id)]
        /\ statement' = 3 /\ UNCHANGED <<space, asked, issued>>
    BY <1>8 DEF Space!DropVersion, Space!Write, Space!Runs, Space!Op
  <2>2. Holds(change, V, rest, Space!Unlinked(J))
    BY <2>1 DEF SpaceInv, WorkSound
  <2>3. Holds(change', V \ Space!With(V, o.id), rest, Space!Unlinked(J))
    <3>1. change.versions = V
      BY <2>2 DEF Holds
    <3> QED
      BY <1>0, <2>1, <2>2, <3>1, RowsWritten
  <2>4. Space!Unlinked(J)' = Space!Unlinked(J)
    BY <2>1 DEF Space!Unlinked, Space!Op
  <2> QED
    BY <2>1, <2>3, <2>4, SpaceInvWrite DEF WorkSound, Space!SnapshotsOf
<1>9. CASE Space!PutJob
  <2> DEFINE jobs == (J \ Space!With(J, o.id)) \cup {Space!Job(o.id, o.link)}
  <2>1. /\ asked # <<>> /\ o.kind = "saveJob"
        /\ o.link = Nothing \/ Space!With(V, o.link) # {}
        /\ Space!With(J, o.id) = {} => Cardinality(J) < o.cap
        /\ change' = [space EXCEPT !.jobs = jobs]
        /\ statement' = 1 /\ UNCHANGED <<space, asked, issued>>
    BY <1>9, SameRowCounting
    DEF Space!PutJob, Space!Write, Space!Runs, Space!Op, Space!HasRoom
  <2>2. jobs \in SUBSET [id : Nat, link : Nat \cup {Nothing}]
    BY <1>0, <2>1 DEF Requests, Space!Job
  <2>3. Holds(change', V, S, jobs)
    BY <1>0, <2>1, <2>2, RowsWritten
  <2> QED
    BY <2>1, <2>3, SpaceInvWrite DEF WorkSound
<1>10. CASE Space!DropJob
  <2>1. /\ asked # <<>> /\ o.kind = "deleteJob"
        /\ change' = [space EXCEPT !.jobs = J \ Space!With(J, o.id)]
        /\ statement' = 1 /\ UNCHANGED <<space, asked, issued>>
    BY <1>10 DEF Space!DropJob, Space!Write, Space!Runs, Space!Op
  <2>2. Holds(change', V, S, J \ Space!With(J, o.id))
    BY <1>0, <2>1, RowsWritten
  <2> QED
    BY <2>1, <2>2, SpaceInvWrite DEF WorkSound
<1>11. CASE Space!DropAllJobs \/ Space!DropAllSnapshots \/ Space!DropAllVersions
  <2>1. /\ asked # <<>> /\ o.kind = "deleteAll" /\ statement' = statement + 1
        /\ statement \in 0 .. 2 /\ UNCHANGED <<space, asked, issued>>
        /\ \/ statement = 0 /\ change' = [space EXCEPT !.jobs = {}]
           \/ statement = 1 /\ change' = [change EXCEPT !.snapshots = {}]
           \/ statement = 2 /\ change' = [change EXCEPT !.versions = {}]
    BY <1>11
    DEF Space!DropAllJobs, Space!DropAllSnapshots, Space!DropAllVersions, Space!Write,
        Space!Runs, Space!Op
  <2>2. /\ statement = 1 => Holds(change, V, S, {})
        /\ statement = 2 => Holds(change, V, {}, {})
    BY <2>1 DEF SpaceInv, WorkSound
  <2>3. /\ statement = 0 => Holds(change', V, S, {})
        /\ statement = 1 => Holds(change', V, {}, {})
        /\ statement = 2 => Holds(change', {}, {}, {})
    <3>1. CASE statement = 0
      <4>1. change' = [space EXCEPT !.jobs = {}]
        BY <2>1, <3>1
      <4>2. Holds([space EXCEPT !.jobs = {}], V, S, {})
        BY <1>0, RowsKept
      <4> QED
        BY <3>1, <4>1, <4>2
    <3>2. CASE statement = 1
      <4>1. change' = [change EXCEPT !.snapshots = {}]
        BY <2>1, <3>2
      <4>2. Holds([change EXCEPT !.snapshots = {}], V, {}, {})
        BY <2>2, <3>2, RowsKept
      <4> QED
        BY <3>2, <4>1, <4>2
    <3>3. CASE statement = 2
      <4>1. change' = [change EXCEPT !.versions = {}]
        BY <2>1, <3>3
      <4>2. Holds([change EXCEPT !.versions = {}], {}, {}, {})
        BY <2>2, <3>3, RowsKept
      <4> QED
        BY <3>3, <4>1, <4>2
    <3> QED
      BY <2>1, <3>1, <3>2, <3>3
  <2> QED
    BY <2>1, <2>3, SpaceInvWrite DEF WorkSound
<1> QED
  BY <1>1, <1>2, <1>3, <1>4, <1>5, <1>6, <1>7, <1>8, <1>9, <1>10, <1>11 DEF Space!Writes

LEMMA FiniteMore == \A S, x : IsFiniteSet(S) => IsFiniteSet(S \cup {x})
BY FS_AddElement

\* The references of the rows, without the sets of rows that name one.
References(V, S, J) ==
    /\ \A v \in V : /\ Space!Snapshot(v.latest, v.id) \in S
                    /\ \A s \in S : s.of = v.id => s.id <= v.latest
    /\ \A s \in S : \E v \in V : v.id = s.of
    /\ \A j \in J : j.link # Nothing => \E v \in V : v.id = j.link

LEMMA UnlinkedFewer ==
    ASSUME NEW J, IsFiniteSet(J)
    PROVE  /\ IsFiniteSet(Space!Unlinked(J))
           /\ Cardinality(Space!Unlinked(J)) <= Cardinality(J)
<1> DEFINE F(j) == Space!Job(j.id, IF j.link = Space!Op.id THEN Nothing ELSE j.link)
           f == [j \in J |-> F(j)]
<1>1. Space!Unlinked(J) = {F(j) : j \in J}
  BY DEF Space!Unlinked
<1>2. f \in Surjection(J, Space!Unlinked(J))
  BY <1>1 DEF Surjection
<1> QED
  BY <1>2, FS_Surjection

LEMMA ReferencesMeaning ==
    Space!ReferencesSound <=> References(space.versions, space.snapshots, space.jobs)
BY DEF Space!ReferencesSound, References, Space!With, Space!SnapshotsOf

\* What a commit puts in the file.
LEMMA SpaceInvCommit == SpaceInv /\ Space!Commit => SpaceInv'
<1> SUFFICES ASSUME SpaceInv, Space!Commit
             PROVE  SpaceInv'
  OBVIOUS
<1> DEFINE o == Head(asked)
           V == space.versions
           S == space.snapshots
           J == space.jobs
<1>0. /\ asked # <<>> /\ o.kind # "close" /\ statement = Space!Length(o.kind)
      /\ space' = change /\ issued' = issued /\ Space!Ends
      /\ o \in Requests
  BY RequestsTail DEF Space!Commit, Space!Op, SpaceInv, SpaceTypes
<1>1. /\ V \in SUBSET [id : Nat, latest : Nat] /\ S \in SUBSET [id : Nat, of : Nat]
      /\ J \in SUBSET [id : Nat, link : Nat \cup {Nothing}]
      /\ IsFiniteSet(V) /\ IsFiniteSet(J)
  BY DEF SpaceInv, SpaceTypes, Spaces
<1>2. SUFFICES /\ space' \in Spaces
               /\ IsFiniteSet(space'.versions) /\ IsFiniteSet(space'.jobs)
               /\ \A v \in space'.versions :
                    \/ \E w \in V : v.id = w.id
                    \/ Naming(o) /\ v.id \in Nat /\ v.id <= o.snapshot
               /\ \A s \in space'.snapshots : s \in S \/ (Naming(o) /\ s.id = o.snapshot)
               /\ References(space'.versions, space'.snapshots, space'.jobs)
  <2>1. NamesInOrder'
    BY <1>0, <1>2, NamesAfterHead DEF Space!Ends
  <2>2. SpaceTypes'
    BY <1>0, <1>2, RequestsTail DEF SpaceInv, SpaceTypes, Space!Ends
  <2> QED
    <3>1. Space!ReferencesSound'
      BY <1>2 DEF Space!ReferencesSound, References, Space!With, Space!SnapshotsOf
    <3>2. WorkSound'
      BY <1>0 DEF WorkSound, Space!Ends
    <3> QED
      BY <2>1, <2>2, <3>1, <3>2 DEF SpaceInv
<1>10. References(V, S, J)
  BY ReferencesMeaning DEF SpaceInv
<1>3. CASE o.kind = "initialize"
  <2>1. space' \in Spaces /\ space'.versions = V /\ space'.snapshots = S /\ space'.jobs = J
    BY <1>0, <1>3 DEF Space!Length, SpaceInv, WorkSound, Holds
  <2> QED
    BY <1>1, <1>10, <2>1
<1>4. CASE o.kind = "saveVersion"
  <2> DEFINE v0 == Space!Version(o.id, o.snapshot)
             s0 == Space!Snapshot(o.snapshot, o.id)
  <2>1. /\ space' \in Spaces /\ space'.versions = V \cup {v0}
        /\ space'.snapshots = S \cup {s0} /\ space'.jobs = J
    BY <1>0, <1>4 DEF Space!Length, SpaceInv, WorkSound, Holds
  <2>2. /\ o.id \in Nat /\ o.snapshot \in Nat /\ o.id <= o.snapshot /\ Naming(o)
        /\ \A v \in V : v.id < o.id
        /\ \A s \in S : s.id < o.id
    <3>1. o.id \in Nat /\ Naming(o) /\ First(o) = o.id
      BY <1>0, <1>4 DEF Requests, Naming, First
    <3>2. 1 \in DOMAIN asked /\ o = asked[1]
      BY <1>0, RequestsTail DEF SpaceInv, SpaceTypes
    <3>3. o.snapshot = o.id + 1
      BY <1>4, <3>1, <3>2 DEF SpaceInv, NamesInOrder
    <3> QED
      BY <3>1, <3>2, <3>3 DEF SpaceInv, NamesInOrder
  <2>3. IsFiniteSet(space'.versions) /\ IsFiniteSet(space'.jobs)
    <3>1. IsFiniteSet(V \cup {v0})
      BY <1>1, FiniteMore, Zenon
    <3> QED
      BY <1>1, <2>1, <3>1
  <2>4. /\ v0.id = o.id /\ v0.latest = o.snapshot /\ s0.id = o.snapshot /\ s0.of = o.id
        /\ Space!Snapshot(v0.latest, v0.id) = s0
    BY DEF Space!Version, Space!Snapshot
  <2>5. /\ \A v \in V : v.id \in Nat /\ v.id # o.id
        /\ \A s \in S : s.id \in Nat /\ s.id <= o.snapshot
    BY <1>1, <2>2
  <2>6. References(V \cup {v0}, S \cup {s0}, J)
    <3> HIDE DEF v0, s0
    <3> QED
      BY <1>10, <2>2, <2>4, <2>5 DEF References
  <2>7. \A v \in space'.versions : v \in V \/ (v.id = o.id /\ Naming(o))
    BY <2>1, <2>2, <2>4
  <2>8. \A s \in space'.snapshots : s \in S \/ (Naming(o) /\ s.id = o.snapshot)
    BY <2>1, <2>2, <2>4
  <2> QED
    BY <1>1, <2>1, <2>2, <2>3, <2>6, <2>7, <2>8
<1>5. CASE o.kind = "addSnapshot"
  <2> DEFINE v0 == Space!Version(o.id, o.snapshot)
             s0 == Space!Snapshot(o.snapshot, o.id)
             rest == V \ Space!With(V, o.id)
  <2>1. /\ space' \in Spaces /\ space'.versions = rest \cup {v0}
        /\ space'.snapshots = S \cup {s0} /\ space'.jobs = J
        /\ Space!With(V, o.id) # {}
    BY <1>0, <1>5 DEF Space!Length, SpaceInv, WorkSound, Holds
  <2>2. /\ o.id \in Nat /\ o.snapshot \in Nat /\ Naming(o)
        /\ \A s \in S : s.id < o.snapshot
    <3>1. o.id \in Nat /\ o.snapshot \in Nat /\ Naming(o) /\ First(o) = o.snapshot
      BY <1>0, <1>5 DEF Requests, Naming, First
    <3>2. 1 \in DOMAIN asked /\ o = asked[1]
      BY <1>0, RequestsTail DEF SpaceInv, SpaceTypes
    <3> QED
      BY <3>1, <3>2 DEF SpaceInv, NamesInOrder
  <2>3. IsFiniteSet(space'.versions) /\ IsFiniteSet(space'.jobs)
    <3>1. IsFiniteSet(rest)
      BY <1>1, FS_Subset
    <3>2. IsFiniteSet(rest \cup {v0})
      BY <3>1, FiniteMore, Zenon
    <3> QED
      BY <1>1, <2>1, <3>2
  <2>4. /\ v0.id = o.id /\ v0.latest = o.snapshot /\ s0.id = o.snapshot /\ s0.of = o.id
        /\ Space!Snapshot(v0.latest, v0.id) = s0
    BY DEF Space!Version, Space!Snapshot
  <2>5. /\ \A v \in V : v \in rest \/ v.id = o.id
        /\ \A v \in rest : v \in V /\ v.id # o.id
        /\ \A s \in S : s.id \in Nat /\ s.id <= o.snapshot
        /\ \E w \in V : w.id = o.id
    BY <1>1, <2>1, <2>2 DEF Space!With
  <2>6. References(rest \cup {v0}, S \cup {s0}, J)
    <3> HIDE DEF v0, s0, rest
    <3> QED
      BY <1>10, <2>2, <2>4, <2>5 DEF References
  <2>7. \A v \in space'.versions : \E w \in V : v.id = w.id
    BY <2>1, <2>4, <2>5
  <2>8. \A s \in space'.snapshots : s \in S \/ (Naming(o) /\ s.id = o.snapshot)
    BY <2>1, <2>2, <2>4
  <2> QED
    BY <2>1, <2>3, <2>6, <2>7, <2>8
<1>6. CASE o.kind = "deleteVersion"
  <2> DEFINE rest == V \ Space!With(V, o.id)
             kept == S \ Space!SnapshotsOf(space, o.id)
  <2>1. /\ space' \in Spaces /\ space'.versions = rest
        /\ space'.snapshots = kept /\ space'.jobs = Space!Unlinked(J)
    BY <1>0, <1>6 DEF Space!Length, SpaceInv, WorkSound, Holds
  <2>2. IsFiniteSet(rest)
    BY <1>1, FS_Subset
  <2>3. IsFiniteSet(Space!Unlinked(J)) /\ Cardinality(Space!Unlinked(J)) <= Cardinality(J)
    BY <1>1, UnlinkedFewer
  <2>4. /\ \A v \in V : v \in rest <=> v.id # o.id
        /\ \A s \in S : s \in kept <=> s.of # o.id
        /\ \A j \in Space!Unlinked(J) : j.link = Nothing \/ (j.link # o.id /\ \E i \in J : i.link = j.link)
    BY DEF Space!With, Space!SnapshotsOf, Space!Unlinked, Space!Op, Space!Job
  <2>5. /\ rest \subseteq V /\ kept \subseteq S
        /\ \A v \in rest : Space!Snapshot(v.latest, v.id).of = v.id
    BY DEF Space!Snapshot
  <2>6. References(rest, kept, Space!Unlinked(J))
    <3> HIDE DEF rest, kept
    <3> QED
      BY <1>10, <2>4, <2>5 DEF References
  <2> QED
    BY <2>1, <2>2, <2>3, <2>5, <2>6
<1>7. CASE o.kind = "saveJob"
  <2> DEFINE rest == J \ Space!With(J, o.id)
             j0 == Space!Job(o.id, o.link)
  <2>1. /\ space' \in Spaces /\ space'.versions = V
        /\ space'.snapshots = S /\ space'.jobs = rest \cup {j0}
        /\ o.link = Nothing \/ Space!With(V, o.link) # {}
    BY <1>0, <1>7 DEF Space!Length, SpaceInv, WorkSound, Holds
  <2>2. IsFiniteSet(rest \cup {j0})
    <3>1. IsFiniteSet(rest)
      BY <1>1, FS_Subset
    <3> HIDE DEF rest, j0
    <3> QED
      BY <3>1, FiniteMore
  <2>3. j0.link = o.link /\ (o.link # Nothing => \E v \in V : v.id = o.link)
    BY <2>1 DEF Space!Job, Space!With
  <2>4. References(V, S, rest \cup {j0})
    <3> HIDE DEF j0
    <3> QED
      BY <1>10, <2>3 DEF References
  <2> QED
    BY <1>1, <2>1, <2>2, <2>4
<1>8. CASE o.kind = "deleteJob"
  <2>1. /\ space' \in Spaces /\ space'.versions = V
        /\ space'.snapshots = S /\ space'.jobs = J \ Space!With(J, o.id)
    BY <1>0, <1>8 DEF Space!Length, SpaceInv, WorkSound, Holds
  <2>2. IsFiniteSet(J \ Space!With(J, o.id))
    BY <1>1, FS_Subset
  <2>3. References(V, S, J \ Space!With(J, o.id))
    BY <1>10 DEF References
  <2> QED
    BY <1>1, <2>1, <2>2, <2>3
<1>9. CASE o.kind = "deleteAll"
  <2>1. space' \in Spaces /\ space'.versions = {} /\ space'.snapshots = {} /\ space'.jobs = {}
    BY <1>0, <1>9 DEF Space!Length, SpaceInv, WorkSound, Holds
  <2> QED
    BY <2>1, FS_EmptySet DEF References
<1> QED
  BY <1>0, <1>3, <1>4, <1>5, <1>6, <1>7, <1>8, <1>9 DEF Requests

LEMMA SpaceInvAskings == SpaceInv /\ Space!Askings => SpaceInv'
<1> SUFFICES ASSUME SpaceInv, Space!Askings
             PROVE  SpaceInv'
  OBVIOUS
<1>0. /\ Len(issued) \in Nat
      /\ \A kind : \A i \in Space!Issued(kind) : i \in Nat
      /\ {FreeVersions, ProVersions, FreeJobs, ProJobs} \subseteq Nat
  BY ClientsAssumption DEF SpaceInv, SpaceTypes, Space!Issued, Space!CapsAssumption
<1> USE DEF Requests, Naming, First, Space!Call
<1>1. ASSUME NEW cap \in {FreeVersions, ProVersions}, Space!SaveVersion(cap)
      PROVE  SpaceInv'
  <2> DEFINE o == [kind |-> "saveVersion", id |-> Len(issued) + 1, snapshot |-> Len(issued) + 1 + 1,
                   cap |-> cap]
  <2>1. o \in Requests
    BY <1>0
  <2>2. <<"version", "snapshot">> \in Seq({"version", "snapshot", "job"}) /\ Len(<<"version", "snapshot">>) = 2
    OBVIOUS
  <2>3. /\ asked' = Append(asked, o) /\ issued' = issued \o <<"version", "snapshot">>
        /\ UNCHANGED <<space, change, statement>>
    BY <1>1 DEF Space!SaveVersion
  <2>4. /\ Len(issued) < First(o) /\ o.snapshot <= Len(issued) + Len(<<"version", "snapshot">>)
        /\ o.kind = "saveVersion" => o.snapshot = o.id + 1
    BY <1>0, <2>2
  <2> HIDE DEF o, Requests, Naming, First
  <2> QED
    BY <2>1, <2>2, <2>3, <2>4, SpaceInvCall
<1>2. ASSUME NEW v \in Space!Issued("version"), Space!AddSnapshot(v)
      PROVE  SpaceInv'
  <2> DEFINE o == [kind |-> "addSnapshot", id |-> v, snapshot |-> Len(issued) + 1]
  <2>1. o \in Requests
    BY <1>0
  <2>2. <<"snapshot">> \in Seq({"version", "snapshot", "job"}) /\ Len(<<"snapshot">>) = 1
    OBVIOUS
  <2>3. /\ asked' = Append(asked, o) /\ issued' = issued \o <<"snapshot">>
        /\ UNCHANGED <<space, change, statement>>
    BY <1>2 DEF Space!AddSnapshot
  <2>4. /\ Len(issued) < First(o) /\ o.snapshot <= Len(issued) + Len(<<"snapshot">>)
        /\ o.kind = "saveVersion" => o.snapshot = o.id + 1
    BY <1>0, <2>2
  <2> HIDE DEF o, Requests, Naming, First
  <2> QED
    BY <2>1, <2>2, <2>3, <2>4, SpaceInvCall
<1>3. <<>> \in Seq({"version", "snapshot", "job"}) /\ Len(<<>>) = 0
  OBVIOUS
<1>4. ASSUME NEW v \in Space!Issued("version"), Space!DeleteVersion(v)
      PROVE  SpaceInv'
  BY <1>0, <1>3, <1>4, SpaceInvCall DEF Space!DeleteVersion
<1>5. ASSUME NEW link \in Space!Issued("version") \cup {Nothing}, NEW cap \in {FreeJobs, ProJobs},
             Space!SaveNewJob(link, cap)
      PROVE  SpaceInv'
  <2> DEFINE o == [kind |-> "saveJob", id |-> Len(issued) + 1, link |-> link, cap |-> cap]
  <2>1. <<"job">> \in Seq({"version", "snapshot", "job"})
    OBVIOUS
  <2>2. o \in Requests /\ ~Naming(o)
    BY <1>0
  <2>3. /\ asked' = Append(asked, o) /\ issued' = issued \o <<"job">>
        /\ UNCHANGED <<space, change, statement>>
    BY <1>5 DEF Space!SaveNewJob
  <2> HIDE DEF o, Requests, Naming, First
  <2> QED
    BY <2>1, <2>2, <2>3, SpaceInvCall
<1>6. ASSUME NEW link \in Space!Issued("version") \cup {Nothing}, NEW cap \in {FreeJobs, ProJobs},
             NEW j \in Space!Issued("job"), Space!SaveOldJob(j, link, cap)
      PROVE  SpaceInv'
  BY <1>0, <1>3, <1>6, SpaceInvCall DEF Space!SaveOldJob
<1>7. ASSUME NEW j \in Space!Issued("job"), Space!DeleteJob(j)
      PROVE  SpaceInv'
  BY <1>0, <1>3, <1>7, SpaceInvCall DEF Space!DeleteJob
<1>8. CASE Space!DeleteAll
  BY <1>3, <1>8, SpaceInvCall DEF Space!DeleteAll
<1> QED
  BY <1>1, <1>2, <1>4, <1>5, <1>6, <1>7, <1>8 DEF Space!Askings

LEMMA SpaceInvStep == SpaceInv /\ [Space!Next]_spaceVars => SpaceInv'
<1> SUFFICES ASSUME SpaceInv, [Space!Next]_spaceVars
             PROVE  SpaceInv'
  OBVIOUS
<1>1. <<>> \in Seq({"version", "snapshot", "job"}) /\ issued \o <<>> = issued
  BY DEF SpaceInv, SpaceTypes
<1>2. CASE Space!CallInitialize
  <2>1. asked' = Append(asked, [kind |-> "initialize"])
    BY <1>2 DEF Space!CallInitialize
  <2> QED
    BY <1>1, <1>2, <2>1, SpaceInvCall DEF Space!CallInitialize, Requests, Naming
<1>3. CASE Space!Close
  BY <1>1, <1>3, SpaceInvCall DEF Space!Close, Requests, Naming
<1>4. CASE Space!Rejects \/ Space!CloseHandle
  BY <1>4, SpaceInvEnds DEF Space!Rejects, Space!CloseHandle, Space!Runs
<1>5. CASE Space!Kill
  BY <1>5
  DEF Space!Kill, SpaceInv, SpaceTypes, NamesInOrder, WorkSound, Space!ReferencesSound
<1>6. CASE UNCHANGED spaceVars
  BY <1>6
  DEF spaceVars, SpaceInv, SpaceTypes, NamesInOrder, WorkSound, Space!ReferencesSound,
      Space!Unlinked, Space!Op
<1> QED
  BY <1>2, <1>3, <1>4, <1>5, <1>6, SpaceInvAskings, SpaceInvWrites, SpaceInvCommit DEF Space!Next

LEMMA SpaceHolds == ClientsSpec => []SpaceInv
<1>1. ClientsInit => SpaceInv
  BY SpaceInvInit DEF ClientsInit
<1>2. SpaceInv /\ [ClientsNext]_clientsVars => SpaceInv'
  BY SpaceInvStep DEF ClientsNext, clientsVars
<1> QED
  BY <1>1, <1>2, PTL DEF ClientsSpec

\* A repository in use has the second version of its schema and rows that can be
\* read (migrateReportDatabase); every version of a resume has its latest
\* snapshot, and no snapshot or job refers to a version that is gone
\* (addSnapshot, deleteVersion).
THEOREM FilesStaySound == ClientsSpec => []FilesSound
<1>1. StoreInv /\ SpaceInv => FilesSound
  BY StoreInvMigrated DEF SpaceInv, FilesSound
<1> QED
  BY <1>1, StoreHolds, SpaceHolds, PTL

\* What a step of the workspace adds: a version or a job, within the limit its call
\* was made with.
Grows(old, new) == Space!Cardinality(new) > Space!Cardinality(old)
Limited(new) == Space!Cardinality(new) <= Space!Op.cap
CapsKept ==
    /\ Grows(space.versions, space'.versions) => Limited(space'.versions)
    /\ Grows(space.jobs, space'.jobs) => Limited(space'.jobs)

LEMMA OneMore ==
    ASSUME NEW S, NEW x, IsFiniteSet(S)
    PROVE  Cardinality(S \cup {x}) <= Cardinality(S) + 1
<1>1. Cardinality(S \cup {x}) \in {Cardinality(S), Cardinality(S) + 1}
  BY FS_AddElement
<1>2. Cardinality(S) \in Nat
  BY FS_CardinalityType
<1> QED
  BY <1>1, <1>2

LEMMA OneForSome ==
    ASSUME NEW S, NEW some, NEW x, IsFiniteSet(S), some \subseteq S, some # {}
    PROVE  Cardinality((S \ some) \cup {x}) <= Cardinality(S)
<1>1. PICK e \in some : TRUE
  OBVIOUS
<1>2. /\ IsFiniteSet(S \ {e}) /\ Cardinality(S \ {e}) = Cardinality(S) - 1
      /\ Cardinality(S) \in Nat
  BY <1>1, FS_RemoveElement, FS_CardinalityType
<1>3. S \ some \in SUBSET (S \ {e})
  BY <1>1
<1>4. IsFiniteSet(S \ some) /\ Cardinality(S \ some) <= Cardinality(S) - 1
  BY <1>2, <1>3, FS_Subset
<1>5. Cardinality((S \ some) \cup {x}) <= Cardinality(S \ some) + 1
  BY <1>4, OneMore
<1>6. Cardinality(S \ some) \in Nat /\ Cardinality((S \ some) \cup {x}) \in Nat
  BY <1>4, FiniteMore, FS_CardinalityType
<1> QED
  BY <1>2, <1>4, <1>5, <1>6

LEMMA SpaceInvCaps == SpaceInv /\ [Space!Next]_spaceVars => CapsKept
<1> SUFFICES ASSUME SpaceInv, [Space!Next]_spaceVars
             PROVE  CapsKept
  OBVIOUS
<1> DEFINE o == Head(asked)
           V == space.versions
           J == space.jobs
<1>0. /\ IsFiniteSet(V) /\ IsFiniteSet(J) /\ Cardinality(V) \in Nat /\ Cardinality(J) \in Nat
  BY FS_CardinalityType DEF SpaceInv, SpaceTypes
<1>1. CASE space' = space
  BY <1>0, <1>1, SameRowCounting DEF CapsKept, Grows
<1>2. CASE Space!Commit
  <2>0. /\ asked # <<>> /\ o.kind # "close" /\ statement = Space!Length(o.kind)
        /\ space' = change /\ o \in Requests
    BY <1>2, RequestsTail DEF Space!Commit, Space!Op, SpaceInv, SpaceTypes
  <2>1. SUFFICES /\ \/ Cardinality(space'.versions) <= Cardinality(V)
                    \/ Cardinality(space'.versions) <= o.cap
                 /\ \/ Cardinality(space'.jobs) <= Cardinality(J)
                    \/ Cardinality(space'.jobs) <= o.cap
                 /\ IsFiniteSet(space'.versions) /\ IsFiniteSet(space'.jobs)
    <3>1. Cardinality(space'.versions) \in Nat /\ Cardinality(space'.jobs) \in Nat
      BY <2>1, FS_CardinalityType
    <3> QED
      BY <1>0, <2>1, <3>1, SameRowCounting DEF CapsKept, Grows, Limited, Space!Op
  <2>2. IsFiniteSet(space'.versions) /\ IsFiniteSet(space'.jobs)
    BY <1>2, SpaceInvCommit DEF SpaceInv, SpaceTypes
  <2>3. CASE o.kind = "saveVersion"
    <3>1. space'.versions = V \cup {Space!Version(o.id, o.snapshot)} /\ space'.jobs = J
      BY <2>0, <2>3 DEF Space!Length, SpaceInv, WorkSound, Holds
    <3>2. Cardinality(V) < o.cap /\ o.cap \in Nat
      BY <2>0, <2>3 DEF Space!Length, SpaceInv, WorkSound, Requests
    <3>3. Cardinality(V \cup {Space!Version(o.id, o.snapshot)}) <= Cardinality(V) + 1
      BY <1>0, OneMore
    <3>4. Cardinality(space'.versions) \in Nat
      BY <2>2, FS_CardinalityType
    <3> QED
      BY <1>0, <2>2, <3>1, <3>2, <3>3, <3>4
  <2>4. CASE o.kind = "addSnapshot"
    <3>1. /\ space'.versions = (V \ Space!With(V, o.id)) \cup {Space!Version(o.id, o.snapshot)}
          /\ space'.jobs = J /\ Space!With(V, o.id) # {}
      BY <2>0, <2>4 DEF Space!Length, SpaceInv, WorkSound, Holds
    <3>2. Space!With(V, o.id) \subseteq V
      BY DEF Space!With
    <3>3. Cardinality(space'.versions) <= Cardinality(V)
      <4> DEFINE v0 == Space!Version(o.id, o.snapshot)
      <4> HIDE DEF v0
      <4>1. Cardinality((V \ Space!With(V, o.id)) \cup {v0}) <= Cardinality(V)
        BY <1>0, <3>1, <3>2, OneForSome
      <4> QED
        BY <3>1, <4>1 DEF v0
    <3> QED
      BY <1>0, <2>2, <3>1, <3>3
  <2>5. CASE o.kind = "deleteVersion"
    <3>1. space'.versions \subseteq V /\ space'.jobs = Space!Unlinked(J)
      BY <2>0, <2>5 DEF Space!Length, SpaceInv, WorkSound, Holds
    <3> QED
      BY <1>0, <2>2, <3>1, UnlinkedFewer, FS_Subset
  <2>6. CASE o.kind = "saveJob"
    <3> DEFINE j0 == Space!Job(o.id, o.link)
    <3>1. /\ space'.versions = V /\ space'.jobs = (J \ Space!With(J, o.id)) \cup {j0}
          /\ Space!With(J, o.id) = {} => Cardinality(J) < o.cap
      BY <2>0, <2>6 DEF Space!Length, SpaceInv, WorkSound, Holds
    <3>2. Space!With(J, o.id) \subseteq J /\ o.cap \in Nat
      BY <2>0, <2>6 DEF Space!With, Requests
    <3> HIDE DEF j0
    <3>3. CASE Space!With(J, o.id) = {}
      <4>1. J \ Space!With(J, o.id) = J
        BY <3>3
      <4>2. Cardinality(J \cup {j0}) <= Cardinality(J) + 1
        BY <1>0, OneMore
      <4>3. space'.jobs = J \cup {j0} /\ Cardinality(J) < o.cap /\ space'.versions = V
        BY <3>1, <3>3, <4>1
      <4>4. Cardinality(J \cup {j0}) \in Nat
        BY <2>2, <4>3, FS_CardinalityType
      <4>5. Cardinality(J \cup {j0}) <= o.cap
        BY <1>0, <3>2, <4>2, <4>3, <4>4
      <4> QED
        BY <1>0, <2>2, <4>3, <4>5
    <3>4. CASE Space!With(J, o.id) # {}
      <4>1. Cardinality((J \ Space!With(J, o.id)) \cup {j0}) <= Cardinality(J)
        BY <1>0, <3>2, <3>4, OneForSome
      <4> QED
        BY <1>0, <2>2, <3>1, <4>1
    <3> QED
      BY <3>3, <3>4
  <2>7. CASE o.kind \in {"initialize", "deleteJob", "deleteAll"}
    <3>1. space'.versions \subseteq V /\ space'.jobs \subseteq J
      BY <2>0, <2>7 DEF Space!Length, SpaceInv, WorkSound, Holds
    <3> QED
      BY <1>0, <2>2, <3>1, FS_Subset
  <2> QED
    BY <2>0, <2>3, <2>4, <2>5, <2>6, <2>7 DEF Requests
<1> QED
  BY <1>1, <1>2
  DEF Space!Next, spaceVars, Space!Askings, Space!SaveVersion, Space!AddSnapshot,
      Space!DeleteVersion, Space!SaveNewJob, Space!SaveOldJob, Space!DeleteJob, Space!DeleteAll,
      Space!Call, Space!CallInitialize, Space!Close, Space!Writes, Space!CreateSchema,
      Space!StampVersion, Space!InsertVersion, Space!InsertFirst, Space!InsertSnapshot,
      Space!UpdateLatest, Space!Unlink, Space!DropSnapshots, Space!DropVersion, Space!PutJob,
      Space!DropJob, Space!DropAllJobs, Space!DropAllSnapshots, Space!DropAllVersions,
      Space!Write, Space!Rejects, Space!CloseHandle, Space!Kill

\* A save respects the limit of the plan it was called with, however many waited
\* then (enqueuePreparedSave, saveVersion, saveJob).
THEOREM CapsStayHeld == ClientsSpec => CapsHeld
<1>1. SpaceInv /\ [ClientsNext]_clientsVars => [CapsKept]_spaceVars
  BY SpaceInvCaps DEF ClientsNext, clientsVars
<1>2. ClientsSpec => Space!CapsHeld
  BY <1>1, SpaceHolds, PTL
  DEF ClientsSpec, Space!CapsHeld, CapsKept, Grows, Limited, spaceVars, Space!vars
<1> QED
  BY <1>2, CapsOfReports DEF CapsHeld

-----------------------------------------------------------------------------
(* InstallationToken: what InstallationTokenProofs shows of the phone's     *)
(* token holds of every behaviour here, since the other parts leave it.     *)

LEMMA TokenKept == ClientsSpec => []TokenInv
<1>1. ClientsInit => TokenInv
  BY TokenInit DEF ClientsInit
<1>2. TokenInv /\ [ClientsNext]_clientsVars => TokenInv'
  BY TokenStep DEF ClientsNext, clientsVars
<1> QED
  BY <1>1, <1>2, PTL DEF ClientsSpec

\* A cancelled issue never becomes the installation, the active one is whole,
\* callers share the one issue that can commit, and an identity is answered with
\* its own token (issue, cancelBeforeCommit, getOrIssueIdentity).
THEOREM TokensStaySound == ClientsSpec => []TokensSound
<1>1. TokenInv => TokensSound
  BY TokenShows DEF TokensSound
<1> QED
  BY <1>1, TokenKept, PTL

\* A refused token retires no installation but its own, however late its caller
\* says so (invalidate).
THEOREM RefusedTokenIsItsOwn == ClientsSpec => InvalidatesOnlyItsToken
<1>1. TokenInv => [OnlyItsToken]_vars
  BY TokenRetires
<1> QED
  BY <1>1, TokenKept, PTL DEF InvalidatesOnlyItsToken, OnlyItsToken
=============================================================================
