-------------------------------- MODULE Billing --------------------------------
(***************************************************************************)
(* Purchases on the phone: RevenueCatBillingService behind BillingProvider.*)
(* What opens the paid functions is a plan the server verified for the     *)
(* installation, not what the SDK shows.  The SDK is configured once, with *)
(* the identity the installation has then; the server may refuse the token *)
(* later, and the installation gets another identity.                      *)
(*                                                                         *)
(* The store has one subscription, [owner, until]; RevenueCat and the      *)
(* server's answer are external.  Between the answer of the server and its *)
(* use time may pass, and what is shown is computed once.                  *)
(***************************************************************************)
EXTENDS Naturals

CONSTANTS MaxTime,     \* bound on the clock
          Period,      \* length of a subscription
          PlanTtl,     \* PLAN_CACHE_MAX_SECONDS of the server
          MaxIdentity, \* bound on the identities of the installation
          MaxOps,      \* bound on the operations begun
          None

(* What the constants are; MCClients assumes it.                           *)
BillingAssumption ==
  /\ MaxTime \in Nat /\ Period \in Nat \ {0} /\ PlanTtl \in Nat
  /\ MaxIdentity \in Nat \ {0} /\ MaxOps \in Nat
  /\ None \notin [kind : {"free", "pro"}, until : Nat, expires : Nat]

VARIABLES now, sub, identity,
          configured, \* identity RevenueCat was configured with, or 0
          products,   \* packageByProductId is not empty
          sdk,        \* sdkShowsPro
          service,    \* [status, active, plan, allowance]
          shown,      \* the snapshot of BillingProvider, or None
          op,         \* the operation that holds operationLocked, or None
          ops

vars == <<now, sub, identity, configured, products, sdk, service, shown, op, ops>>
store == <<now, sub, identity>>

Init ==
  /\ now = 0 /\ identity = 1
  /\ sub \in {[owner |-> 0, until |-> 0]} \cup {[owner |-> o, until |-> Period] : o \in {0, 1}}
  /\ configured = 0 /\ products = FALSE /\ sdk = FALSE
  /\ service = [status |-> "loading", active |-> FALSE, plan |-> None, allowance |-> None]
  /\ shown = None /\ op = None /\ ops = 0

TypeOK ==
  /\ now \in 0..MaxTime /\ {identity, configured, sub.owner} \subseteq 0..MaxIdentity
  /\ {products, sdk, service.active} \subseteq BOOLEAN
  /\ service.status \in {"loading", "free", "pro_verified", "pro_verification_needed"}
  /\ service.allowance \in {None, "free", "pro"}
  /\ shown # None => shown.availability \in {"ready", "error"}
  /\ op # None => /\ op.kind \in {"load", "purchase", "restore"}
                  /\ op.step \in {"configure", "sheet", "sync", "apply"}

SmallerOf(a, b) == IF a < b THEN a ELSE b
Lasts(s) == now < s.until
Attributed(to) == sub.owner = to /\ Lasts(sub)

(* The plan the server verifies for the installation, with its allowance.  *)
ServerPlan ==
  IF Attributed(identity)
    THEN [kind |-> "pro", until |-> SmallerOf(now + PlanTtl, sub.until), expires |-> sub.until]
    ELSE [kind |-> "free", until |-> now + PlanTtl, expires |-> 0]

Current(plan) == now < plan.until
Pro(plan) == plan.kind = "pro" /\ Current(plan) /\ now < plan.expires

Applied(plan) ==
  [status |-> IF Pro(plan) THEN "pro_verified"
              ELSE IF Current(plan) /\ plan.kind = "free" THEN "free" ELSE "pro_verification_needed",
   active |-> Pro(plan), plan |-> plan, allowance |-> plan.kind]

(* requireVerification; the allowance stays.                               *)
Unverified_KeepsPlan(shows) == [service EXCEPT !.active = FALSE]
Unverified(shows) ==
  [service EXCEPT !.active = FALSE, !.plan = None,
                  !.status = IF shows THEN "pro_verification_needed" ELSE "free"]

Snapshot(availability, s) == [availability |-> availability, service |-> s]

---------------------------------------------------------------------------
(* Operations: "load", "purchase" and "restore".  A purchase is offered    *)
(* when products are known and nothing is active, and a restore when the   *)
(* App Store can be reached at all.                                        *)

Begin(kind) ==
  /\ op = None /\ ops < MaxOps
  /\ kind = "load" /\ shown # None => shown.availability = "error"
  /\ kind = "purchase" => /\ shown # None /\ shown.availability = "ready"
                          /\ ~shown.service.active /\ products
  /\ kind = "restore" => shown # None
  /\ op' = [kind |-> kind, step |-> "configure", answer |-> None]
  /\ ops' = ops + 1
  /\ UNCHANGED <<store, configured, products, sdk, service, shown>>

At(kinds, step) == op # None /\ op.kind \in kinds /\ op.step = step
Goes(step) == op' = [op EXCEPT !.step = step] /\ UNCHANGED <<store, service, shown, ops>>
After(kind) == IF kind = "load" THEN "sync" ELSE "sheet"
Ends == op' = None /\ UNCHANGED <<store, configured, products, ops>>

(* getConfiguredModule keeps a configuration that succeeded.               *)
Configure ==
  /\ At({"load", "purchase", "restore"}, "configure")
  /\ configured' = IF configured = 0 THEN identity ELSE configured
  /\ Goes(After(op.kind)) /\ UNCHANGED <<products, sdk>>

(* A load that fails is shown, any other operation only told.              *)
ConfigureFails ==
  /\ At({"load", "purchase", "restore"}, "configure") /\ configured = 0
  /\ service' = IF op.kind = "load" THEN Unverified(sdk) ELSE service
  /\ shown' = IF op.kind = "load" THEN Snapshot("error", service') ELSE shown
  /\ Ends /\ UNCHANGED sdk

(* The sheet of the App Store.  The purchase, or what was bought before,   *)
(* becomes that of the identity the SDK was configured with.               *)
Buys ==
  /\ At({"purchase"}, "sheet")
  /\ sub' = [owner |-> configured, until |-> now + Period]
  /\ sdk' = TRUE
  /\ op' = [op EXCEPT !.step = "sync"]
  /\ UNCHANGED <<now, identity, configured, products, service, shown, ops>>

Restores ==
  /\ At({"restore"}, "sheet")
  /\ sub' = IF Lasts(sub) THEN [sub EXCEPT !.owner = configured] ELSE sub
  /\ sdk' = Lasts(sub)
  /\ op' = [op EXCEPT !.step = "sync"]
  /\ UNCHANGED <<now, identity, configured, products, service, shown, ops>>

(* Cancelled or failed: the provider shows what it showed.                 *)
SheetFails ==
  /\ At({"purchase", "restore"}, "sheet")
  /\ Ends /\ UNCHANGED <<sdk, service, shown>>

(* planApi.sync is answered; load waits for the offerings and the          *)
(* customer's information too, which may fail.                             *)
Synced ==
  /\ At({"load", "purchase", "restore"}, "sync")
  /\ op' = [op EXCEPT !.step = "apply", !.answer = ServerPlan]
  /\ UNCHANGED <<store, configured, products, sdk, service, shown, ops>>
SyncFails ==
  /\ At({"load", "purchase", "restore"}, "sync")
  /\ Goes("apply") /\ UNCHANGED <<configured, products, sdk>>

(* What BillingProvider shows is computed once, after the change.          *)
Publish_Before(availability) == shown' = Snapshot(availability, service)
Publish(availability)        == shown' = Snapshot(availability, service')

Told ==
  /\ At({"load"}, "apply")
  /\ \E offerings \in BOOLEAN, info \in BOOLEAN :
       /\ products' = (products \/ offerings)
       /\ sdk' = IF info THEN Attributed(configured) ELSE sdk
       /\ service' = IF op.answer = None THEN Unverified(sdk') ELSE Applied(op.answer)
       /\ Publish(IF offerings /\ op.answer # None THEN "ready" ELSE "error")
  /\ op' = None /\ UNCHANGED <<store, configured, ops>>

Refreshed ==
  /\ At({"purchase", "restore"}, "apply")
  /\ service' = IF op.answer = None THEN Unverified(sdk) ELSE Applied(op.answer)
  /\ Publish(IF op.answer = None THEN "error" ELSE "ready")
  /\ Ends /\ UNCHANGED sdk

---------------------------------------------------------------------------
Tick ==
  /\ now < MaxTime /\ now' = now + 1
  /\ UNCHANGED <<sub, identity, configured, products, sdk, service, shown, op, ops>>

(* The server refuses the token, and the next call has another issued.     *)
Reissue ==
  /\ identity < MaxIdentity /\ identity' = identity + 1
  /\ UNCHANGED <<now, sub, configured, products, sdk, service, shown, op, ops>>

Relaunch ==
  /\ configured # 0
  /\ configured' = 0 /\ products' = FALSE /\ sdk' = FALSE
  /\ service' = [status |-> "loading", active |-> FALSE, plan |-> None, allowance |-> None]
  /\ shown' = None /\ op' = None
  /\ UNCHANGED <<store, ops>>

Next ==
  \/ \E kind \in {"load", "purchase", "restore"} : Begin(kind)
  \/ Configure \/ ConfigureFails \/ Buys \/ Restores \/ SheetFails \/ Synced \/ SyncFails
  \/ Told \/ Refreshed \/ Tick \/ Reissue \/ Relaunch

Spec == Init /\ [][Next]_vars

---------------------------------------------------------------------------
(* The two gates: entitlementActive opens 10 000 reports and the PDF, and  *)
(* a plan that is checked against the clock opens the larger workspace     *)
(* (planCaps, isVerifiedWorkspacePro).                                     *)
ReportsPro == shown # None /\ shown.service.active
WorkspacePro == shown # None /\ shown.service.plan # None /\ Pro(shown.service.plan)

(* No paid function without a plan that the server verified and that was   *)
(* current when it was applied, whatever the SDK shows; and the workspace  *)
(* opens only for a plan that the rest of the app shows too, also after a  *)
(* verification failed (applyVerifiedPlan, requireVerification).           *)
ProNeedsActivePlan ==
  /\ WorkspacePro => ReportsPro
  /\ ReportsPro => /\ shown.service.plan # None /\ shown.service.plan.kind = "pro"
                   /\ shown.service.allowance = "pro"

(* A purchase or a restore whose identity is still the installation's ends *)
(* with the paid functions open if the server could be asked and the       *)
(* subscription lasts (purchase, restore, refreshVerifiedPlan).            *)
PurchaseActivates ==
  [][/\ At({"purchase", "restore"}, "apply") /\ op' = None /\ shown' # None
     /\ op.answer # None /\ configured = identity /\ Attributed(configured)
     /\ now < op.answer.until
     => ReportsPro']_vars
=============================================================================
