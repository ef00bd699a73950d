------------------------------- MODULE WebClient -------------------------------
(***************************************************************************)
(* The web page: one form, the submissions it makes, and the owner         *)
(* (RequestLifecycle) that decides whose answers are shown.  The form's    *)
(* contents are reduced to a number that every edit raises; the server and *)
(* the network are external and answer late, wrongly or not at all.  The   *)
(* page can be left and shown again as it was, from the browser's cache,   *)
(* or be loaded anew in the same session.                                  *)
(***************************************************************************)
EXTENDS Naturals

CONSTANTS Submissions, None,
          MaxEdits, MaxTokens, MaxLeaves \* bounds on edits, tokens issued, departures

(* What the constants are; MCClients assumes it.                           *)
WebAssumption ==
  /\ MaxEdits \in Nat /\ MaxTokens \in Nat \ {0} /\ MaxLeaves \in Nat
  /\ None \notin Submissions \cup Nat

VARIABLES inputs,   \* what the form holds
          token,    \* state.installationToken, or 0
          session,  \* the token in sessionStorage, or 0
          keeps,    \* sessionStorage can be written
          active,   \* lifecycle.active
          aborted,  \* submissions whose controller was aborted
          step,     \* Submissions -> what it awaits
          sent,     \* Submissions -> the inputs it was made of
          busy,     \* the controls are disabled, but for cancel
          report, error,
          page,     \* "shown" or "hidden"
          stranded, \* history: the page was left while a submission was active
          issued, leaves

vars == <<inputs, token, session, keeps, active, aborted, step, sent, busy, report, error, page,
          stranded, issued, leaves>>
tokens == <<token, session, issued>>
shown == <<busy, report, error>>
lifecycle == <<active, aborted>>
visit == <<keeps, page, stranded, leaves>>

Awaits == {"issue", "issued", "post", "body"}

Init ==
  /\ inputs = 0 /\ keeps \in BOOLEAN
  /\ session \in IF keeps THEN {0, 1} ELSE {0}
  /\ token = session /\ issued = session
  /\ active = None /\ aborted = {}
  /\ step = [s \in Submissions |-> "new"] /\ sent = [s \in Submissions |-> None]
  /\ busy = FALSE /\ report = None /\ error = None
  /\ page = "shown" /\ stranded = FALSE /\ leaves = 0

TypeOK ==
  /\ inputs \in 0..MaxEdits /\ {token, session, issued} \subseteq 0..MaxTokens
  /\ active \in Submissions \cup {None} /\ aborted \subseteq Submissions
  /\ step \in [Submissions -> Awaits \cup {"new", "done"}]
  /\ report \in 0..MaxEdits \cup {None} /\ error \in {None, "validation", "request", "cancelled"}

(* RequestLifecycle.                                                       *)
Owns_Any(s) == active # None
Owns(s)     == active = s /\ s \notin aborted
Invalidate == active' = None /\ aborted' = aborted \cup ({active} \ {None})

SaveToken(t) == token' = t /\ session' = IF keeps THEN t ELSE session
ClearToken == token' = 0 /\ session' = 0 /\ UNCHANGED issued

---------------------------------------------------------------------------
(* The form.                                                               *)

(* setBusy(false), if a submission is superseded.                          *)
Enable_Never == UNCHANGED busy
Enable       == busy' = IF active # None THEN FALSE ELSE busy

(* An edit is not kept from a form that is busy: the dialog of the file    *)
(* input may have been open when it was submitted.  A new file also clears *)
(* the error.                                                              *)
Edit ==
  /\ page = "shown" /\ inputs < MaxEdits
  /\ inputs' = inputs + 1
  /\ Enable
  /\ Invalidate
  /\ error' \in {error, None}
  /\ UNCHANGED <<step, sent, report, tokens, visit>>

(* localValidation                                                         *)
Refuse ==
  /\ page = "shown" /\ ~busy
  /\ error' = "validation"
  /\ UNCHANGED <<inputs, lifecycle, step, sent, busy, report, tokens, visit>>

Submit(s) ==
  /\ page = "shown" /\ ~busy /\ step[s] = "new"
  /\ active' = s /\ aborted' = aborted \cup ({active} \ {None})
  /\ sent' = [sent EXCEPT ![s] = inputs]
  /\ step' = [step EXCEPT ![s] = IF token = 0 THEN "issue" ELSE "post"]
  /\ busy' = TRUE /\ report' = None /\ error' = None
  /\ UNCHANGED <<inputs, tokens, visit>>

Cancel ==
  /\ page = "shown" /\ busy
  /\ Invalidate
  /\ IF active = None THEN UNCHANGED <<busy, error>> ELSE busy' = FALSE /\ error' = "cancelled"
  /\ UNCHANGED <<inputs, step, sent, report, tokens, visit>>

---------------------------------------------------------------------------
(* The answers.  Each continuation asks first whether it still owns the    *)
(* page; one that does not ends, and shows nothing.                        *)

At(s, awaits) == page = "shown" /\ step[s] \in awaits
To(s, next) == step' = [step EXCEPT ![s] = next] /\ UNCHANGED <<inputs, sent, visit>>

Drop(s) ==
  /\ At(s, Awaits) /\ ~Owns(s)
  /\ To(s, "done") /\ UNCHANGED <<lifecycle, shown, tokens>>

(* What the finally clause does for an owner, with what is shown.          *)
Finish(s, r, e) ==
  /\ To(s, "done")
  /\ active' = None /\ UNCHANGED aborted
  /\ busy' = FALSE /\ report' = r /\ error' = e

Answered(s) ==
  /\ At(s, {"issue", "post"}) /\ Owns(s)
  /\ To(s, IF step[s] = "issue" THEN "issued" ELSE "body")
  /\ UNCHANGED <<lifecycle, shown, tokens>>

Issued(s) ==
  /\ At(s, {"issued"}) /\ Owns(s) /\ issued < MaxTokens
  /\ issued' = issued + 1 /\ SaveToken(issued')
  /\ To(s, "post") /\ UNCHANGED <<lifecycle, shown>>

Render(s) ==
  /\ At(s, {"body"}) /\ Owns(s)
  /\ Finish(s, sent[s], error) /\ UNCHANGED tokens

(* The network, another status than expected, an answer off the contract;  *)
(* 401 has the next submission ask for another token.                      *)
Fail(s) ==
  /\ At(s, Awaits) /\ Owns(s)
  /\ Finish(s, report, "request")
  /\ \/ UNCHANGED tokens
     \/ step[s] = "body" /\ ClearToken

---------------------------------------------------------------------------
(* Leaving.                                                                *)

PageHide ==
  /\ page = "shown" /\ leaves < MaxLeaves
  /\ page' = "hidden" /\ leaves' = leaves + 1
  /\ stranded' = (stranded \/ active # None)
  /\ Invalidate
  /\ UNCHANGED <<inputs, keeps, step, sent, shown, tokens>>

PageShow ==
  /\ page = "hidden" /\ page' = "shown"
  /\ UNCHANGED <<inputs, lifecycle, step, sent, shown, tokens, keeps, stranded, leaves>>

Reload ==
  /\ page = "hidden" /\ page' = "shown"
  /\ token' = session
  /\ active' = None /\ busy' = FALSE /\ report' = None /\ error' = None /\ stranded' = FALSE
  /\ step' = [s \in Submissions |-> IF step[s] = "new" THEN "new" ELSE "done"]
  /\ UNCHANGED <<inputs, aborted, sent, session, issued, keeps, leaves>>

Next ==
  \/ Edit \/ Refuse \/ Cancel \/ PageHide \/ PageShow \/ Reload
  \/ \E s \in Submissions : \/ Submit(s) \/ Drop(s) \/ Answered(s) \/ Issued(s) \/ Render(s)
                            \/ Fail(s)

Spec == Init /\ [][Next]_vars

---------------------------------------------------------------------------

(* What an older submission is answered changes neither what the page      *)
(* shows nor its token, and a report is shown only while the form still    *)
(* holds what the report is about (owns, invalidateForEdit).               *)
OlderAnswersSilent ==
  [][/\ \A s \in Submissions :
          step'[s] # step[s] /\ step[s] \in Awaits /\ active # s /\ page' = page
            => UNCHANGED <<shown, tokens>>
     /\ report' # report /\ report' # None => report' = inputs]_vars

(* The controls are disabled exactly while a submission owns the page, so  *)
(* that the form can be used again after an edit, a cancellation or an     *)
(* answer; only a page that was left with a submission and is shown again  *)
(* from the browser's cache stays disabled (setBusy, pagehide).            *)
FormUsable == ~stranded => (busy <=> active # None)
=============================================================================
