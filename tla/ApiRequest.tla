------------------------------ MODULE ApiRequest ------------------------------
(***************************************************************************)
(* A request of ResumeApi (an analysis) or PlanApi (the plan): a token of  *)
(* the installation, the account if there is one, then one POST and its    *)
(* body.  Every wait is raced with one signal, which the caller and a      *)
(* timer abort.  A wait that was won by its answer is "held", and one that *)
(* was rejected is "rejected", until the continuation runs, and the signal *)
(* may be aborted before it does.                                          *)
(* The token store, the account store and the server are external: they    *)
(* answer when they will, or never.                                        *)
(***************************************************************************)
EXTENDS Naturals, FiniteSets

CONSTANTS Analyses, Verifications, \* requests of either kind
          None,
          MaxToken         \* bound on the tokens issued

Requests == Analyses \cup Verifications

(* What the constants are; MCLifecycles assumes it.                        *)
ApiAssumption == MaxToken \in Nat \ {0} /\ None \notin {"caller", "timeout"}

VARIABLES step,      \* Requests -> where it is
          aborted,   \* Requests -> None, "caller" or "timeout"
          committed, \* Requests -> onCommit was called: a token may be stored
          used,      \* Requests -> the token of its headers, or 0
          posts,     \* Requests -> POSTs made
          result,    \* Requests -> None, "ok" or the category of the error
          withdrawn, \* history: requests whose token the store said was cancelled
          refused,   \* tokens an analysis was answered 401 to
          store,     \* the token in the store, or 0
          issued

vars == <<step, aborted, committed, used, posts, result, withdrawn, refused, store, issued>>

Waits == {"token", "account", "post", "body"}
Held == {"token_held", "account_held", "post_held", "body_held"}
HeldOf(wait) == CASE wait = "token" -> "token_held" [] wait = "account" -> "account_held"
                  [] wait = "post" -> "post_held" [] OTHER -> "body_held"
Running(q) == step[q] \in Waits \cup Held \cup {"rejected"}

Init ==
  /\ step = [q \in Requests |-> "new"] /\ aborted = [q \in Requests |-> None]
  /\ committed = [q \in Requests |-> FALSE] /\ used = [q \in Requests |-> 0]
  /\ posts = [q \in Requests |-> 0] /\ result = [q \in Requests |-> None]
  /\ withdrawn = {} /\ refused = {} /\ store \in {0, 1} /\ issued = store

TypeOK ==
  /\ step \in [Requests -> Waits \cup Held \cup {"new", "rejected", "done"}]
  /\ aborted \in [Requests -> {None, "caller", "timeout"}]
  /\ committed \in [Requests -> BOOLEAN] /\ used \in [Requests -> 0..MaxToken]
  /\ posts \in [Requests -> Nat]
  /\ result \in [Requests -> {None, "ok", "error", "network", "service", "invalid_response",
                             "cancelled", "timeout", "indeterminate"}]
  /\ withdrawn \subseteq Requests
  /\ refused \subseteq 1..issued /\ {store, issued} \subseteq 0..MaxToken

To(q, s) == step' = [step EXCEPT ![q] = s]
Ends(q, r) == To(q, "done") /\ result' = [result EXCEPT ![q] = r]
tokens == <<refused, store, issued>>
noted == <<withdrawn, tokens>>

(* The category of a request whose signal was aborted.                     *)
AbortCategory(why) == IF why = "timeout" THEN "timeout" ELSE "cancelled"

(* A caller that has aborted already gets nothing done.                    *)
Begin(q) ==
  /\ step[q] = "new"
  /\ IF aborted[q] = None THEN To(q, "token") /\ UNCHANGED result ELSE Ends(q, "cancelled")
  /\ UNCHANGED <<aborted, committed, used, posts, noted>>

(* A token that may already be stored makes the outcome of an analysis     *)
(* indeterminate.                                                          *)
Outcome_Cancelled(q, why) == AbortCategory(why)
Outcome(q, why) ==
  IF step[q] = "token" /\ committed[q] THEN "indeterminate" ELSE AbortCategory(why)

(* The signal rejects the wait it finds, if it finds one.                  *)
Abort(q, why) ==
  /\ aborted[q] = None
  /\ aborted' = [aborted EXCEPT ![q] = why]
  /\ IF step[q] \in Waits THEN Ends(q, Outcome(q, why)) ELSE UNCHANGED <<step, result>>
  /\ UNCHANGED <<committed, used, posts, noted>>
CallerAborts(q) == step[q] # "done" /\ Abort(q, "caller")
TimesOut(q) == Running(q) /\ Abort(q, "timeout")

---------------------------------------------------------------------------
(* The answers of others.                                                  *)

(* The store begins to persist a token it had issued for this request.     *)
CommitStarts(q) ==
  /\ q \in Analyses /\ step[q] = "token" /\ store = 0 /\ ~committed[q] /\ issued < MaxToken
  /\ committed' = [committed EXCEPT ![q] = TRUE]
  /\ UNCHANGED <<step, aborted, used, posts, result, noted>>

(* A token is stored, for this request or after it has given up.           *)
Stores(q) ==
  /\ store = 0 /\ issued < MaxToken
  /\ committed[q] \/ (q \in Verifications /\ step[q] = "token")
  /\ issued' = issued + 1 /\ store' = issued'
  /\ UNCHANGED <<step, aborted, committed, used, posts, result, withdrawn, refused>>

Answered(q, wait) == step[q] = wait /\ To(q, HeldOf(wait))
TokenAnswered(q) ==
  /\ store # 0 /\ Answered(q, "token") /\ used' = [used EXCEPT ![q] = store]
  /\ UNCHANGED <<aborted, committed, posts, result, noted>>
Settles(q) ==
  /\ \E wait \in Waits \ {"token"} : Answered(q, wait)
  /\ UNCHANGED <<aborted, committed, used, posts, result, noted>>

(* What a wait may be rejected with.  The token store has categories of    *)
(* its own: "cancelled" for an issue that another took its token from,     *)
(* though this caller did not abort; what fetch throws has no category.    *)
Rejections(wait) ==
  CASE wait = "token"   -> {"cancelled", "network", "service", "invalid_response"}
    [] wait = "account" -> {"network"}
    [] wait = "post"    -> {"error"}
    [] OTHER            -> {"invalid_response"}

Fails(q) ==
  /\ step[q] \in Waits /\ To(q, "rejected")
  /\ \E e \in Rejections(step[q]) :
        /\ result' = [result EXCEPT ![q] = e]
        /\ withdrawn' = IF e = "cancelled" THEN withdrawn \cup {q} ELSE withdrawn
  /\ UNCHANGED <<aborted, committed, used, posts, tokens>>

---------------------------------------------------------------------------
(* The continuations.                                                      *)

(* An error with a category is passed on; an analysis passes on the abort  *)
(* of its signal, if there was one, in place of "cancelled".               *)
GivenUp(q) == /\ aborted[q] # None
              /\ \/ result[q] = "error"
                 \/ q \in Analyses /\ result[q] = "cancelled"
Rethrown(q) ==
  CASE GivenUp(q)                         -> AbortCategory(aborted[q])
    [] ~GivenUp(q) /\ result[q] = "error" -> "network"
    [] OTHER                              -> result[q]
Rethrow(q) ==
  /\ step[q] = "rejected" /\ Ends(q, Rethrown(q))
  /\ UNCHANGED <<aborted, committed, used, posts, noted>>

(* awaitAbortable rejects at once when the signal is aborted.              *)
GivesUp(q) == Ends(q, AbortCategory(aborted[q]))

AskAccount(q) ==
  /\ step[q] = "token_held"
  /\ IF aborted[q] = None THEN To(q, "account") /\ UNCHANGED result ELSE GivesUp(q)
  /\ UNCHANGED <<aborted, committed, used, posts, noted>>

(* The signal is looked at once more when all that is sent is known.       *)
MayPost_Always(q) == TRUE
MayPost(q)        == aborted[q] = None

(* The payload is built, and the request posted, only now.                 *)
Post(q) ==
  /\ step[q] = "account_held" /\ MayPost(q)
  /\ posts' = [posts EXCEPT ![q] = @ + 1]
  /\ To(q, "post")
  /\ UNCHANGED <<aborted, committed, used, result, noted>>
PostUnwanted(q) ==
  /\ step[q] = "account_held" /\ ~MayPost(q)
  /\ GivesUp(q)
  /\ UNCHANGED <<aborted, committed, used, posts, noted>>

ReadBody(q) ==
  /\ step[q] = "post_held"
  /\ IF aborted[q] = None THEN To(q, "body") /\ UNCHANGED result ELSE GivesUp(q)
  /\ UNCHANGED <<aborted, committed, used, posts, noted>>

Succeeds(q) ==
  /\ step[q] = "body_held"
  /\ Ends(q, "ok")
  /\ UNCHANGED <<aborted, committed, used, posts, noted>>
ServiceFails(q) ==
  /\ step[q] = "body_held"
  /\ \E r \in {"service", "invalid_response"} : Ends(q, r)
  /\ UNCHANGED <<aborted, committed, used, posts, noted>>

(* 401: the store is told which token was refused and takes it back when   *)
(* it can; the analysis is not sent again.                                 *)
Refused(q) ==
  /\ q \in Analyses /\ step[q] = "body_held"
  /\ refused' = refused \cup {used[q]}
  /\ Ends(q, "service")
  /\ UNCHANGED <<aborted, committed, used, posts, withdrawn, store, issued>>

Invalidated ==
  /\ store \in refused /\ store' = 0
  /\ UNCHANGED <<step, aborted, committed, used, posts, result, withdrawn, refused, issued>>

---------------------------------------------------------------------------
Continues(q) == \/ Rethrow(q) \/ AskAccount(q) \/ Post(q) \/ PostUnwanted(q) \/ ReadBody(q)
                \/ Succeeds(q) \/ ServiceFails(q) \/ Refused(q)

Next ==
  \/ \E q \in Requests :
       \/ Begin(q) \/ Continues(q) \/ CallerAborts(q) \/ TimesOut(q) \/ CommitStarts(q)
       \/ Stores(q) \/ TokenAnswered(q) \/ Settles(q) \/ Fails(q)
  \/ Invalidated

Spec == Init /\ [][Next]_vars

(* Continuations and the timer run; nobody else need answer.               *)
Fairness == \A q \in Requests : WF_vars(Continues(q)) /\ WF_vars(TimesOut(q))

---------------------------------------------------------------------------

(* What the caller is told is what happened: "indeterminate" if and only   *)
(* if the analysis was abandoned while a token might be stored, and then   *)
(* nothing was sent; "timeout" for the timer, and "cancelled" for the      *)
(* caller's abort or, with nothing sent, for a token the store said was    *)
(* cancelled; "ok" only of what was sent, once, and "service" of that or,  *)
(* with nothing sent, of the issue of the token (analyze, request).        *)
ToldTruth ==
  \A q \in Requests : step[q] = "done" =>
    /\ result[q] = "indeterminate" =>
          committed[q] /\ aborted[q] # None /\ posts[q] = 0 /\ q \notin withdrawn
    /\ result[q] = "cancelled" =>
          \/ aborted[q] = "caller" /\ (posts[q] = 0 /\ used[q] = 0 => ~committed[q])
          \/ q \in withdrawn /\ posts[q] = 0
    /\ result[q] = "timeout" =>
          aborted[q] = "timeout" /\ (used[q] = 0 /\ q \notin withdrawn => ~committed[q])
    /\ result[q] = "ok" => posts[q] = 1 /\ used[q] # 0
    /\ result[q] = "service" => (posts[q] = 1 <=> used[q] # 0)

(* No resume leaves the phone for a request that nobody waits for.         *)
NothingSentUnwanted ==
  [][\A q \in Requests : posts'[q] > posts[q] => aborted[q] = None /\ used[q] # 0 /\ posts[q] = 0]_vars

(* A request ends, whoever does not answer (awaitAbortable, the timeout).  *)
RequestEnds == \A q \in Requests : []<>~Running(q)
=============================================================================
