--------------------------- MODULE HistoryController ---------------------------
(***************************************************************************)
(* The history of saved reports as AppControllerRoot shows it.  Operations *)
(* run one after another (serialize); what a closure captured when it was  *)
(* called may be old when its turn comes.  Reports are numbered in the     *)
(* order of their saves; the repository is reduced to its rows, each of    *)
(* its operations succeeds or fails as a whole.  A stage lies between the  *)
(* write and the continuation that shows it, so that a call can come in    *)
(* between.                                                                *)
(***************************************************************************)
EXTENDS Naturals, FiniteSets, Sequences, SequencesExt

CONSTANTS MaxReport,  \* bound on the saves there ever were
          PageSize,   \* HISTORY_PAGE_SIZE, 25 in the code
          Window,     \* MAX_HISTORY_WINDOW, 75 in the code
          Unknown,    \* reportCount = null
          PagesDuringDeletes, \* older reports are asked for while a deletion runs
          MaxCalls    \* bound on the presses

(* What the constants are; MCLifecycles assumes it.                        *)
HistoryAssumption ==
  /\ {MaxReport, PageSize, Window} \subseteq Nat \ {0} /\ PageSize <= Window
  /\ Unknown \notin Nat /\ PagesDuringDeletes \in BOOLEAN

VARIABLES store,    \* the rows of the repository
          newest,   \* number of the last save
          current,  \* number under which the session's result was saved, or 0
          reports, count, cursor, hasNewer, loadingMore, status, generation,
          tail,     \* the serialized operations; the head is running
          stage,    \* of the head: "called", "asked" or "done"
          blind,    \* history: a report was stored and could not be listed
          deleted,  \* history: reports whose deletion was answered
          presses

vars == <<store, newest, current, reports, count, cursor, hasNewer, loadingMore, status, generation,
          tail, stage, blind, deleted, presses>>
rows == <<store, newest, current>>
shown == <<reports, count, cursor, hasNewer>>

Numbers == 1..MaxReport
Operation(kind, id) ==
  [kind |-> kind, id |-> id, generation |-> generation, cursor |-> cursor, reports |-> reports]

Pending(kinds) == \E i \in DOMAIN tail : tail[i].kind \in kinds
Deletes == {"delete", "deleteAll"}
Op == Head(tail)
Listed == ToSet(reports)

Init ==
  /\ newest \in 0..(MaxReport - 1) /\ store = 1..newest /\ current = 0
  /\ reports = <<>> /\ count = Unknown /\ cursor = 0
  /\ hasNewer = FALSE /\ loadingMore = FALSE
  /\ status = "loading"
  /\ generation = 1
  /\ tail = <<[kind |-> "load", id |-> 0, generation |-> 1, cursor |-> 0, reports |-> <<>>]>>
  /\ stage = "called"
  /\ blind = FALSE /\ deleted = {}
  /\ presses = 0

TypeOK ==
  /\ newest \in 0..MaxReport /\ store \subseteq 1..newest /\ current \in 0..newest
  /\ reports \in Seq(Numbers) /\ count \in 0..MaxReport \cup {Unknown} /\ cursor \in 0..MaxReport
  /\ {hasNewer, loadingMore, blind} \subseteq BOOLEAN /\ status \in {"loading", "ready", "error"}
  /\ \A i \in DOMAIN tail : tail[i].kind \in Deletes \cup {"load", "loadMore", "save"}
  /\ stage \in {"called", "asked", "done"} /\ deleted \subseteq Numbers

---------------------------------------------------------------------------
(* What the screens can press.                                             *)

Press(op) ==
  /\ presses < MaxCalls
  /\ presses' = presses + 1
  /\ tail' = Append(tail, op)
  /\ UNCHANGED <<rows, shown, loadingMore, stage, blind, deleted>>

(* returnToNewest, or trying again after an error; the list is not drawn   *)
(* while it loads.                                                         *)
Load ==
  /\ status = "error" \/ (status = "ready" /\ hasNewer /\ ~loadingMore)
  /\ generation' = generation + 1
  /\ status' = "loading"
  /\ Press([Operation("load", 0) EXCEPT !.generation = generation + 1])

LoadMore ==
  /\ status = "ready" /\ reports # <<>> /\ cursor # 0 /\ ~loadingMore
  /\ ~Pending({"loadMore"})
  /\ PagesDuringDeletes \/ ~Pending(Deletes)
  /\ Press(Operation("loadMore", 0))
  /\ UNCHANGED <<generation, status>>

(* Offered while the result is not in the list.                            *)
SaveCurrent ==
  /\ current \notin Listed
  /\ Press(Operation("save", 0))
  /\ UNCHANGED <<generation, status>>

(* A dialog covers the screen until its deletion is answered.              *)
Delete(id) ==
  /\ id \in Listed /\ ~Pending({"delete"})
  /\ Press(Operation("delete", id))
  /\ UNCHANGED <<generation, status>>

DeleteAll ==
  /\ status = "ready" /\ ~Pending({"deleteAll"})
  /\ Press(Operation("deleteAll", 0))
  /\ UNCHANGED <<generation, status>>

---------------------------------------------------------------------------
(* listPage and count.  Numbers are put in order here, and taken out of a   *)
(* list, without SortSeq and SelectSeq, which no prover can expand.         *)
Ascending(S) ==
  CHOOSE s \in [1..Cardinality(S) -> S] : \A i, j \in DOMAIN s : i < j => s[i] < s[j]
NewestFirst(S) == [k \in 1..Cardinality(S) |-> Ascending(S)[Cardinality(S) + 1 - k]]
Without(s, id) ==
  LET kept == {k \in DOMAIN s : s[k] # id}
  IN  [k \in 1..Cardinality(kept) |-> s[Ascending(kept)[k]]]

Older(before) == {i \in store : before = 0 \/ i < before}
Newer(i, before) == {j \in Older(before) : i < j}
PageOf(before) == {i \in Older(before) : Cardinality(Newer(i, before)) < PageSize}
CursorOf(before) ==
  IF Cardinality(Older(before)) > PageSize THEN Min(PageOf(before)) ELSE 0

ShowNewest ==
  /\ reports' = NewestFirst(PageOf(0)) /\ cursor' = CursorOf(0)
  /\ count' = Cardinality(store)
  /\ hasNewer' = FALSE

AtHead(kind, s) == tail # <<>> /\ Op.kind = kind /\ stage = s
Ends == tail' = Tail(tail) /\ stage' = "called"
Goes(s) == stage' = s /\ UNCHANGED <<tail, generation, status, shown, blind, deleted, presses>>

RunLoad ==
  /\ AtHead("load", "called") /\ Ends
  /\ IF Op.generation = generation
       THEN ShowNewest /\ loadingMore' = FALSE /\ status' = "ready" /\ blind' = FALSE
       ELSE UNCHANGED <<shown, loadingMore, status, blind>>
  /\ UNCHANGED <<rows, generation, deleted, presses>>

LoadFails ==
  /\ AtHead("load", "called") /\ Ends /\ Op.generation = generation
  /\ status' = "error"
  /\ UNCHANGED <<rows, shown, loadingMore, generation, blind, deleted, presses>>

BeginLoadMore ==
  /\ AtHead("loadMore", "called") /\ Op.generation = generation
  /\ loadingMore' = TRUE
  /\ Goes("asked") /\ UNCHANGED rows

(* finally: setLoadingMore(false).                                         *)
FooterRests_Never == UNCHANGED loadingMore
FooterRests       == loadingMore' = FALSE

(* The page is appended to the list that was shown at the press, and the   *)
(* newest fall out of a window that is too long.                           *)
EndLoadMore ==
  /\ AtHead("loadMore", "asked") /\ Ends /\ Op.generation = generation
  /\ LET page   == PageOf(Op.cursor) \ ToSet(Op.reports)
         merged == Op.reports \o NewestFirst(page)
         excess == IF Len(merged) > Window THEN Len(merged) - Window ELSE 0
     IN  /\ reports' = SubSeq(merged, excess + 1, Len(merged))
         /\ hasNewer' = (hasNewer \/ excess > 0)
  /\ cursor' = CursorOf(Op.cursor)
  /\ FooterRests /\ status' = "ready"
  /\ UNCHANGED <<rows, count, generation, blind, deleted, presses>>

LoadMoreFails ==
  /\ AtHead("loadMore", "asked") /\ Ends /\ Op.generation = generation
  /\ FooterRests
  /\ UNCHANGED <<rows, shown, status, generation, blind, deleted, presses>>

LoadMoreStale ==
  /\ tail # <<>> /\ Op.kind = "loadMore" /\ Op.generation # generation /\ Ends
  /\ UNCHANGED <<rows, shown, loadingMore, status, generation, blind, deleted, presses>>

SaveFinds ==
  /\ AtHead("save", "called") /\ current \in store /\ Ends
  /\ reports' = IF current \in Listed THEN reports ELSE <<current>> \o reports
  /\ UNCHANGED <<rows, count, cursor, hasNewer, loadingMore, status, generation, blind,
                 deleted, presses>>

SaveWrites ==
  /\ AtHead("save", "called") /\ current \notin store /\ newest < MaxReport
  /\ newest' = newest + 1 /\ current' = newest'
  /\ store' = store \cup {newest'}
  /\ Goes("done") /\ UNCHANGED loadingMore

(* What was asked of the list before has been overtaken.                   *)
Supersede_Never == UNCHANGED generation
Supersede       == generation' = generation + 1

SaveShows ==
  /\ AtHead("save", "done") /\ Ends
  /\ ShowNewest /\ status' = "ready" /\ Supersede /\ blind' = FALSE
  /\ UNCHANGED <<rows, loadingMore, deleted, presses>>

SaveFails ==
  /\ tail # <<>> /\ Op.kind = "save" /\ Ends
  /\ blind' = (blind \/ stage = "done")
  /\ UNCHANGED <<rows, shown, loadingMore, status, generation, deleted, presses>>

DeleteWrites ==
  /\ AtHead("delete", "called") /\ Op.id \in store
  /\ store' = store \ {Op.id} /\ UNCHANGED <<newest, current>>
  /\ Goes("done") /\ UNCHANGED loadingMore

DeleteShows ==
  /\ AtHead("delete", "done") /\ Ends
  /\ reports' = Without(reports, Op.id)
  /\ count' = IF count \in {Unknown, 0} THEN count ELSE count - 1
  /\ deleted' = deleted \cup {Op.id}
  /\ UNCHANGED <<rows, cursor, hasNewer, loadingMore, status, generation, blind, presses>>

DeleteFails ==
  /\ tail # <<>> /\ Op.kind \in Deletes /\ stage = "called" /\ Ends
  /\ UNCHANGED <<rows, shown, loadingMore, status, generation, blind, deleted, presses>>

DeleteAllWrites ==
  /\ AtHead("deleteAll", "called")
  /\ store' = {} /\ UNCHANGED <<newest, current>>
  /\ Goes("done") /\ UNCHANGED loadingMore

DeleteAllShows ==
  /\ AtHead("deleteAll", "done") /\ Ends
  /\ reports' = <<>> /\ count' = 0 /\ cursor' = 0 /\ hasNewer' = FALSE /\ status' = "ready"
  /\ deleted' = 1..newest /\ blind' = FALSE
  /\ UNCHANGED <<rows, loadingMore, generation, presses>>

---------------------------------------------------------------------------
Presses ==
  \/ Load \/ LoadMore \/ SaveCurrent \/ DeleteAll
  \/ \E id \in Numbers : Delete(id)

Runs ==
  \/ RunLoad \/ LoadFails \/ BeginLoadMore \/ EndLoadMore \/ LoadMoreFails \/ LoadMoreStale
  \/ SaveFinds \/ SaveWrites \/ SaveShows \/ SaveFails \/ DeleteWrites \/ DeleteShows
  \/ DeleteFails \/ DeleteAllWrites \/ DeleteAllShows

Next == Presses \/ Runs
Spec == Init /\ [][Next]_vars

(* serialize goes on whatever became of an operation.                      *)
Fairness == WF_vars(Runs)

Settled == tail = <<>> /\ status = "ready" /\ ~blind

(* Pages neither lose nor invent a report: one that is stored is in the    *)
(* list, or older than the cursor, or newer than a list that says so, and  *)
(* one that is listed is stored (loadMore, load, saveCurrent).             *)
ListMatchesStore ==
  Settled =>
    /\ Listed \subseteq store
    /\ ~hasNewer => \A i \in store \ Listed : i < cursor

(* The number that the free plan is checked against is that of the store.  *)
CountHonest == Settled => count = Cardinality(store)

(* A report that was deleted leaves the list and stays out of it.          *)
DeletedStaysOut == Listed \cap deleted = {}

(* The list does not load for ever (historyGeneration, loadMoreFlight).    *)
Loading == status = "loading" \/ loadingMore
LoadingEnds == []<>~Loading
=============================================================================
