------------------------------ MODULE ReportExport ------------------------------
(***************************************************************************)
(* Sharing and deleting on the result screens, and the exporter they all   *)
(* use.  A screen has at most one authority, for a share or for a          *)
(* deletion; what it awaited is shown only if the authority still holds.   *)
(* The exporter runs one operation at a time: printing a PDF into the      *)
(* cache directory of the system, showing the share sheet, deleting the    *)
(* file.  The person may go back, leave the app, or be shown another copy  *)
(* of the report between any two steps; a deletion may fail.               *)
(***************************************************************************)
EXTENDS Naturals, FiniteSets, Sequences

CONSTANTS Screens,  \* mounted result screens
          None,
          MaxPrints, \* bound on the PDFs, which are 1..MaxPrints
          MaxQueue,  \* bound on the operations that wait
          MaxKills

Authorities == [kind : {"pdf", "text", "delete"}, aborted : BOOLEAN, stale : BOOLEAN]

ShareAssumption == None \notin Authorities

VARIABLES open,     \* screens that are mounted
          authority,\* Screens -> [kind, aborted, stale], or None
          tail,     \* operations of the exporter, [kind, screen]; the head runs
          stage,    \* of the head
          receipt,  \* Screens -> the PDF its receipt stands for
          active,   \* activeUris
          files,    \* PDFs in the directory
          prints,
          failed,   \* history: PDFs whose deletion failed, or that a kill left
          kills

vars == <<open, authority, tail, stage, receipt, active, files, prints, failed, kills>>
screen == <<open, authority>>
exporter == <<tail, stage, receipt, active>>
disk == <<files, prints, failed, kills>>

Init ==
  /\ open = {} /\ authority = [s \in Screens |-> None]
  /\ tail = <<>> /\ stage = "called" /\ receipt = [s \in Screens |-> None]
  /\ active = {} /\ files = {}
  /\ prints = 0 /\ failed = {} /\ kills = 0

TypeOK ==
  /\ open \subseteq Screens
  /\ authority \in [Screens -> Authorities \cup {None}]
  /\ tail \in Seq([kind : {"cleanup", "export", "share", "discard"}, screen : Screens])
  /\ stage \in {"called", "print", "available", "sheet", "delete"}
  /\ receipt \in [Screens -> 1..prints \cup {None}]
  /\ active \subseteq 1..prints /\ files \subseteq 1..prints /\ prints \in Nat

Op == Head(tail)
Uses(s) == authority[s] # None \/ \E i \in DOMAIN tail : tail[i].screen = s
Enqueue(kind, s) == tail' = Append(tail, [kind |-> kind, screen |-> s])

(* routeIsCurrent *)
IsCurrent(s) == s \in open /\ ~authority[s].aborted /\ ~authority[s].stale

---------------------------------------------------------------------------
(* The screen.                                                             *)

(* A screen that is opened deletes what earlier ones left behind.          *)
Mount(s) ==
  /\ s \notin open /\ ~Uses(s) /\ Len(tail) < MaxQueue
  /\ open' = open \cup {s}
  /\ Enqueue("cleanup", s)
  /\ UNCHANGED <<authority, stage, receipt, active, disk>>

Begin(s, kind) ==
  /\ s \in open /\ authority[s] = None
  /\ authority' = [authority EXCEPT ![s] = [kind |-> kind, aborted |-> FALSE, stale |-> FALSE]]
  /\ UNCHANGED open

Finish(s) == authority' = [authority EXCEPT ![s] = None] /\ UNCHANGED open

SharePdf(s) ==
  /\ Begin(s, "pdf") /\ prints < MaxPrints /\ Len(tail) < MaxQueue
  /\ Enqueue("export", s)
  /\ UNCHANGED <<stage, receipt, active, disk>>

(* Text, or the deletion of the report: one call that is answered.         *)
ShareText(s) == Begin(s, "text") /\ UNCHANGED <<exporter, disk>>
DeleteReport(s) == Begin(s, "delete") /\ UNCHANGED <<exporter, disk>>
Answer(s) ==
  /\ authority[s] # None /\ authority[s].kind # "pdf"
  /\ Finish(s) /\ UNCHANGED <<exporter, disk>>

Abort(abandoned) ==
  authority' = [s \in Screens |->
    IF authority[s] # None /\ abandoned[s] THEN [authority[s] EXCEPT !.aborted = TRUE]
    ELSE authority[s]]

(* AppState inactive or background aborts the shares.                      *)
Background ==
  /\ Abort([s \in Screens |-> s \in open /\ authority[s] # None /\ authority[s].kind # "delete"])
  /\ UNCHANGED <<open, exporter, disk>>

Unmount(s) ==
  /\ s \in open /\ open' = open \ {s}
  /\ Abort([q \in Screens |-> q = s])
  /\ UNCHANGED <<exporter, disk>>

(* getReport changed, and with it the object that is shown.                *)
Reload(s) ==
  /\ s \in open /\ authority[s] # None
  /\ authority' = [authority EXCEPT ![s].stale = TRUE]
  /\ UNCHANGED <<open, exporter, disk>>

---------------------------------------------------------------------------
(* The exporter.                                                           *)

Runs(kinds, s) == tail # <<>> /\ Op.kind \in kinds /\ stage = s
Goes(s) == stage' = s /\ UNCHANGED <<tail, receipt, active, screen>>
Ends == tail' = Tail(tail) /\ stage' = "called"

(* ReportFileStore.cleanupAbandoned deletes what no receipt stands for, in *)
(* the order of the directory, up to the first deletion that fails.        *)
Sweep == files' = files \cap active /\ UNCHANGED <<prints, failed, kills>>
SweepFails ==
  /\ \E left \in SUBSET (files \ active) \ {{}} :
       files' = (files \cap active) \cup left /\ failed' = failed \cup left
  /\ UNCHANGED <<prints, kills>>

Cleanup ==
  /\ Runs({"cleanup"}, "called") /\ (Sweep \/ SweepFails)
  /\ Ends /\ UNCHANGED <<receipt, active, screen>>

ExportSweeps == Runs({"export"}, "called") /\ Sweep /\ Goes("print")

(* The export rejects; the screen ends its share.                          *)
ExportFails ==
  /\ \/ Runs({"export"}, "called") /\ SweepFails
     \/ Runs({"export"}, "print") /\ UNCHANGED disk
  /\ Ends /\ Finish(Op.screen) /\ UNCHANGED <<receipt, active>>

(* A PDF without a valid page count is deleted, or cannot be.              *)
PrintInvalid ==
  /\ Runs({"export"}, "print")
  /\ prints' = prints + 1
  /\ \/ UNCHANGED <<files, failed>>
     \/ files' = files \cup {prints'} /\ failed' = failed \cup {prints'}
  /\ UNCHANGED kills
  /\ Ends /\ Finish(Op.screen) /\ UNCHANGED <<receipt, active>>

(* The screen shares what it still shows and discards what it does not.    *)
FollowUp_Forgets(s) == IF IsCurrent(s) THEN <<[kind |-> "share", screen |-> s]>> ELSE <<>>
FollowUp(s)         == <<[kind |-> IF IsCurrent(s) THEN "share" ELSE "discard", screen |-> s]>>

Prints ==
  /\ Runs({"export"}, "print")
  /\ prints' = prints + 1
  /\ files' = files \cup {prints'} /\ active' = active \cup {prints'}
  /\ receipt' = [receipt EXCEPT ![Op.screen] = prints']
  /\ tail' = Tail(tail) \o FollowUp(Op.screen)
  /\ stage' = "called"
  /\ UNCHANGED <<screen, failed, kills>>

(* The signal of the share.                                                *)
Wanted_Always(s) == TRUE
Wanted(s)        == ~authority[s].aborted

(* A receipt is used once, and no longer protects its file.                *)
Redeem ==
  /\ Runs({"share", "discard"}, "called")
  /\ active' = active \ {receipt[Op.screen]}
  /\ stage' = IF Op.kind = "share" /\ Wanted(Op.screen) THEN "available" ELSE "delete"
  /\ UNCHANGED <<tail, receipt, screen, disk>>

(* Sharing is available, and nobody has left since.                        *)
OpenSheet ==
  /\ Runs({"share"}, "available") /\ Wanted(Op.screen)
  /\ Goes("sheet") /\ UNCHANGED disk
NoSheet == Runs({"share"}, "available") /\ Goes("delete") /\ UNCHANGED disk
CloseSheet == Runs({"share"}, "sheet") /\ Goes("delete") /\ UNCHANGED disk

DeleteFile ==
  /\ Runs({"share", "discard"}, "delete")
  /\ LET f == receipt[Op.screen] IN
       \/ files' = files \ {f} /\ UNCHANGED failed
       \/ f \in files /\ failed' = failed \cup {f} /\ UNCHANGED files
  /\ UNCHANGED <<prints, kills, active>>
  /\ receipt' = [receipt EXCEPT ![Op.screen] = None]
  /\ Ends /\ Finish(Op.screen)

Kill ==
  /\ kills < MaxKills /\ kills' = kills + 1
  /\ open' = {} /\ authority' = [s \in Screens |-> None]
  /\ tail' = <<>> /\ stage' = "called" /\ receipt' = [s \in Screens |-> None] /\ active' = {}
  /\ failed' = failed \cup files
  /\ UNCHANGED <<files, prints>>

Next ==
  \/ \E s \in Screens : \/ Mount(s) \/ SharePdf(s) \/ ShareText(s) \/ DeleteReport(s)
                        \/ Answer(s) \/ Unmount(s) \/ Reload(s)
  \/ Background \/ Cleanup \/ ExportSweeps \/ ExportFails \/ PrintInvalid \/ Prints \/ Redeem
  \/ OpenSheet \/ NoSheet \/ CloseSheet \/ DeleteFile \/ Kill

Spec == Init /\ [][Next]_vars

---------------------------------------------------------------------------

(* A PDF in the directory belongs to an operation that will delete it,     *)
(* unless its deletion failed or a kill left it; and what has no such      *)
(* operation is not protected from the next clean-up (export, share,       *)
(* discard, cleanupAbandoned; "A temporary PDF is removed when the share   *)
(* sheet closes or fails").                                                *)
PdfAccounted ==
  LET owned == {receipt[tail[i].screen] : i \in {j \in DOMAIN tail : tail[j].kind \in {"share", "discard"}}}
  IN  files \subseteq owned \cup failed /\ active \subseteq owned

(* The share sheet opens over the screen that asked, which was not left    *)
(* since, and for a file that no clean-up of another screen has deleted.   *)
SheetIsWanted ==
  [][Runs({"share"}, "available") /\ stage' = "sheet" =>
       /\ Op.screen \in open /\ ~authority[Op.screen].aborted
       /\ receipt[Op.screen] \in files]_vars
=============================================================================
