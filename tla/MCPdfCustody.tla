---------------------------- MODULE MCPdfCustody -----------------------------
(* The copies of PDFs the device keeps, on small instances.  Two owners of  *)
(* a picked PDF's copy: the analysis coordinator (AnalysisCoordinator),     *)
(* which decides when it goes, and below it the registry of the directories *)
(* of the cache (TempFileRegistry); and the PDFs of a share (ReportExport). *)
(* Each has the promises of its neighbours as steps of its own, so a        *)
(* behaviour steps only one of the three.                                   *)
EXTENDS MCAnalysisCoordinator

CONSTANTS Callers, Requests, MaxAsks, MaxSweeps, MaxRestarts
VARIABLES exists, bytes, live, operations, at, req, caller, asks, receipt,
          entries, target, missed, swept, restarts
Registry     == INSTANCE TempFileRegistry
                WITH fence <- operations, pick <- caller, sweeps <- swept
registryVars == <<exists, bytes, live, operations, at, req, caller, asks,
                  receipt, entries, target, missed, swept, restarts>>

CONSTANTS Screens, MaxPrints, MaxQueue, MaxKills
VARIABLES open, authority, tail, shareStage, pdf, inUse, pdfs, prints, failed, shareKills
Share     == INSTANCE ReportExport
             WITH stage <- shareStage, receipt <- pdf, active <- inUse, files <- pdfs,
                  kills <- shareKills
shareVars == <<open, authority, tail, shareStage, pdf, inUse, pdfs, prints, failed, shareKills>>

ASSUME CustodyAssumption == Registry!RegistryAssumption /\ Share!ShareAssumption

VARIABLE stepping   \* the component this behaviour steps
custodyVars == <<vars, registryVars, shareVars, stepping>>

\* One initial state of each component that does not step is enough.
CustodyInit ==
    /\ Init /\ Registry!Init /\ Share!Init
    /\ stepping \in {"coordinator", "registry", "share"}
    /\ stepping # "coordinator" => requireLocalPdfReview /\ disk = {}
    /\ stepping # "registry" => req = [c \in Callers |-> CHOOSE r \in Requests : TRUE]

CustodyNext ==
    /\ \/ /\ stepping = "coordinator" /\ Next
          /\ UNCHANGED <<registryVars, shareVars>>
       \/ /\ stepping = "registry" /\ Registry!Next
          /\ UNCHANGED <<vars, shareVars>>
       \/ /\ stepping = "share" /\ Share!Next
          /\ UNCHANGED <<vars, registryVars>>
    /\ UNCHANGED stepping

CustodySpec == CustodyInit /\ [][CustodyNext]_custodyVars

\* AnalysisCoordinator: at rest nothing is left of a PDF but what is shown,
\* every picked PDF has an end to come, and a busy app has a task to end it.
PdfsHaveAnEnd ==
    stepping = "coordinator" => ReadyMeansClean /\ EveryPdfHasAnEnd /\ BusyHasATask

\* TempFileRegistry: a live request's directory holds its caller's copy only,
\* what was handed out stays until its cleanup is asked for, a receipt of
\* deletion speaks the truth, and a live request has somebody to give it back.
CopiesKept ==
    stepping = "registry" =>
        /\ Registry!OwnBytesOnly /\ Registry!SourceKept
        /\ Registry!DeletedMeansGone /\ Registry!LiveHasHolder

\* TempFileRegistry: a clean sweep left nothing.
SweepHonest == Registry!SweepHonest

\* ReportExport: every PDF of a share has an operation that deletes it.
PdfAccounted == Share!PdfAccounted

\* ReportExport: the share sheet opens over who asked, for a file that is there.
SheetIsWanted == Share!SheetIsWanted

CustodySymmetry == Symmetry \cup Permutations(Callers)
=============================================================================
