---------------------------- MODULE MCAdmission ----------------------------
(* Admission under three loads: PDFs of two sizes to one process, requests  *)
(* of either source that ask for AI on any process, and texts to one        *)
(* process.                                                                 *)
EXTENDS Admission, TLC

\* n of the requests come, each one of qs.
Mixes(n, qs) ==
    {[r \in Requests |-> IF r \in DOMAIN f THEN f[r] ELSE Nothing] :
        f \in UNION {[come -> qs] : come \in kSubset(n, Requests)}}

PdfsTo(p) == [process : {p}, source : {"pdf"}, ai : {FALSE}, size : {1, 2}]
AiRequests == [process : Processes, source : {"reviewed_text", "pdf"},
               ai : {TRUE}, size : {1}]
TextsTo(p, ai) == [process : {p}, source : {"reviewed_text"}, ai : {ai},
                   size : {1}]

ThreeLoads ==
    Mixes(2, AiRequests) \cup
    UNION {Mixes(3, PdfsTo(p)) \cup Mixes(3, TextsTo(p, FALSE)) : p \in Processes}

OneText == UNION {Mixes(1, TextsTo(p, TRUE)) : p \in Processes}

\* The PDFs of a process are counted exactly, and refused when they cannot be.
PdfsBound == LocalPdfExact /\ PdfFailsClosed

\* The provider has no more requests than its limit, and those that a process
\* admits without Redis keep to the emergency's rate.
ProvidersBound == ProviderBound /\ EmergencyBound

Symmetry == Permutations(Requests) \cup Permutations(Processes)
=============================================================================
