----------------------- MODULE MCAnalysisCoordinator -----------------------
(* AnalysisCoordinator on small instances.                                 *)
EXTENDS AnalysisCoordinator, TLC

Symmetry == Permutations(Pdfs) \cup Permutations(Activations)
=============================================================================
