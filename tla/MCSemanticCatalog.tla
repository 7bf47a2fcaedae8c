-------------------------- MODULE MCSemanticCatalog -------------------------
(* Small instances of SemanticCatalog; operations and versions are numbers,  *)
(* so only the metrics may be permuted.                                     *)
EXTENDS SemanticCatalog, TLC

MetricSymmetry == Permutations(Metrics)
=============================================================================
