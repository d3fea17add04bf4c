----------------------- MODULE MCEvidenceCacheHistory -----------------------
(* A small instance of EvidenceCacheHistory. *)
EXTENDS EvidenceCacheHistory, TLC

\* The requests are interchangeable.
Symmetry == Permutations(Requests)
=============================================================================
