-------------------------- MODULE MCBatchPipeline ---------------------------
(* Instances of BatchPipeline for TLC. *)
EXTENDS BatchPipeline, TLC

\* Contacts are interchangeable, and so are addresses.
Symmetry == Permutations(Contacts) \cup Permutations(Addresses)
=============================================================================
