-------------------------- MODULE MCEvidenceCache ---------------------------
(* Small instances of EvidenceCache. *)
EXTENDS EvidenceCache, TLC

\* Requests are interchangeable, and so are addresses.
Symmetry == Permutations(Requests) \cup Permutations(Addresses)
=============================================================================
