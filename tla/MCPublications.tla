--------------------------- MODULE MCPublications ---------------------------
(* Instances of Publications for TLC. *)
EXTENDS Publications, TLC

Symmetry == Permutations(Requests)

=============================================================================
