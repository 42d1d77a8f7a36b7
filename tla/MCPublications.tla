--------------------------- MODULE MCPublications ---------------------------
(***************************************************************************)
(* Small instances of Publications for TLC.                                *)
(***************************************************************************)
EXTENDS Publications, TLC

MCSubmitter == [p \in Publications |-> CHOOSE u \in Citizens : TRUE]

Symmetry == Permutations(Photos) \cup Permutations(Workers)
=============================================================================
