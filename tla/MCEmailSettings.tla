--------------------------- MODULE MCEmailSettings ---------------------------
(* Instances of EmailSettings for TLC.                                     *)
EXTENDS EmailSettings, TLC

Interchangeable == Permutations(Workers) \cup Permutations(Values)
=============================================================================
