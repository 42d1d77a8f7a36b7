------------------------------- MODULE MCTeam -------------------------------
(***************************************************************************)
(* Small instances of Team for TLC.                                        *)
(***************************************************************************)
EXTENDS Team, TLC

Symmetry == Permutations(Workers) \cup Permutations(Invitations)
=============================================================================
