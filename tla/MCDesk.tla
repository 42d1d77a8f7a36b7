------------------------------- MODULE MCDesk -------------------------------
(* Instances of Desk for TLC.                                              *)
EXTENDS Desk, TLC

CONSTANTS Boss, Clerk, North, South

MCFirstRole == (Boss :> "manager") @@ (Clerk :> "none")

MCPosted == (Boss :> {North}) @@ (Clerk :> {South})

MCSymmetry == Permutations(Workers)
=============================================================================
