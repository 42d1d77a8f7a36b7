----------------------------- MODULE MCAccounts -----------------------------
(* Instances of Accounts for TLC.                                          *)
EXTENDS Accounts, TLC

Interchangeable ==
  Permutations(Emails) \cup Permutations(Links) \cup Permutations(Workers)
=============================================================================
