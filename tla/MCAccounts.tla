------------------------------ MODULE MCAccounts ------------------------------
(* Rows of users, workers and the identities of a provider interchange.      *)
EXTENDS Accounts, TLC

Symmetry == Permutations(Users) \cup Permutations(Google) \cup Permutations(Workers)
===============================================================================
