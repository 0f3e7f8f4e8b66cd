-------------------------------- MODULE MCTests -------------------------------
(* Four tests, so that a limit of two can be exceeded.                      *)
EXTENDS Tests, TLC

Unlimited == -1

OneOrUnlimited == {1, Unlimited}

Symmetry == Permutations(Tests) \cup Permutations(Questions) \cup Permutations(Workers)
===============================================================================
