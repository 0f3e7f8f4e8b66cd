--------------------------- MODULE MCTeacherPackage ---------------------------
(* One buyer with a few purchases: no query of the package mixes users.     *)
EXTENDS TeacherPackage, TLC

CONSTANT buyer

Symmetry == Permutations(Workers) \cup Permutations(Purchases)

AllByOne == [p \in Purchases |-> buyer]
===============================================================================
