------------------------------ MODULE MCPractice ------------------------------
(* One user and one test: every query of the service is for both.            *)
EXTENDS Practice, TLC

\* A question that adds to the score and one that takes off it.
Worths == {-1, 2}

Symmetry == Permutations(Attempts) \cup Permutations(Questions) \cup Permutations(Workers)
===============================================================================
