----------------------------- MODULE MCEnrollment -----------------------------
(* One owner; exams, links and users are interchangeable.                    *)
EXTENDS Enrollment, TLC

Symmetry == Permutations(Exams) \cup Permutations(Users) \cup Permutations(Workers)
===============================================================================
