---------------------------- MODULE MCExamAttempts ----------------------------
(***************************************************************************)
(* One exam with one question: a right answer to it passes, a wrong one    *)
(* does not, and answering it twice exceeds the total.                     *)
(***************************************************************************)
EXTENDS ExamAttempts, TLC

Symmetry == Permutations(Workers) \cup Permutations(Attempts) \cup Permutations(Users)

Worth == [q \in Questions |-> 1]
===============================================================================
