--------------------------- MODULE AttemptLifecycle ---------------------------
(***************************************************************************)
(* What taking an exam promises of one attempt: it is started, submitted   *)
(* once, and publishes its result in the same step; afterwards the score   *)
(* changes only by regrading and the certificate can only be added.        *)
(* Deleting the exam removes its attempts.  ExamAttempts implements this   *)
(* module however its requests interleave.                                 *)
(***************************************************************************)
EXTENDS Integers

CONSTANT Attempts

VARIABLES phase,      \* phase[a]: how far the attempt has come
          published,  \* published[a]: the attempt has a result
          score,      \* score[a]: the score that result shows
          certified   \* certified[a]: the attempt has a certificate

attemptVars == <<phase, published, score, certified>>

AttemptInit == /\ phase = [a \in Attempts |-> "absent"]
               /\ published = [a \in Attempts |-> FALSE]
               /\ score = [a \in Attempts |-> 0]
               /\ certified = [a \in Attempts |-> FALSE]

Start(a) == /\ phase[a] = "absent"
            /\ phase' = [phase EXCEPT ![a] = "open"]
            /\ UNCHANGED <<published, score, certified>>

\* The new score is whatever the grading gives; nobody else's changes.
Rescored(a) == score' = [score EXCEPT ![a] = score'[a]]

Submit(a) == /\ phase[a] = "open"
             /\ phase' = [phase EXCEPT ![a] = "completed"]
             /\ published' = [published EXCEPT ![a] = TRUE]
             /\ Rescored(a)
             /\ UNCHANGED certified

Regrade(a) == /\ phase[a] = "completed"
              /\ Rescored(a)
              /\ UNCHANGED <<phase, published, certified>>

Certify(a) == /\ phase[a] = "completed"
              /\ ~certified[a]
              /\ certified' = [certified EXCEPT ![a] = TRUE]
              /\ UNCHANGED <<phase, published, score>>

RemoveAll == /\ phase' = [a \in Attempts |->
                            IF phase[a] = "absent" THEN "absent" ELSE "deleted"]
             /\ published' = [a \in Attempts |-> FALSE]
             /\ score' = [a \in Attempts |-> 0]
             /\ certified' = [a \in Attempts |-> FALSE]

AttemptNext == \/ \E a \in Attempts : \/ Start(a) \/ Submit(a)
                                      \/ Regrade(a) \/ Certify(a)
               \/ RemoveAll

AttemptSpec == AttemptInit /\ [][AttemptNext]_attemptVars
===============================================================================
