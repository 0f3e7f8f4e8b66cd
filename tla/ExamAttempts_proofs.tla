------------------------- MODULE ExamAttempts_proofs -------------------------
(***************************************************************************)
(* Theorems about ExamAttempts, for every set of users, attempts,          *)
(* questions and workers, every worth of the questions and every limit.    *)
(***************************************************************************)
EXTENDS ExamAttempts, FiniteSetTheorems, SequenceTheorems, TLAPS

-------------------------------------------------------------------------------
(* The inductive invariant.                                                *)

\* What a score can be: a sum of grades, or an integer a teacher's grading gave.
Score == Int \cup {Graded(s) : s \in Submissions}

\* The part of TypeOK the other invariants rest on.
RowsOK == /\ attempts \in [Attempts -> [status : {"absent", "open", "completed", "deleted"},
                                        user : Users \cup {None}, score : Score,
                                        late : BOOLEAN]]
          /\ results \in [Attempts -> [graded_by : {"nobody", "auto", "teacher"},
                                       total_score : Score, passed : BOOLEAN]]
          /\ certificates \in [Attempts -> [issued : BOOLEAN, score : Score]]
          /\ DOMAIN requests = Workers

\* What a request in flight may rely on although its rows move underneath it.
RequestOK(r) ==
    /\ r.op = "start" => r.user \in Users
    /\ r.op \in {"save", "submit", "grade", "issue"} =>
          r.attempt \in Attempts /\ attempts[r.attempt].status # "absent"
    /\ r.op = "save" => ~r.completed
    /\ r.op \in {"grade", "issue"} => attempts[r.attempt].status \in {"completed", "deleted"}
    /\ r.op = "issue" => Passes(r.score) /\ r.score \in Score

RequestsOK == \A w \in Workers : RequestOK(requests[w])

\* results.passed is never set for a score that does not pass.
PassedIsEarned == \A a \in Attempts : results[a].passed => Passes(results[a].total_score)

IndInv == RowsOK /\ RequestsOK /\ PassedIsEarned /\ CompletedHasResult /\ CertificateShowsPass

-------------------------------------------------------------------------------
(* The initial state.                                                      *)

LEMMA ZeroIsAScore == 0 \in Score
  BY DEF Score

LEMMA PassesIsBoolean == ASSUME NEW score PROVE Passes(score) \in BOOLEAN
<1> DEFINE total == IF TotalPoints = 0 THEN 1 ELSE TotalPoints
           needed == IF PassingScore = 0 THEN 60 ELSE PassingScore
<1>1. (100 * score >= needed * total) \in BOOLEAN
  OBVIOUS
<1>2. (100 * score <= needed * total) \in BOOLEAN
  OBVIOUS
<1> DEFINE reached == 100 * score >= needed * total
           undercut == 100 * score <= needed * total
<1>3. reached \in BOOLEAN /\ undercut \in BOOLEAN
  BY <1>1, <1>2
<1>4. Passes(score) = IF total > 0 THEN reached ELSE undercut
  BY DEF Passes
<1> HIDE DEF total, needed, reached, undercut
<1> QED BY <1>3, <1>4

LEMMA InitIndInv == Init => IndInv
<1> SUFFICES ASSUME Init PROVE IndInv
  OBVIOUS
<1>1. RowsOK
  BY ZeroIsAScore DEF Init, RowsOK, NoAttempt, NoResult, NoCertificate
<1>2. RequestsOK
  BY DEF Init, RequestsOK, RequestOK, Idle
<1>3. PassedIsEarned /\ CompletedHasResult /\ CertificateShowsPass
  BY DEF Init, PassedIsEarned, CompletedHasResult, CertificateShowsPass, NoAttempt,
         NoResult, NoCertificate
<1> QED BY <1>1, <1>2, <1>3 DEF IndInv

-------------------------------------------------------------------------------
(* Requests in flight survive every step of the others: an attempt never   *)
(* becomes absent again, and a completed one can only be deleted.          *)

AttemptsAdvance == \A a \in Attempts :
    /\ attempts[a].status # "absent" => attempts'[a].status # "absent"
    /\ attempts[a].status \in {"completed", "deleted"} =>
          attempts'[a].status \in {"completed", "deleted"}

LEMMA RequestsSurvive ==
  ASSUME RequestsOK, AttemptsAdvance, NEW w \in Workers, NEW r,
         DOMAIN requests = Workers,
         requests' = [requests EXCEPT ![w] = r] \/ UNCHANGED requests,
         RequestOK(r)'
  PROVE  RequestsOK' /\ DOMAIN requests' = Workers
<1>1. ASSUME NEW v \in Workers, requests'[v] = requests[v] PROVE RequestOK(requests[v])'
  BY <1>1 DEF RequestsOK, RequestOK, AttemptsAdvance
<1>2. \A v \in Workers : requests'[v] = requests[v] \/ requests'[v] = r
  OBVIOUS
<1>3. RequestsOK'
  BY <1>1, <1>2 DEF RequestsOK
<1> QED BY <1>3

LEMMA IdleOK == RequestOK(Idle) /\ RequestOK(Idle)'
  BY DEF RequestOK, Idle

\* A step that only opens or drops the request of worker w.
LEMMA RequestStepOnly ==
  ASSUME IndInv, NEW w \in Workers, NEW r, RequestOK(r),
         requests' = [requests EXCEPT ![w] = r],
         UNCHANGED <<attempts, results, certificates>>
  PROVE  IndInv'
<1>1. AttemptsAdvance /\ RequestOK(r)'
  BY DEF AttemptsAdvance, RequestOK
<1>2. RequestsOK' /\ DOMAIN requests' = Workers
  BY <1>1, RequestsSurvive DEF IndInv, RowsOK
<1>3. RowsOK'
  BY <1>2 DEF IndInv, RowsOK
<1>4. PassedIsEarned' /\ CompletedHasResult' /\ CertificateShowsPass'
  BY DEF IndInv, PassedIsEarned, CompletedHasResult, CertificateShowsPass
<1> QED BY <1>2, <1>3, <1>4 DEF IndInv

-------------------------------------------------------------------------------
(* Reads.                                                                  *)

LEMMA ReadSteps ==
  ASSUME IndInv, NEW w \in Workers,
         \/ \E u \in Users : StartRead(w, u)
         \/ \E a \in Attempts : \/ SaveRead(w, a) \/ SubmitRead(w, a) \/ IssueRead(w, a)
                                \/ \E q \in Questions : GradeRead(w, a, q)
         \/ DeleteRead(w) \/ Abort(w)
  PROVE  IndInv'
<1>1. ASSUME NEW r, RequestOK(r), Begin(w, r) PROVE IndInv'
  BY <1>1, RequestStepOnly DEF Begin
<1>2. ASSUME NEW u \in Users, StartRead(w, u) PROVE IndInv'
  <2> DEFINE r == [Idle EXCEPT !.op = "start", !.user = u]
  <2>1. RequestOK(r)
    BY DEF RequestOK, Idle
  <2> QED BY <1>1, <1>2, <2>1 DEF StartRead
<1>3. ASSUME NEW a \in Attempts, SaveRead(w, a) PROVE IndInv'
  <2> DEFINE r == [Idle EXCEPT !.op = "save", !.attempt = a,
                               !.completed = attempts[a].status = "completed"]
  <2>1. RequestOK(r)
    BY <1>3 DEF RequestOK, Idle, SaveRead
  <2> QED BY <1>1, <1>3, <2>1 DEF SaveRead
<1>4. ASSUME NEW a \in Attempts, SubmitRead(w, a) PROVE IndInv'
  <2> DEFINE r == [Idle EXCEPT !.op = "submit", !.attempt = a,
                               !.rows = [q \in Questions |-> Len(answers[a][q])]]
  <2>1. RequestOK(r)
    BY <1>4 DEF RequestOK, Idle, SubmitRead
  <2> QED BY <1>1, <1>4, <2>1 DEF SubmitRead
<1>5. ASSUME NEW a \in Attempts, IssueRead(w, a) PROVE IndInv'
  <2> DEFINE r == [Idle EXCEPT !.op = "issue", !.attempt = a,
                               !.score = results[a].total_score]
  <2>1. Passes(results[a].total_score) /\ results[a].total_score \in Score
    BY <1>5 DEF IssueRead, IndInv, RowsOK, PassedIsEarned
  <2>2. RequestOK(r)
    BY <1>5, <2>1 DEF RequestOK, Idle, IssueRead
  <2> QED BY <1>1, <1>5, <2>2 DEF IssueRead
<1>6. ASSUME NEW a \in Attempts, NEW q \in Questions, GradeRead(w, a, q) PROVE IndInv'
  <2>1. PICK i : Begin(w, [Idle EXCEPT !.op = "grade", !.attempt = a, !.question = q,
                                       !.row = i, !.was = answers[a][q][i].points,
                                       !.score = attempts[a].score])
    BY <1>6 DEF GradeRead
  <2> DEFINE r == [Idle EXCEPT !.op = "grade", !.attempt = a, !.question = q, !.row = i,
                               !.was = answers[a][q][i].points,
                               !.score = attempts[a].score]
  <2>2. RequestOK(r)
    BY <1>6 DEF RequestOK, Idle, GradeRead
  <2> QED BY <1>1, <2>1, <2>2
<1>7. CASE DeleteRead(w)
  <2> DEFINE r == [Idle EXCEPT !.op = "delete"]
  <2>1. RequestOK(r)
    BY DEF RequestOK, Idle
  <2> QED BY <1>1, <1>7, <2>1 DEF DeleteRead
<1>8. CASE Abort(w)
  BY <1>8, IdleOK, RequestStepOnly DEF Abort
<1> QED BY <1>2, <1>3, <1>4, <1>5, <1>6, <1>7, <1>8

-------------------------------------------------------------------------------
(* Commits.                                                                *)

\* What a submission and a manual grading share: attempt a ends completed with
\* a result for total, and the request goes on to the certificate or ends.
LEMMA GradedSteps ==
  ASSUME IndInv, NEW w \in Workers, NEW a \in Attempts, NEW total \in Score,
         NEW grader \in {"auto", "teacher"},
         attempts[a].status \in {"open", "completed"},
         attempts'[a].status = "completed",
         \A b \in Attempts \ {a} : attempts'[b] = attempts[b],
         attempts' \in [Attempts -> [status : {"absent", "open", "completed", "deleted"},
                                     user : Users \cup {None}, score : Score,
                                     late : BOOLEAN]],
         results' = [results EXCEPT ![a] = [graded_by |-> grader, total_score |-> total,
                                            passed |-> Passes(total)]],
         FinishGraded(w, a, total), UNCHANGED certificates
  PROVE  IndInv'
<1> DEFINE result == [graded_by |-> grader, total_score |-> total, passed |-> Passes(total)]
           issue == [Idle EXCEPT !.op = "issue", !.attempt = a, !.score = total]
           next == IF Passes(total) /\ Certified THEN issue ELSE Idle
<1>1. result \in [graded_by : {"nobody", "auto", "teacher"}, total_score : Score,
                  passed : BOOLEAN]
  BY PassesIsBoolean
<1>2. AttemptsAdvance
  BY DEF AttemptsAdvance
<1>3. RequestOK(next)'
  <2>1. CASE Passes(total) /\ Certified
    <3>1. RequestOK(issue)'
      BY <2>1 DEF RequestOK, Idle
    <3> QED BY <2>1, <3>1
  <2>2. CASE ~(Passes(total) /\ Certified)
    BY <2>2, IdleOK
  <2> QED BY <2>1, <2>2
<1>4. RequestsOK' /\ DOMAIN requests' = Workers
  <2>1. requests' = [requests EXCEPT ![w] = next]
    BY DEF FinishGraded
  <2> HIDE DEF next
  <2> QED BY <1>2, <1>3, <2>1, RequestsSurvive DEF IndInv, RowsOK
<1>5. results' = [results EXCEPT ![a] = result] /\ results'[a] = result
  BY DEF IndInv, RowsOK
<1>6. RowsOK'
  <2> HIDE DEF result
  <2> QED BY <1>1, <1>4, <1>5 DEF IndInv, RowsOK
<1>7. PassedIsEarned'
  BY <1>5 DEF IndInv, RowsOK, PassedIsEarned
<1>8. CompletedHasResult'
  BY <1>5 DEF IndInv, RowsOK, CompletedHasResult
<1>9. CertificateShowsPass'
  BY DEF IndInv, RowsOK, CertificateShowsPass
<1> QED BY <1>4, <1>6, <1>7, <1>8, <1>9 DEF IndInv

\* A submission that commits finds its attempt still open.
LEMMA SubmitFindsOpen ==
  ASSUME IndInv, NEW w \in Workers, SubmitCommit(w)
  PROVE  /\ requests[w].attempt \in Attempts
         /\ attempts[requests[w].attempt].status = "open"
<1>1. /\ requests[w].op = "submit" /\ attempts[requests[w].attempt].status # "deleted"
      /\ results[requests[w].attempt].graded_by = "nobody"
  BY DEF SubmitCommit, Serving
<1>2. requests[w].attempt \in Attempts /\ attempts[requests[w].attempt].status # "absent"
  BY <1>1 DEF IndInv, RequestsOK, RequestOK
<1> QED BY <1>1, <1>2 DEF IndInv, RowsOK, CompletedHasResult

LEMMA SubmitCommitStep ==
  ASSUME IndInv, NEW w \in Workers, SubmitCommit(w)
  PROVE  IndInv'
<1> DEFINE a == requests[w].attempt
<1>1. a \in Attempts /\ attempts[a].status = "open"
  BY SubmitFindsOpen
<1>2. PICK s \in Submissions :
        /\ attempts' = [attempts EXCEPT ![a].status = "completed", ![a].score = Graded(s)]
        /\ results' = [results EXCEPT ![a] = [graded_by |-> "auto",
              total_score |-> Graded(s), passed |-> Passes(Graded(s))]]
        /\ FinishGraded(w, a, Graded(s))
  BY DEF SubmitCommit
<1> DEFINE total == Graded(s)
<1>3. total \in Score
  BY DEF Score
<1>4. UNCHANGED certificates
  BY DEF SubmitCommit
<1> HIDE DEF a, total
<1>5. /\ attempts'[a].status = "completed"
      /\ \A b \in Attempts \ {a} : attempts'[b] = attempts[b]
      /\ attempts' \in [Attempts -> [status : {"absent", "open", "completed", "deleted"},
                                     user : Users \cup {None}, score : Score,
                                     late : BOOLEAN]]
  <2> DEFINE row == [attempts[a] EXCEPT !.status = "completed", !.score = total]
  <2>1. attempts[a] \in [status : {"absent", "open", "completed", "deleted"},
                         user : Users \cup {None}, score : Score, late : BOOLEAN]
    BY <1>1 DEF IndInv, RowsOK
  <2>2. row \in [status : {"absent", "open", "completed", "deleted"},
                 user : Users \cup {None}, score : Score, late : BOOLEAN]
        /\ row.status = "completed"
    BY ZenonT(60), <1>3, <2>1
  <2>3. attempts' = [attempts EXCEPT ![a] = row]
    BY ZenonT(60), <1>2 DEF total
  <2> HIDE DEF row
  <2> QED BY ZenonT(60), <1>1, <2>2, <2>3 DEF IndInv, RowsOK
<1> QED BY <1>1, <1>2, <1>3, <1>4, <1>5, GradedSteps DEF total

\* A grading that commits finds its attempt completed.
LEMMA GradeFindsCompleted ==
  ASSUME IndInv, NEW w \in Workers, GradeCommit(w)
  PROVE  /\ requests[w].attempt \in Attempts
         /\ attempts[requests[w].attempt].status = "completed"
<1>1. requests[w].op = "grade" /\ attempts[requests[w].attempt].status # "deleted"
  BY DEF GradeCommit, Serving
<1> QED BY <1>1 DEF IndInv, RequestsOK, RequestOK

LEMMA GradeCommitStep ==
  ASSUME IndInv, NEW w \in Workers, GradeCommit(w)
  PROVE  IndInv'
<1> DEFINE a == requests[w].attempt
<1>1. a \in Attempts /\ attempts[a].status = "completed"
  BY GradeFindsCompleted
<1>2. PICK n \in Awardable(requests[w].question) :
        LET total == requests[w].score + n - requests[w].was IN
        /\ Within(total)
        /\ \/ UNCHANGED attempts
           \/ attempts' = [attempts EXCEPT ![a].score = total]
        /\ results' = [results EXCEPT ![a] = [graded_by |-> "teacher",
              total_score |-> total, passed |-> Passes(total)]]
        /\ FinishGraded(w, a, total)
  BY DEF GradeCommit
<1> DEFINE total == requests[w].score + n - requests[w].was
<1>3. total \in Score
  BY <1>2 DEF Within, Score
<1>4. UNCHANGED certificates
  BY DEF GradeCommit
<1> HIDE DEF a, total
<1>5. UNCHANGED attempts \/ attempts' = [attempts EXCEPT ![a].score = total]
  BY <1>2 DEF total
<1>6. /\ attempts'[a].status = "completed"
      /\ \A b \in Attempts \ {a} : attempts'[b] = attempts[b]
      /\ attempts' \in [Attempts -> [status : {"absent", "open", "completed", "deleted"},
                                     user : Users \cup {None}, score : Score,
                                     late : BOOLEAN]]
  BY ZenonT(60), <1>1, <1>3, <1>5 DEF IndInv, RowsOK
<1>7. /\ results' = [results EXCEPT ![a] = [graded_by |-> "teacher", total_score |-> total,
                                            passed |-> Passes(total)]]
      /\ FinishGraded(w, a, total)
  BY <1>2 DEF total
<1> QED BY <1>1, <1>3, <1>4, <1>6, <1>7, GradedSteps

\* A step that leaves the results alone, moves the attempts forward without
\* completing any, and ends the request of worker w or none.
LEMMA QuietSteps ==
  ASSUME IndInv, NEW w \in Workers,
         requests' = [requests EXCEPT ![w] = Idle] \/ UNCHANGED requests,
         UNCHANGED <<results, certificates>>,
         attempts' \in [Attempts -> [status : {"absent", "open", "completed", "deleted"},
                                     user : Users \cup {None}, score : Score,
                                     late : BOOLEAN]],
         \A a \in Attempts : \/ attempts'[a].status = attempts[a].status
                             \/ attempts[a].status = "absent" /\ attempts'[a].status = "open"
  PROVE  IndInv'
<1>1. AttemptsAdvance
  BY DEF AttemptsAdvance
<1>2. RequestsOK' /\ DOMAIN requests' = Workers
  BY <1>1, IdleOK, RequestsSurvive DEF IndInv, RowsOK
<1>3. RowsOK'
  BY <1>2 DEF IndInv, RowsOK
<1>4. PassedIsEarned' /\ CompletedHasResult' /\ CertificateShowsPass'
  BY DEF IndInv, RowsOK, PassedIsEarned, CompletedHasResult, CertificateShowsPass
<1> QED BY <1>2, <1>3, <1>4 DEF IndInv

LEMMA StartCommitStep ==
  ASSUME IndInv, NEW w \in Workers, StartCommit(w)
  PROVE  IndInv'
<1> DEFINE row == [NoAttempt EXCEPT !.status = "open", !.user = requests[w].user]
<1>1. PICK a \in Attempts : attempts[a].status = "absent"
                            /\ attempts' = [attempts EXCEPT ![a] = row]
  BY DEF StartCommit
<1>2. requests[w].user \in Users
  BY DEF StartCommit, IndInv, RequestsOK, RequestOK
<1>3. /\ row.status = "open"
      /\ row \in [status : {"absent", "open", "completed", "deleted"},
                  user : Users \cup {None}, score : Score, late : BOOLEAN]
  BY <1>2, ZeroIsAScore DEF NoAttempt
<1> HIDE DEF row
<1>4. /\ attempts' \in [Attempts -> [status : {"absent", "open", "completed", "deleted"},
                                     user : Users \cup {None}, score : Score,
                                     late : BOOLEAN]]
      /\ \A b \in Attempts : \/ attempts'[b].status = attempts[b].status
                             \/ attempts[b].status = "absent"
                                /\ attempts'[b].status = "open"
  BY <1>1, <1>3 DEF IndInv, RowsOK
<1> QED BY <1>4, QuietSteps DEF StartCommit, Finish

LEMMA SaveCommitStep ==
  ASSUME IndInv, NEW w \in Workers, SaveCommit(w)
  PROVE  IndInv'
  BY QuietSteps DEF SaveCommit, Finish, IndInv, RowsOK

\* A certificate is issued for a completed attempt and shows a passing score.
LEMMA IssueFindsCompleted ==
  ASSUME IndInv, NEW w \in Workers, IssueCommit(w)
  PROVE  /\ requests[w].attempt \in Attempts
         /\ attempts[requests[w].attempt].status = "completed"
         /\ Passes(requests[w].score) /\ requests[w].score \in Score
<1>1. requests[w].op = "issue" /\ attempts[requests[w].attempt].status # "deleted"
  BY DEF IssueCommit, Serving
<1> QED BY <1>1 DEF IndInv, RequestsOK, RequestOK

LEMMA IssueCommitStep ==
  ASSUME IndInv, NEW w \in Workers, IssueCommit(w)
  PROVE  IndInv'
<1> DEFINE a == requests[w].attempt
           certificate == [issued |-> TRUE, score |-> requests[w].score]
<1>1. /\ a \in Attempts /\ attempts[a].status = "completed"
      /\ Passes(certificate.score)
      /\ certificate \in [issued : BOOLEAN, score : Score]
  BY IssueFindsCompleted
<1>2. /\ requests' = [requests EXCEPT ![w] = Idle]
      /\ UNCHANGED <<attempts, results>>
      /\ UNCHANGED certificates \/ certificates' = [certificates EXCEPT ![a] = certificate]
  BY DEF IssueCommit, Finish
<1> HIDE DEF a, certificate
<1>3. AttemptsAdvance
  BY <1>2 DEF AttemptsAdvance
<1>4. RequestsOK' /\ DOMAIN requests' = Workers
  BY <1>2, <1>3, IdleOK, RequestsSurvive DEF IndInv, RowsOK
<1>5. RowsOK'
  BY ZenonT(60), <1>1, <1>2, <1>4 DEF IndInv, RowsOK
<1>6. PassedIsEarned' /\ CompletedHasResult'
  BY <1>2 DEF IndInv, PassedIsEarned, CompletedHasResult
<1>7. CertificateShowsPass'
  BY <1>1, <1>2 DEF IndInv, RowsOK, CertificateShowsPass
<1> QED BY <1>4, <1>5, <1>6, <1>7 DEF IndInv

LEMMA DeleteCommitStep ==
  ASSUME IndInv, NEW w \in Workers, DeleteCommit(w)
  PROVE  IndInv'
<1>1. /\ requests' = [requests EXCEPT ![w] = Idle]
      /\ attempts' = [a \in Attempts |-> IF attempts[a].status = "absent" THEN NoAttempt
                                         ELSE [NoAttempt EXCEPT !.status = "deleted"]]
      /\ results' = [a \in Attempts |-> NoResult]
      /\ certificates' = [a \in Attempts |-> NoCertificate]
  BY DEF DeleteCommit
<1>2. \A a \in Attempts : attempts'[a].status = IF attempts[a].status = "absent"
                                                THEN "absent" ELSE "deleted"
  BY <1>1 DEF NoAttempt
<1>3. AttemptsAdvance
  BY <1>2 DEF AttemptsAdvance
<1>4. RequestsOK' /\ DOMAIN requests' = Workers
  BY <1>1, <1>3, IdleOK, RequestsSurvive DEF IndInv, RowsOK
<1>5. RowsOK'
  BY <1>1, <1>4, ZeroIsAScore DEF RowsOK, NoAttempt, NoResult, NoCertificate
<1>6. PassedIsEarned' /\ CompletedHasResult' /\ CertificateShowsPass'
  BY <1>1, <1>2 DEF PassedIsEarned, CompletedHasResult, CertificateShowsPass, NoResult,
                    NoCertificate
<1> QED BY <1>4, <1>5, <1>6 DEF IndInv

LEMMA ExamSteps ==
  ASSUME IndInv, ExamStep
  PROVE  IndInv'
<1>1. UNCHANGED <<attempts, results, certificates, requests>>
  BY DEF ExamStep, publish_exam, archive_exam, update_exam, SetStatus
<1>2. RowsOK' /\ RequestsOK'
  BY <1>1 DEF IndInv, RowsOK, RequestsOK, RequestOK
<1>3. PassedIsEarned' /\ CompletedHasResult' /\ CertificateShowsPass'
  BY <1>1 DEF IndInv, PassedIsEarned, CompletedHasResult, CertificateShowsPass
<1> QED BY <1>2, <1>3 DEF IndInv

LEMMA TimeStep ==
  ASSUME IndInv, NEW a \in Attempts, TimeRunsOut(a)
  PROVE  IndInv'
<1>1. attempts' = [attempts EXCEPT ![a].late = TRUE]
      /\ UNCHANGED <<results, certificates, requests>>
  BY DEF TimeRunsOut
<1>2. /\ attempts' \in [Attempts -> [status : {"absent", "open", "completed", "deleted"},
                                     user : Users \cup {None}, score : Score,
                                     late : BOOLEAN]]
      /\ \A b \in Attempts : attempts'[b].status = attempts[b].status
  BY ZenonT(60), <1>1 DEF IndInv, RowsOK
<1>3. PICK w \in Workers : TRUE
  BY ConstantsAssumption
<1> QED BY <1>1, <1>2, <1>3, QuietSteps

-------------------------------------------------------------------------------
(* The invariants.                                                         *)

LEMMA NextIndInv == IndInv /\ [Next]_vars => IndInv'
<1> SUFFICES ASSUME IndInv, [Next]_vars PROVE IndInv'
  OBVIOUS
<1>1. CASE ExamStep
  BY <1>1, ExamSteps
<1>2. ASSUME NEW w \in Workers, RequestStep(w) PROVE IndInv'
  BY <1>2, ReadSteps, StartCommitStep, SaveCommitStep, SubmitCommitStep, GradeCommitStep,
     IssueCommitStep, DeleteCommitStep
  DEF RequestStep
<1>3. ASSUME NEW a \in Attempts, TimeRunsOut(a) PROVE IndInv'
  BY <1>3, TimeStep
<1>4. CASE UNCHANGED vars
  <2>1. RowsOK' /\ RequestsOK'
    BY <1>4 DEF IndInv, RowsOK, RequestsOK, RequestOK, vars
  <2>2. PassedIsEarned' /\ CompletedHasResult' /\ CertificateShowsPass'
    BY <1>4 DEF IndInv, PassedIsEarned, CompletedHasResult, CertificateShowsPass, vars
  <2> QED BY <2>1, <2>2 DEF IndInv
<1> QED BY <1>1, <1>2, <1>3, <1>4 DEF Next

\* The inductive invariant holds however requests interleave.
THEOREM IndInvHolds == Spec => []IndInv
  BY InitIndInv, NextIndInv, PTL DEF Spec

\* An attempt is completed exactly when it has its result: no interleaving of
\* submissions, gradings and deletions shows half of a submission.
THEOREM ResultSafety == Spec => []CompletedHasResult
  BY IndInvHolds, PTL DEF IndInv

\* Every certificate shows a passing score of a completed attempt, although
\* issue_for_attempt works from a result that may have been regraded since.
THEOREM CertificateSafety == Spec => []CertificateShowsPass
  BY IndInvHolds, PTL DEF IndInv

-------------------------------------------------------------------------------
(* The first submission stands.                                            *)

\* The requests that touch no attempt, or only create one.
LEMMA OnlyStartsTouchAttempts ==
  ASSUME NEW w \in Workers, RequestStep(w), ~SubmitCommit(w), ~GradeCommit(w),
         ~DeleteCommit(w)
  PROVE  UNCHANGED attempts \/ StartCommit(w)
  BY DEF RequestStep, StartRead, SaveRead, SubmitRead, IssueRead, GradeRead, DeleteRead,
         Abort, Begin, SaveCommit, IssueCommit

\* Once an attempt is completed, its score changes only by a teacher's grading
\* of that attempt, until the exam is deleted.
THEOREM FirstSubmissionStands == Spec => SubmittedOnce
<1> DEFINE Stands(a) ==
      attempts[a].status = "completed" /\ attempts'[a].score # attempts[a].score =>
        \/ exam' = "deleted"
        \/ \E w \in Workers : /\ requests[w].op = "grade" /\ requests[w].attempt = a
                              /\ requests'[w].op # "grade"
<1>1. ASSUME IndInv, [Next]_vars, NEW a \in Attempts PROVE Stands(a)
  <2> USE <1>1
  <2>1. ASSUME UNCHANGED attempts PROVE Stands(a)
    BY <2>1
  <2>2. CASE ExamStep \/ UNCHANGED vars
    BY <2>2, <2>1 DEF ExamStep, publish_exam, archive_exam, update_exam, SetStatus, vars
  <2>3. ASSUME NEW b \in Attempts, TimeRunsOut(b) PROVE Stands(a)
    BY <2>3 DEF TimeRunsOut, IndInv, RowsOK
  <2>4. ASSUME NEW w \in Workers, RequestStep(w) PROVE Stands(a)
    <3>1. CASE SubmitCommit(w)
      <4>1. requests[w].attempt \in Attempts
            /\ attempts[requests[w].attempt].status = "open"
        BY <3>1, SubmitFindsOpen
      <4>2. \A b \in Attempts \ {requests[w].attempt} : attempts'[b] = attempts[b]
        BY <3>1 DEF SubmitCommit, IndInv, RowsOK
      <4> QED BY <4>1, <4>2
    <3>2. CASE GradeCommit(w)
      <4>1. requests[w].attempt \in Attempts /\ requests[w].op = "grade"
        BY <3>2, GradeFindsCompleted DEF GradeCommit, Serving
      <4>2. \A b \in Attempts \ {requests[w].attempt} : attempts'[b] = attempts[b]
        BY <3>2 DEF GradeCommit, IndInv, RowsOK
      <4>3. PICK total : FinishGraded(w, requests[w].attempt, total)
        BY <3>2 DEF GradeCommit
      <4>4. requests'[w].op # "grade"
        BY <4>3 DEF FinishGraded, Idle, IndInv, RowsOK
      <4> QED BY <4>1, <4>2, <4>4
    <3>3. CASE DeleteCommit(w)
      BY <3>3 DEF DeleteCommit
    <3>4. CASE StartCommit(w)
      BY <3>4 DEF StartCommit, IndInv, RowsOK
    <3> QED BY <2>1, <2>4, <3>1, <3>2, <3>3, <3>4, OnlyStartsTouchAttempts
  <2> QED BY <2>2, <2>3, <2>4 DEF Next
<1>2. IndInv /\ [Next]_vars => [\A a \in Attempts : Stands(a)]_vars
  BY <1>1
<1> QED BY <1>2, IndInvHolds, PTL DEF Spec, SubmittedOnce

-------------------------------------------------------------------------------
(* Refinement.                                                             *)

LEMMA InitLifecycle == Init => Lifecycle!AttemptInit
<1> SUFFICES ASSUME Init PROVE Lifecycle!AttemptInit
  OBVIOUS
<1>1. \A a \in Attempts : /\ attempts[a].status = "absent"
                          /\ results[a].graded_by = "nobody"
                          /\ results[a].total_score = 0
                          /\ certificates[a].issued = FALSE
  BY DEF Init, NoAttempt, NoResult, NoCertificate
<1>2. \A a \in Attempts : (results[a].graded_by # "nobody") = FALSE
  BY <1>1
<1>3. [a \in Attempts |-> results[a].graded_by # "nobody"] = [a \in Attempts |-> FALSE]
  BY <1>2
<1>4. [a \in Attempts |-> certificates[a].issued] = [a \in Attempts |-> FALSE]
  BY <1>1
<1> QED BY <1>1, <1>3, <1>4 DEF Lifecycle!AttemptInit

\* A step that changes none of the columns the lifecycle looks at.
LEMMA StutterLifecycle ==
  ASSUME UNCHANGED <<results, certificates>>,
         \A a \in Attempts : attempts'[a].status = attempts[a].status
  PROVE  UNCHANGED Lifecycle!attemptVars
  BY DEF Lifecycle!attemptVars

LEMMA StartImplements ==
  ASSUME IndInv, NEW w \in Workers, StartCommit(w)
  PROVE  \E a \in Attempts : Lifecycle!Start(a)
<1>1. PICK a \in Attempts : attempts[a].status = "absent"
         /\ attempts' = [attempts EXCEPT ![a] =
               [NoAttempt EXCEPT !.status = "open", !.user = requests[w].user]]
  BY DEF StartCommit
<1>2. UNCHANGED <<results, certificates>>
  BY DEF StartCommit
<1>3. [NoAttempt EXCEPT !.status = "open", !.user = requests[w].user].status = "open"
  BY DEF NoAttempt
<1>4. /\ attempts'[a].status = "open"
      /\ \A b \in Attempts \ {a} : attempts'[b].status = attempts[b].status
  BY <1>1, <1>3 DEF IndInv, RowsOK
<1>5. Lifecycle!Start(a)
  BY <1>1, <1>2, <1>4 DEF Lifecycle!Start
<1> QED BY <1>5

\* What a submission and a manual grading do to the result.
LEMMA SubmitImplements ==
  ASSUME IndInv, NEW w \in Workers, SubmitCommit(w)
  PROVE  \E a \in Attempts : Lifecycle!Submit(a)
<1>1. PICK a \in Attempts : a = requests[w].attempt /\ attempts[a].status = "open"
  BY SubmitFindsOpen
<1>2. PICK s \in Submissions :
        /\ attempts' = [attempts EXCEPT ![a].status = "completed", ![a].score = Graded(s)]
        /\ results' = [results EXCEPT ![a] = [graded_by |-> "auto",
              total_score |-> Graded(s), passed |-> Passes(Graded(s))]]
  BY <1>1 DEF SubmitCommit
<1>3. UNCHANGED certificates
  BY DEF SubmitCommit
<1>4. /\ attempts'[a].status = "completed"
      /\ \A b \in Attempts \ {a} : attempts'[b].status = attempts[b].status
  BY <1>1, <1>2 DEF IndInv, RowsOK
<1>5. /\ results'[a].graded_by # "nobody"
      /\ \A b \in Attempts \ {a} : results'[b] = results[b]
  BY <1>1, <1>2 DEF IndInv, RowsOK
<1>6. Lifecycle!Rescored(a)
  BY <1>1, <1>5 DEF Lifecycle!Rescored
<1>7. Lifecycle!Submit(a)
  BY <1>1, <1>3, <1>4, <1>5, <1>6 DEF Lifecycle!Submit
<1> QED BY <1>7

LEMMA GradeImplements ==
  ASSUME IndInv, NEW w \in Workers, GradeCommit(w)
  PROVE  \E a \in Attempts : Lifecycle!Regrade(a)
<1>1. PICK a \in Attempts : a = requests[w].attempt /\ attempts[a].status = "completed"
  BY GradeFindsCompleted
<1>2. PICK total :
        /\ \/ UNCHANGED attempts
           \/ attempts' = [attempts EXCEPT ![a].score = total]
        /\ results' = [results EXCEPT ![a] = [graded_by |-> "teacher",
              total_score |-> total, passed |-> Passes(total)]]
  BY <1>1 DEF GradeCommit
<1>3. UNCHANGED certificates
  BY DEF GradeCommit
<1>4. \A b \in Attempts : attempts'[b].status = attempts[b].status
  <2>1. DOMAIN attempts = Attempts
    BY ZenonT(60) DEF IndInv, RowsOK
  <2>2. CASE UNCHANGED attempts
    BY <2>2
  <2>3. CASE attempts' = [attempts EXCEPT ![a].score = total]
    BY <2>1, <2>3
  <2> QED BY <1>2, <2>2, <2>3
<1>5. /\ results'[a].graded_by # "nobody" /\ results[a].graded_by # "nobody"
      /\ \A b \in Attempts \ {a} : results'[b] = results[b]
  BY <1>1, <1>2 DEF IndInv, RowsOK, CompletedHasResult
<1>6. Lifecycle!Rescored(a)
  BY <1>1, <1>5 DEF Lifecycle!Rescored
<1>7. Lifecycle!Regrade(a)
  BY <1>1, <1>3, <1>4, <1>5, <1>6 DEF Lifecycle!Regrade
<1> QED BY <1>7

LEMMA IssueImplements ==
  ASSUME IndInv, NEW w \in Workers, IssueCommit(w)
  PROVE  (\E a \in Attempts : Lifecycle!Certify(a)) \/ UNCHANGED Lifecycle!attemptVars
<1>1. PICK a \in Attempts : a = requests[w].attempt /\ attempts[a].status = "completed"
  BY IssueFindsCompleted
<1>2. UNCHANGED <<attempts, results>>
  BY DEF IssueCommit
<1>3. CASE certificates[a].issued
  BY <1>1, <1>2, <1>3, StutterLifecycle DEF IssueCommit
<1>4. CASE ~certificates[a].issued
  <2>1. certificates' = [certificates EXCEPT
                           ![a] = [issued |-> TRUE, score |-> requests[w].score]]
    BY <1>1, <1>4 DEF IssueCommit
  <2>2. certificates'[a].issued
        /\ \A b \in Attempts \ {a} : certificates'[b] = certificates[b]
    BY <1>1, <2>1 DEF IndInv, RowsOK
  <2>3. certificates'[a].issued = TRUE
    BY <1>1, <2>1 DEF IndInv, RowsOK
  <2>4. Lifecycle!Certify(a)
    BY <1>1, <1>2, <1>4, <2>2, <2>3 DEF Lifecycle!Certify
  <2> QED BY <2>4
<1> QED BY <1>3, <1>4

LEMMA DeleteImplements ==
  ASSUME NEW w \in Workers, DeleteCommit(w)
  PROVE  Lifecycle!RemoveAll
  BY DEF DeleteCommit, Lifecycle!RemoveAll, NoAttempt, NoResult, NoCertificate

LEMMA NextLifecycle ==
  ASSUME IndInv, [Next]_vars
  PROVE  [Lifecycle!AttemptNext]_(Lifecycle!attemptVars)
<1>1. CASE ExamStep \/ UNCHANGED vars
  BY <1>1, StutterLifecycle
  DEF ExamStep, publish_exam, archive_exam, update_exam, SetStatus, vars
<1>2. ASSUME NEW a \in Attempts, TimeRunsOut(a) PROVE UNCHANGED Lifecycle!attemptVars
  <2>1. \A b \in Attempts : attempts'[b].status = attempts[b].status
    BY <1>2 DEF TimeRunsOut, IndInv, RowsOK
  <2> QED BY <1>2, <2>1, StutterLifecycle DEF TimeRunsOut
<1>3. ASSUME NEW w \in Workers, RequestStep(w)
      PROVE  Lifecycle!AttemptNext \/ UNCHANGED Lifecycle!attemptVars
  <2>1. CASE StartCommit(w)
    BY <2>1, StartImplements DEF Lifecycle!AttemptNext
  <2>2. CASE SubmitCommit(w)
    BY <2>2, SubmitImplements DEF Lifecycle!AttemptNext
  <2>3. CASE GradeCommit(w)
    BY <2>3, GradeImplements DEF Lifecycle!AttemptNext
  <2>4. CASE IssueCommit(w)
    BY <2>4, IssueImplements DEF Lifecycle!AttemptNext
  <2>5. CASE DeleteCommit(w)
    BY <2>5, DeleteImplements DEF Lifecycle!AttemptNext
  <2>6. CASE UNCHANGED <<attempts, results, certificates>>
    BY <2>6, StutterLifecycle
  <2>7. \/ StartCommit(w) \/ SubmitCommit(w) \/ GradeCommit(w) \/ IssueCommit(w)
        \/ DeleteCommit(w) \/ UNCHANGED <<attempts, results, certificates>>
    BY <1>3 DEF RequestStep, StartRead, SaveRead, SubmitRead, IssueRead, GradeRead,
                DeleteRead, Abort, Begin, SaveCommit
  <2> QED BY <2>1, <2>2, <2>3, <2>4, <2>5, <2>6, <2>7
<1> QED BY <1>1, <1>2, <1>3 DEF Next

\* The code implements AttemptLifecycle with any number of overlapping requests.
THEOREM LifecycleImplemented == Spec => ImplementsLifecycle
  BY InitLifecycle, NextLifecycle, IndInvHolds, PTL
  DEF Spec, ImplementsLifecycle, Lifecycle!AttemptSpec

-------------------------------------------------------------------------------
(* Overlapping starts.                                                     *)

\* Attempts and starts in flight together: each start saw room for one more.
Room(u) ==
    AttemptsOf(u) # {} \/ Starting(u) # {} =>
       Cardinality(AttemptsOf(u)) + Cardinality(Starting(u))
         <= MaxAttempts + Cardinality(Workers) - 1

\* Open attempts and starts in flight together: each start saw none open.
FewOpen(u) == Cardinality(OpenAttempts(u)) + Cardinality(Starting(u)) <= Cardinality(Workers)

LEMMA BoundedIs == StartsBounded <=> \A u \in Users : Room(u) /\ FewOpen(u)
  BY DEF StartsBounded, Room, FewOpen

LEMMA CountsAreFinite ==
  ASSUME NEW u
  PROVE  /\ IsFiniteSet(AttemptsOf(u)) /\ Cardinality(AttemptsOf(u)) \in Nat
         /\ IsFiniteSet(OpenAttempts(u)) /\ Cardinality(OpenAttempts(u)) \in Nat
         /\ IsFiniteSet(Starting(u)) /\ Cardinality(Starting(u)) \in Nat
         /\ Cardinality(Starting(u)) <= Cardinality(Workers)
         /\ Cardinality(Workers) \in Nat /\ MaxAttempts \in Int
<1>1. AttemptsOf(u) \subseteq Attempts /\ OpenAttempts(u) \subseteq Attempts
      /\ Starting(u) \subseteq Workers
  BY DEF AttemptsOf, OpenAttempts, Starting
<1> QED BY <1>1, FS_Subset, FS_CardinalityType, ConstantsAssumption

LEMMA InitBounded == Init => StartsBounded
<1> SUFFICES ASSUME Init, NEW u \in Users PROVE Room(u) /\ FewOpen(u)
  BY BoundedIs
<1>1. AttemptsOf(u) = {} /\ OpenAttempts(u) = {} /\ Starting(u) = {}
  BY DEF Init, AttemptsOf, OpenAttempts, NoAttempt, Starting, Idle
<1>2. Cardinality(Workers) \in Nat
  BY FS_CardinalityType, ConstantsAssumption
<1> QED BY <1>1, <1>2, FS_EmptySet DEF Room, FewOpen

\* The ways a step can move the counts of a user.
Shrinks(u) == /\ AttemptsOf(u)' \subseteq AttemptsOf(u)
              /\ OpenAttempts(u)' \subseteq OpenAttempts(u)
              /\ Starting(u)' \subseteq Starting(u)

Looks(u) == /\ AttemptsOf(u)' = AttemptsOf(u) /\ Cardinality(AttemptsOf(u)) < MaxAttempts
            /\ OpenAttempts(u)' = {}

Inserts(u) == \E a, w : /\ AttemptsOf(u)' \subseteq AttemptsOf(u) \cup {a}
                        /\ OpenAttempts(u)' \subseteq OpenAttempts(u) \cup {a}
                        /\ w \in Starting(u) /\ Starting(u)' \subseteq Starting(u) \ {w}

LEMMA GrowsByOne ==
  ASSUME NEW S, IsFiniteSet(S), NEW a, NEW T, T \subseteq S \cup {a}
  PROVE  Cardinality(T) \in Nat /\ Cardinality(T) <= Cardinality(S) + 1
<1>1. IsFiniteSet(S \cup {a}) /\ Cardinality(S \cup {a}) <= Cardinality(S) + 1
      /\ Cardinality(S) \in Nat
  BY FS_AddElement, FS_CardinalityType
<1>2. IsFiniteSet(T) /\ Cardinality(T) <= Cardinality(S \cup {a})
      /\ Cardinality(T) \in Nat /\ Cardinality(S \cup {a}) \in Nat
  BY <1>1, FS_Subset, FS_CardinalityType
<1> QED BY <1>1, <1>2

LEMMA BoundedStep ==
  ASSUME StartsBounded, NEW u \in Users, Shrinks(u) \/ Looks(u) \/ Inserts(u)
  PROVE  Room(u)' /\ FewOpen(u)'
<1> DEFINE n == Cardinality(AttemptsOf(u))
           o == Cardinality(OpenAttempts(u))
           m == Cardinality(Starting(u))
           k == Cardinality(Workers)
<1>1. Room(u) /\ FewOpen(u)
  BY BoundedIs
<1>2. /\ IsFiniteSet(AttemptsOf(u)) /\ n \in Nat /\ IsFiniteSet(OpenAttempts(u)) /\ o \in Nat
      /\ IsFiniteSet(Starting(u)) /\ m \in Nat /\ k \in Nat /\ MaxAttempts \in Int
  BY CountsAreFinite
<1>3. /\ IsFiniteSet(AttemptsOf(u)') /\ n' \in Nat
      /\ IsFiniteSet(OpenAttempts(u)') /\ o' \in Nat
      /\ IsFiniteSet(Starting(u)') /\ m' \in Nat /\ m' <= k
  <2>1. AttemptsOf(u)' \subseteq Attempts /\ OpenAttempts(u)' \subseteq Attempts
        /\ Starting(u)' \subseteq Workers
    BY DEF AttemptsOf, OpenAttempts, Starting
  <2> QED BY <2>1, FS_Subset, FS_CardinalityType, ConstantsAssumption
<1>4. CASE Shrinks(u)
  <2>1. n' <= n /\ o' <= o /\ m' <= m
    BY <1>2, <1>4, FS_Subset DEF Shrinks
  <2>2. AttemptsOf(u)' # {} \/ Starting(u)' # {} => AttemptsOf(u) # {} \/ Starting(u) # {}
    BY <1>4 DEF Shrinks
  <2>3. AttemptsOf(u)' # {} \/ Starting(u)' # {} => n' + m' <= MaxAttempts + k - 1
    <3>1. AttemptsOf(u) # {} \/ Starting(u) # {} => n + m <= MaxAttempts + k - 1
      BY <1>1 DEF Room
    <3> QED BY <1>2, <1>3, <2>1, <2>2, <3>1
  <2>4. o' + m' <= k
    <3>1. o + m <= k
      BY <1>1 DEF FewOpen
    <3> QED BY <1>2, <1>3, <2>1, <3>1
  <2> QED BY <2>3, <2>4 DEF Room, FewOpen
<1>5. CASE Looks(u)
  <2>1. n' = n /\ n < MaxAttempts /\ o' = 0
    BY <1>5, FS_EmptySet DEF Looks
  <2>2. n' + m' <= MaxAttempts + k - 1 /\ o' + m' <= k
    BY <1>2, <1>3, <2>1
  <2> QED BY <2>2 DEF Room, FewOpen
<1>6. CASE Inserts(u)
  <2>1. PICK a, w : /\ AttemptsOf(u)' \subseteq AttemptsOf(u) \cup {a}
                    /\ OpenAttempts(u)' \subseteq OpenAttempts(u) \cup {a}
                    /\ w \in Starting(u) /\ Starting(u)' \subseteq Starting(u) \ {w}
    BY <1>6 DEF Inserts
  <2>2. n' <= n + 1 /\ o' <= o + 1
    BY <1>2, <2>1, GrowsByOne
  <2>3. IsFiniteSet(Starting(u) \ {w}) /\ Cardinality(Starting(u) \ {w}) = m - 1
    BY <1>2, <2>1, FS_RemoveElement
  <2>4. m' <= m - 1
    BY <2>1, <2>3, FS_Subset
  <2>5. n + m <= MaxAttempts + k - 1
    BY <1>1, <2>1 DEF Room
  <2>6. o + m <= k
    BY <1>1 DEF FewOpen
  <2>7. n' + m' <= MaxAttempts + k - 1 /\ o' + m' <= k
    BY <1>2, <1>3, <2>2, <2>4, <2>5, <2>6
  <2> QED BY <2>7 DEF Room, FewOpen
<1> QED BY <1>4, <1>5, <1>6

\* Steps that start nothing: the open and completed attempts of a user do not
\* grow, nor do the starts in flight.
LEMMA OtherStepsShrink ==
  ASSUME IndInv, NEW u \in Users, NEW w \in Workers, RequestStep(w),
         \A v \in Users : ~StartRead(w, v), ~StartCommit(w)
  PROVE  Shrinks(u)
<1>1. Starting(u)' \subseteq Starting(u)
  <2> DEFINE Elsewhere == /\ requests'[w].op # "start"
                          /\ \A v \in Workers \ {w} : requests'[v] = requests[v]
  <2>1. DOMAIN requests = Workers
    BY DEF IndInv, RowsOK
  <2>2. ASSUME NEW a \in Attempts, SaveRead(w, a) \/ SubmitRead(w, a) \/ IssueRead(w, a)
        PROVE  Elsewhere
    <3>1. CASE SaveRead(w, a)
      BY <2>1, <3>1 DEF SaveRead, Begin, Idle
    <3>2. CASE SubmitRead(w, a)
      BY <2>1, <3>2 DEF SubmitRead, Begin, Idle
    <3>3. CASE IssueRead(w, a)
      BY <2>1, <3>3 DEF IssueRead, Begin, Idle
    <3> QED BY <2>2, <3>1, <3>2, <3>3
  <2>3. ASSUME NEW a \in Attempts, NEW q \in Questions, GradeRead(w, a, q)
        PROVE  Elsewhere
    BY <2>1, <2>3 DEF GradeRead, Begin, Idle
  <2>4. ASSUME DeleteRead(w) \/ Abort(w) \/ SaveCommit(w) \/ IssueCommit(w) \/ DeleteCommit(w)
        PROVE  Elsewhere
    BY <2>1, <2>4 DEF DeleteRead, Begin, Abort, SaveCommit, IssueCommit, DeleteCommit,
                      Finish, Idle
  <2>5. ASSUME NEW a, NEW total, FinishGraded(w, a, total) PROVE Elsewhere
    BY <2>1, <2>5 DEF FinishGraded, Idle
  <2>6. ASSUME SubmitCommit(w) PROVE Elsewhere
    <3>1. PICK a, total : FinishGraded(w, a, total)
      BY <2>6 DEF SubmitCommit
    <3> QED BY <2>5, <3>1
  <2>7. ASSUME GradeCommit(w) PROVE Elsewhere
    <3>1. PICK a, total : FinishGraded(w, a, total)
      BY <2>7 DEF GradeCommit
    <3> QED BY <2>5, <3>1
  <2>8. Elsewhere
    BY <2>2, <2>3, <2>4, <2>6, <2>7 DEF RequestStep
  <2> QED BY <2>8 DEF Starting
<1>2. \A a \in Attempts : attempts'[a].status \in {"open", "completed"} =>
         /\ attempts'[a].user = attempts[a].user
         /\ attempts[a].status \in {"open", "completed"}
         /\ attempts'[a].status = "open" => attempts[a].status = "open"
  <2>1. CASE SubmitCommit(w)
    <3>1. requests[w].attempt \in Attempts
          /\ attempts[requests[w].attempt].status = "open"
      BY <2>1, SubmitFindsOpen
    <3> QED BY <2>1, <3>1 DEF SubmitCommit, IndInv, RowsOK
  <2>2. CASE GradeCommit(w)
    BY <2>2 DEF GradeCommit, IndInv, RowsOK
  <2>3. CASE DeleteCommit(w)
    BY <2>3 DEF DeleteCommit, NoAttempt
  <2>4. CASE UNCHANGED attempts
    BY <2>4
  <2> QED BY <2>1, <2>2, <2>3, <2>4, OnlyStartsTouchAttempts
<1>3. AttemptsOf(u)' \subseteq AttemptsOf(u) /\ OpenAttempts(u)' \subseteq OpenAttempts(u)
  BY <1>2 DEF AttemptsOf, OpenAttempts
<1> QED BY <1>1, <1>3 DEF Shrinks

LEMMA NextBounded == IndInv /\ StartsBounded /\ [Next]_vars => StartsBounded'
<1> SUFFICES ASSUME IndInv, StartsBounded, [Next]_vars PROVE StartsBounded'
  OBVIOUS
<1> SUFFICES ASSUME NEW u \in Users PROVE Shrinks(u) \/ Looks(u) \/ Inserts(u)
  <2>1. StartsBounded' <=> \A u \in Users : Room(u)' /\ FewOpen(u)'
    BY DEF StartsBounded, Room, FewOpen
  <2> QED BY <2>1, BoundedStep
<1>1. CASE ExamStep \/ UNCHANGED vars
  BY <1>1
  DEF ExamStep, publish_exam, archive_exam, update_exam, SetStatus, vars, AttemptsOf,
      OpenAttempts, Starting, Shrinks
<1>2. ASSUME NEW b \in Attempts, TimeRunsOut(b) PROVE Shrinks(u)
  <2>1. \A a \in Attempts : /\ attempts'[a].status = attempts[a].status
                            /\ attempts'[a].user = attempts[a].user
    BY <1>2 DEF TimeRunsOut, IndInv, RowsOK
  <2> QED BY <1>2, <2>1 DEF TimeRunsOut, AttemptsOf, OpenAttempts, Starting, Shrinks
<1>3. ASSUME NEW w \in Workers, NEW v \in Users, StartRead(w, v)
      PROVE  Shrinks(u) \/ Looks(u)
  <2>1. AttemptsOf(u)' = AttemptsOf(u) /\ OpenAttempts(u)' = OpenAttempts(u)
    BY <1>3 DEF StartRead, Begin, AttemptsOf, OpenAttempts
  <2>2. CASE u = v
    BY <1>3, <2>1, <2>2 DEF StartRead, Looks
  <2>3. CASE u # v
    <3>1. requests' = [requests EXCEPT ![w] = [Idle EXCEPT !.op = "start", !.user = v]]
      BY <1>3 DEF StartRead, Begin
    <3>2. [Idle EXCEPT !.op = "start", !.user = v].user = v
      BY DEF Idle
    <3>3. Starting(u)' \subseteq Starting(u)
      BY <2>3, <3>1, <3>2 DEF Starting, IndInv, RowsOK
    <3> QED BY <2>1, <3>3 DEF Shrinks
  <2> QED BY <2>2, <2>3
<1>4. ASSUME NEW w \in Workers, StartCommit(w) PROVE Shrinks(u) \/ Inserts(u)
  <2>1. PICK a \in Attempts :
          attempts' = [attempts EXCEPT ![a] =
             [NoAttempt EXCEPT !.status = "open", !.user = requests[w].user]]
    BY <1>4 DEF StartCommit
  <2>2. requests' = [requests EXCEPT ![w] = Idle] /\ requests[w].op = "start"
    BY <1>4 DEF StartCommit, Finish
  <2>3. Starting(u)' \subseteq Starting(u) \ {w}
    BY <2>2 DEF Starting, Idle, IndInv, RowsOK
  <2>4. CASE requests[w].user = u
    <3>1. w \in Starting(u)
      BY <2>2, <2>4 DEF Starting
    <3>2. /\ AttemptsOf(u)' \subseteq AttemptsOf(u) \cup {a}
          /\ OpenAttempts(u)' \subseteq OpenAttempts(u) \cup {a}
      BY <2>1 DEF AttemptsOf, OpenAttempts, IndInv, RowsOK
    <3> QED BY <2>3, <3>1, <3>2 DEF Inserts
  <2>5. CASE requests[w].user # u
    <3>1. [NoAttempt EXCEPT !.status = "open", !.user = requests[w].user].user # u
      BY <2>5 DEF NoAttempt
    <3>2. AttemptsOf(u)' \subseteq AttemptsOf(u) /\ OpenAttempts(u)' \subseteq OpenAttempts(u)
      BY <2>1, <3>1 DEF AttemptsOf, OpenAttempts, IndInv, RowsOK
    <3> QED BY <2>3, <3>2 DEF Shrinks
  <2> QED BY <2>4, <2>5
<1>5. ASSUME NEW w \in Workers, RequestStep(w), \A v \in Users : ~StartRead(w, v),
             ~StartCommit(w)
      PROVE  Shrinks(u)
  BY <1>5, OtherStepsShrink
<1> QED BY <1>1, <1>2, <1>3, <1>4, <1>5 DEF Next

\* However starts overlap, attempts and starts in flight exceed max_attempts, and
\* the open ones exceed one, by at most the requests served beside the first.
THEOREM StartsAreBounded == Spec => []StartsBounded
  BY InitBounded, NextBounded, IndInvHolds, PTL DEF Spec

\* A server that handles one request at a time keeps one open attempt for each
\* user and never exceeds max_attempts.
THEOREM StartSafety == ASSUME Cardinality(Workers) = 1 PROVE Spec => []StartRules
<1>1. StartsBounded => StartRules
  <2> SUFFICES ASSUME StartsBounded, NEW u \in Users
               PROVE  /\ Cardinality(OpenAttempts(u)) <= 1
                      /\ AttemptsOf(u) # {} => Cardinality(AttemptsOf(u)) <= MaxAttempts
    BY DEF StartRules, OneActiveAttempt, MaxAttemptsEnforced
  <2>1. Room(u) /\ FewOpen(u)
    BY BoundedIs
  <2> QED BY <2>1, CountsAreFinite DEF Room, FewOpen
<1> QED BY <1>1, StartsAreBounded, PTL

-------------------------------------------------------------------------------
(* Sums: what SumFunction of module Functions gives.  Induction is by the  *)
(* least counterexample, on sets of numbers and of subsets.                *)

LEMMA LeastNatural ==
  ASSUME NEW T \in SUBSET Nat, T # {}
  PROVE  \E n \in T : \A m \in T : n <= m
<1>1. PICK n \in T : \A m \in T : <<m, n>> \notin OpToRel(<, Nat)
  <2> HIDE DEF OpToRel
  <2> QED BY NatLessThanWellFounded, WFMin
<1>2. \A m \in T : ~(m < n)
  BY <1>1 DEF OpToRel
<1> QED BY <1>2

\* The element a sum takes next, and what is left then.
First(s) == CHOOSE x \in s : TRUE

Rest(s) == s \ {First(s)}

LEMMA FirstRest ==
  ASSUME NEW Q, IsFiniteSet(Q), NEW s \in SUBSET Q, s # {}
  PROVE  First(s) \in s /\ Rest(s) \in SUBSET Q /\ Cardinality(Rest(s)) = Cardinality(s) - 1
<1>1. First(s) \in s
  BY DEF First
<1>2. Cardinality(s \ {First(s)}) = Cardinality(s) - 1
  BY <1>1, FS_Subset, FS_RemoveElement
<1> QED BY <1>1, <1>2 DEF Rest

LEMMA SubsetsOf ==
  ASSUME NEW Q, IsFiniteSet(Q)
  PROVE  \A s \in SUBSET Q : IsFiniteSet(s) /\ Cardinality(s) \in Nat
  BY FS_Subset, FS_CardinalityType

\* What holds of the empty set, and of a set when it holds of its rest, holds of all.
LEMMA SetInduction ==
  ASSUME NEW Q, IsFiniteSet(Q), NEW P \in SUBSET (SUBSET Q), {} \in P,
         \A s \in SUBSET Q : s # {} /\ Rest(s) \in P => s \in P
  PROVE  Q \in P
<1> DEFINE Bad == {n \in Nat : \E s \in SUBSET Q : Cardinality(s) = n /\ s \notin P}
<1>1. \A s \in SUBSET Q : IsFiniteSet(s) /\ Cardinality(s) \in Nat
  BY SubsetsOf
<1>2. ASSUME Bad # {} PROVE FALSE
  <2>1. PICK n \in Bad : \A m \in Bad : n <= m
    BY <1>2, LeastNatural
  <2>2. PICK s \in SUBSET Q : Cardinality(s) = n /\ s \notin P
    BY <2>1
  <2>3. Cardinality(Rest(s)) = n - 1 /\ Rest(s) \in SUBSET Q
    BY <2>2, FirstRest
  <2>4. n - 1 \notin Bad
    BY <2>1
  <2> QED BY <1>1, <2>2, <2>3, <2>4
<1> QED BY <1>1, <1>2

\* g sums f over the sets of D.
Term(f, g, s) == IF s = {} THEN 0 ELSE f[First(s)] + g[Rest(s)]

SumsTo(f, g, D) == g = [s \in D |-> Term(f, g, s)]

\* The recursive definition in MapThenFoldSet has a solution.
LEMMA SumExists ==
  ASSUME NEW Q, IsFiniteSet(Q), NEW f
  PROVE  \E g : SumsTo(f, g, SUBSET Q)
<1> DEFINE D(n) == {s \in SUBSET Q : Cardinality(s) <= n}
           Bad == {n \in Nat : ~ \E g : SumsTo(f, g, D(n))}
<1>1. \A s \in SUBSET Q : IsFiniteSet(s) /\ Cardinality(s) \in Nat
  BY SubsetsOf
<1>2. ASSUME Bad # {} PROVE FALSE
  <2>1. PICK n \in Bad : \A m \in Bad : n <= m
    BY <1>2, LeastNatural
  <2>2. CASE n = 0
    <3>1. \A s \in D(0) : s = {}
      BY <1>1, FS_EmptySet
    <3>2. SumsTo(f, [s \in D(0) |-> 0], D(0))
      BY <3>1 DEF SumsTo, Term
    <3> QED BY <2>1, <2>2, <3>2
  <2>3. CASE n # 0
    <3>1. n - 1 \in Nat /\ n - 1 \notin Bad
      <4> HIDE DEF Bad
      <4>1. n \in Nat
        BY DEF Bad
      <4> QED BY <2>1, <2>3, <4>1
    <3>2. PICK g : SumsTo(f, g, D(n - 1))
      BY <3>1
    <3> DEFINE h == [s \in D(n) |-> Term(f, g, s)]
    <3>3. ASSUME NEW s \in D(n), s # {} PROVE Rest(s) \in D(n - 1)
      BY <1>1, <2>1, <3>3, FirstRest
    <3>4. \A s \in D(n - 1) : s \in D(n)
      BY <1>1, <2>1
    <3>5. \A s \in D(n - 1) : h[s] = g[s]
      BY <3>2, <3>4 DEF SumsTo
    <3>6. \A s \in D(n) : Term(f, g, s) = Term(f, h, s)
      <4> HIDE DEF h
      <4> QED BY <3>3, <3>5 DEF Term
    <3>7. SumsTo(f, h, D(n))
      BY <3>6 DEF SumsTo
    <3> QED BY <2>1, <3>7
  <2> QED BY <2>2, <2>3
<1>3. Cardinality(Q) \in Nat /\ D(Cardinality(Q)) = SUBSET Q
  BY <1>1, FS_Subset
<1> QED BY <1>2, <1>3

\* SumFunction is a sum, taken element by element.
LEMMA SumDef ==
  ASSUME NEW Q, IsFiniteSet(Q), NEW f, DOMAIN f = Q
  PROVE  \E g : SumsTo(f, g, SUBSET Q) /\ SumFunction(f) = g[Q]
<1> DEFINE g == CHOOSE g : SumsTo(f, g, SUBSET Q)
<1>1. SumsTo(f, g, SUBSET Q)
  BY SumExists
<1>2. SumFunction(f) = g[Q]
  BY DEF SumFunction, SumFunctionOnSet, FoldFunctionOnSet, MapThenFoldSet, SumsTo, Term,
         First, Rest
<1> QED BY <1>1, <1>2

LEMMA SumIsInt ==
  ASSUME NEW Q, IsFiniteSet(Q), NEW f \in [Q -> Int]
  PROVE  SumFunction(f) \in Int
<1>1. PICK g : SumsTo(f, g, SUBSET Q) /\ SumFunction(f) = g[Q]
  BY SumDef
<1> DEFINE P == {s \in SUBSET Q : g[s] \in Int}
<1>2. {} \in P
  BY <1>1 DEF SumsTo, Term
<1>3. ASSUME NEW s \in SUBSET Q, s # {}, Rest(s) \in P PROVE s \in P
  <2>1. g[s] = f[First(s)] + g[Rest(s)] /\ First(s) \in Q
    BY <1>1, <1>3, FirstRest DEF SumsTo, Term
  <2> QED BY <1>3, <2>1
<1>4. Q \in P
  <2> HIDE DEF P
  <2>1. P \in SUBSET (SUBSET Q)
    BY DEF P
  <2> QED BY <1>2, <1>3, <2>1, SetInduction
<1> QED BY <1>1, <1>4

\* A sum of which one term changes.
LEMMA SumChange ==
  ASSUME NEW Q, IsFiniteSet(Q), NEW f \in [Q -> Int], NEW h \in [Q -> Int],
         NEW q \in Q, \A x \in Q \ {q} : h[x] = f[x]
  PROVE  /\ SumFunction(f) \in Int
         /\ SumFunction(h) = SumFunction(f) + h[q] - f[q]
<1>1. PICK g : SumsTo(f, g, SUBSET Q) /\ SumFunction(f) = g[Q]
  BY SumDef
<1>2. PICK k : SumsTo(h, k, SUBSET Q) /\ SumFunction(h) = k[Q]
  BY SumDef
<1> DEFINE P == {s \in SUBSET Q : /\ g[s] \in Int
                                  /\ k[s] = IF q \in s THEN g[s] + h[q] - f[q] ELSE g[s]}
<1>3. {} \in P
  BY <1>1, <1>2 DEF SumsTo, Term
<1>4. ASSUME NEW s \in SUBSET Q, s # {}, Rest(s) \in P PROVE s \in P
  <2>1. /\ g[s] = f[First(s)] + g[Rest(s)] /\ k[s] = h[First(s)] + k[Rest(s)]
        /\ First(s) \in Q /\ First(s) \in s
    BY <1>1, <1>2, <1>4, FirstRest DEF SumsTo, Term
  <2>2. Rest(s) = s \ {First(s)}
    BY DEF Rest
  <2>3. PICK x \in Q : x = First(s)
    BY <2>1
  <2>4. CASE x = q
    <3>1. q \in s /\ q \notin Rest(s)
      BY <2>1, <2>2, <2>3, <2>4
    <3> QED BY <1>4, <2>1, <2>3, <2>4, <3>1
  <2>5. CASE x # q
    <3>1. q \in s <=> q \in Rest(s)
      BY <2>2, <2>3, <2>5
    <3>2. h[x] = f[x]
      BY <2>5
    <3> QED BY <1>4, <2>1, <2>3, <3>1, <3>2
  <2> QED BY <2>4, <2>5
<1>5. Q \in P
  <2> HIDE DEF P
  <2>1. P \in SUBSET (SUBSET Q)
    BY DEF P
  <2> QED BY <1>3, <1>4, <2>1, SetInduction
<1> QED BY <1>1, <1>2, <1>5

\* A sum of sums, term by term.
LEMMA SumPlus ==
  ASSUME NEW Q, IsFiniteSet(Q), NEW e \in [Q -> Int], NEW f \in [Q -> Int],
         NEW h \in [Q -> Int], \A x \in Q : h[x] = e[x] + f[x]
  PROVE  SumFunction(h) = SumFunction(e) + SumFunction(f)
<1>1. PICK g : SumsTo(e, g, SUBSET Q) /\ SumFunction(e) = g[Q]
  BY SumDef
<1>2. PICK k : SumsTo(f, k, SUBSET Q) /\ SumFunction(f) = k[Q]
  BY SumDef
<1>3. PICK m : SumsTo(h, m, SUBSET Q) /\ SumFunction(h) = m[Q]
  BY SumDef
<1> DEFINE P == {s \in SUBSET Q : g[s] \in Int /\ k[s] \in Int /\ m[s] = g[s] + k[s]}
<1>4. {} \in P
  BY <1>1, <1>2, <1>3 DEF SumsTo, Term
<1>5. ASSUME NEW s \in SUBSET Q, s # {}, Rest(s) \in P PROVE s \in P
  <2>1. PICK x \in Q : x = First(s)
    BY <1>5, FirstRest
  <2>2. /\ g[s] = e[x] + g[Rest(s)] /\ k[s] = f[x] + k[Rest(s)] /\ m[s] = h[x] + m[Rest(s)]
    BY <1>1, <1>2, <1>3, <1>5, <2>1 DEF SumsTo, Term
  <2>3. e[x] \in Int /\ f[x] \in Int /\ h[x] = e[x] + f[x]
    OBVIOUS
  <2> QED BY <1>5, <2>2, <2>3
<1>6. Q \in P
  <2> HIDE DEF P
  <2>1. P \in SUBSET (SUBSET Q)
    BY DEF P
  <2> QED BY <1>4, <1>5, <2>1, SetInduction
<1> QED BY <1>1, <1>2, <1>3, <1>6

LEMMA SumOfZeros ==
  ASSUME NEW Q, IsFiniteSet(Q), NEW f \in [Q -> Int], \A x \in Q : f[x] = 0
  PROVE  SumFunction(f) = 0
<1>1. PICK x \in Int : x = SumFunction(f)
  BY SumIsInt
<1>2. x = x + x
  <2>1. SumFunction(f) = SumFunction(f) + SumFunction(f)
    BY SumPlus
  <2> QED BY <1>1, <2>1
<1>3. x = 0
  BY <1>2
<1> QED BY <1>1, <1>3

\* A term takes the place of a zero.
LEMMA SumGrows ==
  ASSUME NEW Q, IsFiniteSet(Q), NEW f \in [Q -> Int], NEW h \in [Q -> Int],
         NEW q \in Q, f[q] = 0, \A x \in Q \ {q} : h[x] = f[x]
  PROVE  SumFunction(h) = SumFunction(f) + h[q]
<1>1. PICK x \in Int : x = SumFunction(f)
  BY SumIsInt
<1>2. SumFunction(h) = SumFunction(f) + h[q] - f[q]
  BY SumChange
<1>3. h[q] \in Int
  OBVIOUS
<1> QED BY <1>1, <1>2, <1>3

\* Zeros before the terms of a sum do not change it.
ZerosAnd(n, m, g, f) == /\ n \in Nat /\ m \in Nat
                        /\ g \in [1 .. m -> Int] /\ f \in [1 .. n + m -> Int]
                        /\ \A i \in 1 .. n : f[i] = 0
                        /\ \A j \in 1 .. m : f[n + j] = g[j]

LEMMA SumAfterZeros ==
  ASSUME NEW n, NEW m, NEW g, NEW f, ZerosAnd(n, m, g, f)
  PROVE  SumFunction(f) = SumFunction(g)
<1> USE DEF ZerosAnd
<1> DEFINE F(k) == [i \in 1 .. n + m |-> IF i <= n + k THEN f[i] ELSE 0]
           G(k) == [j \in 1 .. m |-> IF j <= k THEN g[j] ELSE 0]
           Bad == {k \in 0 .. m : SumFunction(F(k)) # SumFunction(G(k))}
<1>1. IsFiniteSet(1 .. n + m) /\ IsFiniteSet(1 .. m)
  BY FS_Interval
<1>2. \A k \in 0 .. m : F(k) \in [1 .. n + m -> Int] /\ G(k) \in [1 .. m -> Int]
  OBVIOUS
<1>3. ASSUME Bad # {} PROVE FALSE
  <2>1. PICK k \in Bad : \A l \in Bad : k <= l
    <3>1. Bad \in SUBSET Nat
      OBVIOUS
    <3> HIDE DEF Bad
    <3> QED BY <1>3, <3>1, LeastNatural
  <2>2. k \in 0 .. m /\ SumFunction(F(k)) # SumFunction(G(k))
    BY <2>1
  <2>3. CASE k = 0
    <3>1. \A i \in 1 .. n + m : F(0)[i] = 0
      OBVIOUS
    <3>2. \A j \in 1 .. m : G(0)[j] = 0
      OBVIOUS
    <3>3. F(0) \in [1 .. n + m -> Int] /\ G(0) \in [1 .. m -> Int]
      BY <1>2
    <3> HIDE DEF F, G
    <3>4. SumFunction(F(0)) = 0 /\ SumFunction(G(0)) = 0
      BY <1>1, <3>1, <3>2, <3>3, SumOfZeros
    <3> QED BY <2>2, <2>3, <3>4
  <2>4. CASE k # 0
    <3>1. k - 1 \in 0 .. m /\ SumFunction(F(k - 1)) = SumFunction(G(k - 1))
      <4>1. k - 1 \in 0 .. m /\ ~(k <= k - 1)
        BY <2>2, <2>4
      <4>2. k - 1 \notin Bad
        <5> HIDE DEF Bad
        <5> QED BY <2>1, <4>1
      <4> QED BY <4>1, <4>2
    <3>2. /\ n + k \in 1 .. n + m /\ F(k)[n + k] = f[n + k] /\ F(k - 1)[n + k] = 0
          /\ \A i \in (1 .. n + m) \ {n + k} : F(k)[i] = F(k - 1)[i]
      BY <2>2, <2>4
    <3>3. /\ k \in 1 .. m /\ G(k)[k] = g[k] /\ G(k - 1)[k] = 0
          /\ \A j \in (1 .. m) \ {k} : G(k)[j] = G(k - 1)[j]
      BY <2>2, <2>4
    <3>4. /\ F(k) \in [1 .. n + m -> Int] /\ F(k - 1) \in [1 .. n + m -> Int]
          /\ G(k) \in [1 .. m -> Int] /\ G(k - 1) \in [1 .. m -> Int]
      BY <1>2, <2>2, <3>1
    <3> HIDE DEF F, G
    <3> HIDE DEF Bad
    <3>5. SumFunction(F(k)) = SumFunction(F(k - 1)) + f[n + k]
      <4>1. PICK S : S = 1 .. n + m /\ IsFiniteSet(S)
        BY <1>1
      <4>2. PICK d, e : d = F(k - 1) /\ e = F(k)
        OBVIOUS
      <4>3. PICK x : x = n + k
        OBVIOUS
      <4>4. /\ d \in [S -> Int] /\ e \in [S -> Int] /\ x \in S
            /\ d[x] = 0 /\ e[x] = f[n + k] /\ \A y \in S \ {x} : e[y] = d[y]
        BY <3>2, <3>4, <4>1, <4>2, <4>3
      <4>5. SumFunction(e) = SumFunction(d) + e[x]
        BY ONLY <4>1, <4>4, SumGrows
      <4> QED BY <4>2, <4>4, <4>5
    <3>6. SumFunction(G(k)) = SumFunction(G(k - 1)) + g[k]
      <4>1. PICK S : S = 1 .. m /\ IsFiniteSet(S)
        BY <1>1
      <4>2. PICK d, e : d = G(k - 1) /\ e = G(k)
        OBVIOUS
      <4>3. PICK x : x = k
        OBVIOUS
      <4>4. /\ d \in [S -> Int] /\ e \in [S -> Int] /\ x \in S
            /\ d[x] = 0 /\ e[x] = g[k] /\ \A y \in S \ {x} : e[y] = d[y]
        BY <3>3, <3>4, <4>1, <4>2, <4>3
      <4>5. SumFunction(e) = SumFunction(d) + e[x]
        BY ONLY <4>1, <4>4, SumGrows
      <4> QED BY <4>2, <4>4, <4>5
    <3>7. f[n + k] = g[k]
      BY <3>3
    <3> QED BY <2>2, <3>1, <3>5, <3>6, <3>7
  <2> QED BY <2>3, <2>4
<1>4. SumFunction(F(m)) = SumFunction(G(m))
  <2>1. m \in 0 .. m
    OBVIOUS
  <2>2. m \notin Bad
    BY <1>3
  <2> HIDE DEF F, G
  <2> QED BY <2>1, <2>2
<1>5. F(m) = f /\ G(m) = g
  OBVIOUS
<1> HIDE DEF F, G
<1> QED BY <1>4, <1>5

-------------------------------------------------------------------------------
(* Types.                                                                  *)

\* What a row of question_answers can be worth.
Worths == Nat \cup {Points[q] : q \in Questions}

LEMMA WorthsAreIntegers == Worths \subseteq Int
  BY ConstantsAssumption DEF Worths

LEMMA AnswerIs == QuestionAnswer = [live : BOOLEAN, points : Worths]
  BY DEF QuestionAnswer, Worths

\* The rows a submission inserts for a question.
LEMMA GradedRowsAre ==
  ASSUME NEW s \in Submissions, NEW q \in Questions
  PROVE  \E n \in Nat :
           /\ n \in 0 .. MaxRows /\ s[q] \in [1 .. n -> GradedRow(q)] /\ DOMAIN s[q] = 1 .. n
           /\ \A i \in 1 .. n : /\ s[q][i].points \in Worths /\ s[q][i].points \in Int
                                /\ s[q][i].counted \in BOOLEAN
<1>1. s[q] \in GradedRows(q)
  BY DEF Submissions
<1>2. PICK n \in 0 .. MaxRows : s[q] \in [1 .. n -> GradedRow(q)]
  BY <1>1 DEF GradedRows
<1>3. \A i \in 1 .. n : s[q][i] \in GradedRow(q)
  BY <1>2
<1>4. \A p \in Grades(q) : p \in Worths /\ p \in Int
  BY ConstantsAssumption DEF Grades, Worths
<1>5. \A i \in 1 .. n : /\ s[q][i].points \in Worths /\ s[q][i].points \in Int
                        /\ s[q][i].counted \in BOOLEAN
  BY <1>3, <1>4 DEF GradedRow
<1>6. n \in Nat /\ DOMAIN s[q] = 1 .. n
  BY <1>2, ConstantsAssumption
<1> QED BY <1>2, <1>5, <1>6

\* What the rows of a question add to the score, and to the other points.
LEMMA CountedTyped ==
  ASSUME NEW s \in Submissions, NEW q \in Questions
  PROVE  Counted(s[q]) \in Int /\ Repeated(s[q]) \in Int
<1>1. PICK n \in Nat :
         /\ DOMAIN s[q] = 1 .. n
         /\ \A i \in 1 .. n : s[q][i].points \in Int
  BY GradedRowsAre
<1> DEFINE t == s[q]
<1> DEFINE e == [i \in DOMAIN t |-> IF t[i].counted THEN t[i].points ELSE 0]
           f == [i \in DOMAIN t |-> IF t[i].counted THEN 0 ELSE t[i].points]
<1>2. e \in [1 .. n -> Int] /\ f \in [1 .. n -> Int] /\ IsFiniteSet(1 .. n)
  <2>1. \A i \in 1 .. n : /\ (IF t[i].counted THEN t[i].points ELSE 0) \in Int
                          /\ (IF t[i].counted THEN 0 ELSE t[i].points) \in Int
    BY <1>1
  <2>2. IsFiniteSet(1 .. n)
    BY FS_Interval
  <2> HIDE DEF t
  <2>3. DOMAIN t = 1 .. n
    BY <1>1 DEF t
  <2> QED BY <2>1, <2>2, <2>3
<1> HIDE DEF e, f
<1>3. SumFunction(e) \in Int /\ SumFunction(f) \in Int
  BY <1>2, SumIsInt
<1> QED BY <1>1, <1>3 DEF Counted, Repeated, e, f

\* Grades are sums, so every score is an integer.
LEMMA GradedTyped ==
  ASSUME NEW s \in Submissions
  PROVE  /\ Graded(s) \in Int /\ Surplus(s) \in Int
<1> DEFINE e == [q \in Questions |-> Counted(s[q])]
           f == [q \in Questions |-> Repeated(s[q])]
<1>1. e \in [Questions -> Int] /\ f \in [Questions -> Int]
  BY CountedTyped
<1> HIDE DEF e, f
<1>2. SumFunction(e) \in Int /\ SumFunction(f) \in Int
  BY <1>1, SumIsInt, ConstantsAssumption
<1> QED BY <1>2 DEF Graded, Surplus, e, f

LEMMA ScoresAreIntegers == Score = Int
  BY GradedTyped DEF Score

AnswersOK == answers \in [Attempts -> [Questions -> Seq(QuestionAnswer)]]

\* A grading knows its question and a row of it; rows are numbered from 1.
RequestTyped(r) ==
    r \in Request /\ (r.op = "grade" => r.question \in Questions /\ r.row # 0)

RequestsTyped == /\ requests \in [Workers -> Request]
                 /\ \A w \in Workers : RequestTyped(requests[w])

Typed == /\ exam \in ExamStatus \cup {"deleted"}
         /\ AnswersOK
         /\ RequestsTyped
         /\ history \in [Attempts -> History]

LEMMA TypedIsTypeOK == IndInv /\ Typed => TypeOK
  BY ScoresAreIntegers DEF IndInv, RowsOK, Typed, AnswersOK, RequestsTyped, TypeOK,
     ExamAttempt, Result, Certificate

\* What deleting the first n rows of an answer leaves.
LEMMA WipedRows ==
  ASSUME NEW rows \in Seq(QuestionAnswer), NEW n \in Nat
  PROVE  /\ WipeRows(rows, n) \in Seq(QuestionAnswer)
         /\ Len(WipeRows(rows, n)) = Len(rows)
         /\ LiveRows(WipeRows(rows, n)) = {i \in LiveRows(rows) : i > n}
<1> DEFINE wiped == WipeRows(rows, n)
<1>1. Len(rows) \in Nat /\ \A i \in 1 .. Len(rows) : rows[i] \in QuestionAnswer
  BY LenProperties, ElementOfSeq
<1>2. Deleted \in QuestionAnswer /\ Deleted.live = FALSE
  BY DEF Deleted, QuestionAnswer
<1>3. wiped \in [1 .. Len(rows) -> QuestionAnswer]
  BY <1>1, <1>2 DEF WipeRows
<1>4. wiped \in Seq(QuestionAnswer)
  BY <1>1, <1>3, SeqDef
<1>5. Len(wiped) \in Nat /\ DOMAIN wiped = 1 .. Len(wiped)
  BY <1>4, LenProperties
<1>6. Len(wiped) = Len(rows)
  BY <1>1, <1>3, <1>5
<1>7. \A i \in 1 .. Len(rows) : wiped[i] = IF i <= n THEN Deleted ELSE rows[i]
  BY DEF WipeRows
<1>8. LiveRows(wiped) = {i \in LiveRows(rows) : i > n}
  <2> HIDE DEF wiped
  <2> QED BY <1>1, <1>2, <1>6, <1>7 DEF LiveRows
<1> QED BY <1>4, <1>6, <1>8

LEMMA RowIsAnAnswer == \A n \in Worths : Row(n) \in QuestionAnswer
  BY AnswerIs DEF Row

\* Rows put after the ones that were there.
LEMMA InsertedRows ==
  ASSUME NEW rows \in Seq(QuestionAnswer), NEW n \in Nat, NEW m \in Nat,
         NEW f \in [1 .. m -> QuestionAnswer]
  PROVE  LET after == WipeRows(rows, n) \o f IN
         /\ after \in Seq(QuestionAnswer)
         /\ Len(after) = Len(rows) + m
         /\ \A i \in 1 .. Len(rows) : after[i] = IF i <= n THEN Deleted ELSE rows[i]
         /\ \A j \in 1 .. m : after[Len(rows) + j] = f[j]
<1>1. PICK wiped \in Seq(QuestionAnswer) :
         /\ wiped = WipeRows(rows, n) /\ Len(wiped) = Len(rows)
  BY WipedRows
<1>2. \A i \in 1 .. Len(rows) : wiped[i] = IF i <= n THEN Deleted ELSE rows[i]
  BY <1>1 DEF WipeRows
<1>3. f \in Seq(QuestionAnswer) /\ Len(f) = m
  <2>1. f \in Seq(QuestionAnswer)
    BY SeqDef
  <2>2. DOMAIN f = 1 .. Len(f) /\ Len(f) \in Nat /\ DOMAIN f = 1 .. m
    BY <2>1, LenProperties
  <2> QED BY <2>1, <2>2
<1>4. PICK after : after = wiped \o f
  OBVIOUS
<1>5. Len(wiped) \in Nat
  BY LenProperties
<1>6. /\ after \in Seq(QuestionAnswer) /\ Len(after) = Len(wiped) + Len(f)
      /\ \A i \in 1 .. Len(wiped) + Len(f) :
            after[i] = IF i <= Len(wiped) THEN wiped[i] ELSE f[i - Len(wiped)]
  BY <1>3, <1>4, ConcatProperties
<1>7. \A j \in 1 .. m : after[Len(wiped) + j] = f[j]
  <2> SUFFICES ASSUME NEW j \in 1 .. m PROVE after[Len(wiped) + j] = f[j]
    OBVIOUS
  <2>1. /\ Len(wiped) + j \in 1 .. Len(wiped) + Len(f) /\ ~(Len(wiped) + j <= Len(wiped))
        /\ Len(wiped) + j - Len(wiped) = j
    BY <1>3, <1>5
  <2>2. PICK k : k = Len(wiped) + j
    OBVIOUS
  <2>3. after[k] = f[k - Len(wiped)]
    BY <1>6, <2>1, <2>2
  <2> QED BY <2>1, <2>2, <2>3
<1>8. \A i \in 1 .. Len(wiped) : after[i] = wiped[i]
  BY <1>3, <1>5, <1>6
<1> QED BY <1>1, <1>2, <1>3, <1>4, <1>6, <1>7, <1>8

LEMMA InitTyped == Init => Typed
<1> SUFFICES ASSUME Init PROVE Typed
  OBVIOUS
<1>1. Idle \in Request /\ RequestTyped(Idle)
  BY DEF Idle, Request, RequestTyped
<1>2. RequestsTyped
  BY <1>1 DEF Init, RequestsTyped
<1>3. AnswersOK
  BY EmptySeq DEF Init, AnswersOK, NoAnswers
<1>4. history \in [Attempts -> History]
  BY DEF Init, NoHistory, History
<1> QED BY <1>2, <1>3, <1>4 DEF Init, Typed, ExamStatus

\* A request that is opened, moves on or ends.
LEMMA TypedRequests ==
  ASSUME RequestsTyped, NEW w \in Workers, NEW r, RequestTyped(r),
         requests' = [requests EXCEPT ![w] = r]
  PROVE  RequestsTyped'
  BY DEF RequestsTyped, RequestTyped

LEMMA IdleTyped == RequestTyped(Idle)
  BY DEF Idle, Request, RequestTyped

LEMMA IdleInRequest == Idle \in Request
  BY DEF Idle, Request

LEMMA StartTyped ==
  ASSUME NEW u \in Users
  PROVE  RequestTyped([Idle EXCEPT !.op = "start", !.user = u])
<1>1. [Idle EXCEPT !.op = "start", !.user = u] \in Request
  BY IdleInRequest DEF Request
<1>2. [Idle EXCEPT !.op = "start", !.user = u].op = "start"
  BY DEF Idle
<1> QED BY <1>1, <1>2 DEF RequestTyped

LEMMA SaveTyped ==
  ASSUME NEW a \in Attempts, NEW c \in BOOLEAN
  PROVE  RequestTyped([Idle EXCEPT !.op = "save", !.attempt = a, !.completed = c])
<1>1. [Idle EXCEPT !.op = "save", !.attempt = a, !.completed = c] \in Request
  BY IdleInRequest DEF Request
<1>2. [Idle EXCEPT !.op = "save", !.attempt = a, !.completed = c].op = "save"
  BY DEF Idle
<1> QED BY <1>1, <1>2 DEF RequestTyped

LEMMA SubmitTyped ==
  ASSUME NEW a \in Attempts, NEW rows \in [Questions -> Nat]
  PROVE  RequestTyped([Idle EXCEPT !.op = "submit", !.attempt = a, !.rows = rows])
<1>1. [Idle EXCEPT !.op = "submit", !.attempt = a, !.rows = rows] \in Request
  BY IdleInRequest DEF Request
<1>2. [Idle EXCEPT !.op = "submit", !.attempt = a, !.rows = rows].op = "submit"
  BY DEF Idle
<1> QED BY <1>1, <1>2 DEF RequestTyped

LEMMA IssueTyped ==
  ASSUME NEW a \in Attempts, NEW score \in Int
  PROVE  RequestTyped([Idle EXCEPT !.op = "issue", !.attempt = a, !.score = score])
<1>1. [Idle EXCEPT !.op = "issue", !.attempt = a, !.score = score] \in Request
  BY IdleInRequest DEF Request
<1>2. [Idle EXCEPT !.op = "issue", !.attempt = a, !.score = score].op = "issue"
  BY DEF Idle
<1> QED BY <1>1, <1>2 DEF RequestTyped

\* The request a grading of row i of the answer to q makes.
Grading(a, q, i, was, score) ==
    [Idle EXCEPT !.op = "grade", !.attempt = a, !.question = q, !.row = i, !.was = was,
                 !.score = score]

LEMMA GradingFields ==
  ASSUME NEW a, NEW q, NEW i, NEW was, NEW score, NEW r, r = Grading(a, q, i, was, score)
  PROVE  /\ r.op = "grade" /\ r.attempt = a /\ r.question = q /\ r.row = i
         /\ r.was = was /\ r.score = score
  BY DEF Grading, Idle

LEMMA GradeTyped ==
  ASSUME NEW a \in Attempts, NEW q \in Questions, NEW i \in Nat \ {0}, NEW was \in Int,
         NEW score \in Int
  PROVE  RequestTyped(Grading(a, q, i, was, score))
<1>1. Grading(a, q, i, was, score) \in Request
  BY IdleInRequest DEF Grading, Request
<1> QED BY <1>1, GradingFields DEF RequestTyped

LEMMA DeleteTyped == RequestTyped([Idle EXCEPT !.op = "delete"])
<1>1. [Idle EXCEPT !.op = "delete"] \in Request
  BY IdleInRequest DEF Request
<1>2. [Idle EXCEPT !.op = "delete"].op = "delete"
  BY DEF Idle
<1> QED BY <1>1, <1>2 DEF RequestTyped

LEMMA TypedReads ==
  ASSUME TypeOK, Typed, NEW w \in Workers,
         \/ \E u \in Users : StartRead(w, u)
         \/ \E a \in Attempts : \/ SaveRead(w, a) \/ SubmitRead(w, a) \/ IssueRead(w, a)
                                \/ \E q \in Questions : GradeRead(w, a, q)
         \/ DeleteRead(w) \/ Abort(w)
  PROVE  Typed'
<1>1. ASSUME NEW r, RequestTyped(r), Begin(w, r) PROVE Typed'
  <2>1. RequestsTyped'
    BY <1>1, TypedRequests DEF Begin, Typed
  <2> QED BY <1>1, <2>1 DEF Begin, Typed, AnswersOK
<1>2. ASSUME NEW u \in Users, StartRead(w, u) PROVE Typed'
  <2> DEFINE r == [Idle EXCEPT !.op = "start", !.user = u]
  <2>1. RequestTyped(r)
    BY StartTyped
  <2> QED BY <1>1, <1>2, <2>1 DEF StartRead
<1>3. ASSUME NEW a \in Attempts, SaveRead(w, a) PROVE Typed'
  <2> DEFINE c == attempts[a].status = "completed"
             r == [Idle EXCEPT !.op = "save", !.attempt = a, !.completed = c]
  <2>1. RequestTyped(r)
    BY SaveTyped
  <2> QED BY <1>1, <1>3, <2>1 DEF SaveRead
<1>4. ASSUME NEW a \in Attempts, SubmitRead(w, a) PROVE Typed'
  <2> DEFINE lens == [q \in Questions |-> Len(answers[a][q])]
             r == [Idle EXCEPT !.op = "submit", !.attempt = a, !.rows = lens]
  <2>1. \A q \in Questions : answers[a][q] \in Seq(QuestionAnswer)
    BY DEF Typed, AnswersOK
  <2>2. lens \in [Questions -> Nat]
    BY <2>1, LenProperties
  <2>3. RequestTyped(r)
    <3> HIDE DEF lens
    <3> QED BY <2>2, SubmitTyped
  <2> QED BY <1>1, <1>4, <2>3 DEF SubmitRead
<1>5. ASSUME NEW a \in Attempts, IssueRead(w, a) PROVE Typed'
  <2>1. PICK total \in Int : total = results[a].total_score
    BY DEF TypeOK, Result
  <2> DEFINE r == [Idle EXCEPT !.op = "issue", !.attempt = a, !.score = total]
  <2>2. RequestTyped(r)
    BY IssueTyped
  <2> QED BY <1>1, <1>5, <2>1, <2>2 DEF IssueRead
<1>6. ASSUME NEW a \in Attempts, NEW q \in Questions, GradeRead(w, a, q) PROVE Typed'
  <2>1. PICK i \in LiveRows(answers[a][q]) :
           Begin(w, [Idle EXCEPT !.op = "grade", !.attempt = a, !.question = q, !.row = i,
                                 !.was = answers[a][q][i].points,
                                 !.score = attempts[a].score])
    BY <1>6 DEF GradeRead
  <2>2. answers[a][q] \in Seq(QuestionAnswer) /\ i \in 1 .. Len(answers[a][q])
    BY <2>1 DEF Typed, AnswersOK, LiveRows
  <2>3. i \in Nat /\ i # 0 /\ answers[a][q][i] \in QuestionAnswer
    BY <2>2, LenProperties, ElementOfSeq
  <2>4. answers[a][q][i].points \in Int
    BY <2>3, AnswerIs, WorthsAreIntegers
  <2>5. PICK was \in Int : was = answers[a][q][i].points
    BY <2>4
  <2>6. PICK score \in Int : score = attempts[a].score
    BY DEF TypeOK, ExamAttempt
  <2> DEFINE r == Grading(a, q, i, was, score)
  <2>7. RequestTyped(r)
    BY <2>3, GradeTyped
  <2>8. Begin(w, r)
    BY <2>1, <2>5, <2>6 DEF Grading
  <2> QED BY <1>1, <2>7, <2>8
<1>7. CASE DeleteRead(w)
  <2> DEFINE r == [Idle EXCEPT !.op = "delete"]
  <2>1. RequestTyped(r)
    BY DeleteTyped
  <2> QED BY <1>1, <1>7, <2>1 DEF DeleteRead
<1>8. CASE Abort(w)
  <2>1. RequestsTyped'
    BY <1>8, IdleTyped, TypedRequests DEF Abort, Typed
  <2> QED BY <1>8, <2>1 DEF Abort, Typed, AnswersOK
<1> QED BY <1>2, <1>3, <1>4, <1>5, <1>6, <1>7, <1>8

LEMMA FinishGradedTyped ==
  ASSUME RequestsTyped, NEW w \in Workers, NEW a \in Attempts, NEW total \in Int,
         FinishGraded(w, a, total)
  PROVE  RequestsTyped'
<1>1. CASE Passes(total) /\ Certified
  BY <1>1, IssueTyped, TypedRequests DEF FinishGraded
<1>2. CASE ~(Passes(total) /\ Certified)
  BY <1>2, IdleTyped, TypedRequests DEF FinishGraded
<1> QED BY <1>1, <1>2

LEMMA FinishTyped ==
  ASSUME RequestsTyped, NEW w \in Workers, requests' = [requests EXCEPT ![w] = Idle]
  PROVE  RequestsTyped'
  BY IdleTyped, TypedRequests

LEMMA AnswersReplaced ==
  ASSUME AnswersOK, NEW a \in Attempts, NEW f \in [Questions -> Seq(QuestionAnswer)],
         answers' = [answers EXCEPT ![a] = f]
  PROVE  AnswersOK'
  BY DEF AnswersOK

LEMMA SubmittedTyped ==
  ASSUME AnswersOK, NEW a \in Attempts, NEW rows \in [Questions -> Nat],
         NEW s \in Submissions
  PROVE  SubmittedRows(a, rows, s) \in [Questions -> Seq(QuestionAnswer)]
<1>1. ASSUME NEW q \in Questions
      PROVE  WipeRows(answers[a][q], rows[q]) \o [i \in DOMAIN s[q] |-> Row(s[q][i].points)]
                \in Seq(QuestionAnswer)
  <2>1. answers[a][q] \in Seq(QuestionAnswer) /\ rows[q] \in Nat
    BY DEF AnswersOK
  <2>2. PICK n \in Nat : DOMAIN s[q] = 1 .. n
                         /\ \A i \in 1 .. n : s[q][i].points \in Worths
    BY GradedRowsAre
  <2>3. [i \in DOMAIN s[q] |-> Row(s[q][i].points)] \in [1 .. n -> QuestionAnswer]
    BY <2>2, RowIsAnAnswer
  <2> QED BY <2>1, <2>3, InsertedRows
<1> QED BY <1>1 DEF SubmittedRows

LEMMA SavedTyped ==
  ASSUME AnswersOK, NEW a \in Attempts, NEW count \in [Questions -> 0 .. MaxRows]
  PROVE  SavedRows(a, count) \in [Questions -> Seq(QuestionAnswer)]
<1>1. ASSUME NEW q \in Questions
      PROVE  /\ answers[a][q] \in Seq(QuestionAnswer)
             /\ WipeRows(answers[a][q], Len(answers[a][q])) \o Ungraded(count[q])
                   \in Seq(QuestionAnswer)
  <2>1. answers[a][q] \in Seq(QuestionAnswer) /\ Len(answers[a][q]) \in Nat
    BY LenProperties DEF AnswersOK
  <2>2. count[q] \in Nat
    BY ConstantsAssumption
  <2>3. 0 \in Worths
    BY DEF Worths
  <2>4. Ungraded(count[q]) \in [1 .. count[q] -> QuestionAnswer]
    BY <2>3, RowIsAnAnswer DEF Ungraded
  <2> QED BY <2>1, <2>2, <2>4, InsertedRows
<1> QED BY <1>1 DEF SavedRows

LEMMA HistoryTyped ==
  ASSUME Typed, NEW a \in Attempts, NEW h \in History, history' = [history EXCEPT ![a] = h]
  PROVE  history' \in [Attempts -> History]
  BY DEF Typed

LEMMA StaleTyped ==
  ASSUME Typed, NEW a \in Attempts, NEW b \in BOOLEAN,
         history' = [history EXCEPT ![a].stale = @ \/ b]
  PROVE  history' \in [Attempts -> History]
<1>1. PICK h \in History : h = history[a]
  BY DEF Typed
<1>2. [h EXCEPT !.stale = @ \/ b] \in History
  BY DEF History
<1>3. history' = [history EXCEPT ![a] = [h EXCEPT !.stale = @ \/ b]]
  BY <1>1
<1> QED BY <1>2, <1>3, HistoryTyped

LEMMA TypedSave ==
  ASSUME IndInv, TypeOK, Typed, NEW w \in Workers, SaveCommit(w)
  PROVE  Typed'
<1>1. PICK a \in Attempts : a = requests[w].attempt
  BY DEF SaveCommit, Serving, IndInv, RequestsOK, RequestOK
<1>2. PICK count \in [Questions -> 0 .. MaxRows] :
        answers' = [answers EXCEPT ![a] = SavedRows(a, count)]
  BY <1>1 DEF SaveCommit
<1>3. AnswersOK'
  BY <1>2, SavedTyped, AnswersReplaced DEF Typed
<1>4. history' \in [Attempts -> History]
  <2>1. history' = [history EXCEPT ![a].stale = @ \/ attempts[a].status = "completed"]
    BY <1>1 DEF SaveCommit
  <2> QED BY <2>1, StaleTyped
<1>5. RequestsTyped' /\ UNCHANGED exam
  BY FinishTyped DEF SaveCommit, Finish, Typed
<1> QED BY <1>3, <1>4, <1>5 DEF Typed

LEMMA TypedSubmit ==
  ASSUME IndInv, TypeOK, Typed, NEW w \in Workers, SubmitCommit(w)
  PROVE  Typed'
<1>1. PICK a \in Attempts : a = requests[w].attempt
  BY SubmitFindsOpen
<1>2. PICK rows \in [Questions -> Nat] : rows = requests[w].rows
  BY DEF TypeOK, Request
<1>3. PICK s \in Submissions :
        /\ answers' = [answers EXCEPT ![a] = SubmittedRows(a, rows, s)]
        /\ history' = [history EXCEPT ![a].surplus = Surplus(s)]
        /\ FinishGraded(w, a, Graded(s))
  BY <1>1, <1>2 DEF SubmitCommit
<1>4. AnswersOK'
  BY <1>3, SubmittedTyped, AnswersReplaced DEF Typed
<1>5. history' \in [Attempts -> History]
  <2>1. PICK n \in Int : n = Surplus(s)
    BY GradedTyped
  <2>2. PICK h \in History : h = history[a]
    BY DEF Typed
  <2>3. [h EXCEPT !.surplus = n] \in History
    BY DEF History
  <2>4. history' = [history EXCEPT ![a] = [h EXCEPT !.surplus = n]]
    BY <1>3, <2>1, <2>2
  <2> QED BY <2>3, <2>4, HistoryTyped
<1>6. RequestsTyped' /\ UNCHANGED exam
  BY <1>3, GradedTyped, FinishGradedTyped DEF SubmitCommit, Typed
<1> QED BY <1>4, <1>5, <1>6 DEF Typed

\* What a grading loaded, and what it decides.
LEMMA GradeDecides ==
  ASSUME IndInv, TypeOK, Typed, NEW w \in Workers, GradeCommit(w)
  PROVE  \E r \in Request : \E n \in Nat :
           LET total == r.score + n - r.was IN
           /\ r = requests[w] /\ r.op = "grade" /\ total \in Int
           /\ r.attempt \in Attempts /\ attempts[r.attempt].status = "completed"
           /\ r.question \in Questions /\ r.row \in Nat \ {0}
           /\ \/ n = r.was /\ UNCHANGED <<answers, attempts>>
              \/ /\ n # r.was /\ Present(r.attempt, r.question, r.row)
                 /\ answers' = RegradedRow(r.attempt, r.question, r.row, n)
                 /\ attempts' = [attempts EXCEPT ![r.attempt].score = total]
           /\ results' = [results EXCEPT ![r.attempt] = [graded_by |-> "teacher",
                 total_score |-> total, passed |-> Passes(total)]]
           /\ history' = [history EXCEPT ![r.attempt].stale = @ \/ ~UpToDate(r)]
           /\ FinishGraded(w, r.attempt, total)
<1>1. PICK r \in Request : r = requests[w]
  BY DEF TypeOK
<1>2. r.op = "grade"
  BY <1>1 DEF GradeCommit, Serving
<1>3. /\ r.attempt \in Attempts /\ attempts[r.attempt].status = "completed"
      /\ r.question \in Questions /\ r.row \in Nat \ {0}
      /\ r.score \in Int /\ r.was \in Int
  <2>1. r.attempt \in Attempts /\ attempts[r.attempt].status = "completed"
    BY <1>1, GradeFindsCompleted
  <2>2. r.question \in Questions /\ r.row # 0
    BY <1>1, <1>2 DEF Typed, RequestsTyped, RequestTyped
  <2>3. r.row \in Nat /\ r.score \in Int /\ r.was \in Int
    BY DEF Request
  <2> QED BY <2>1, <2>2, <2>3
<1>4. PICK n \in Awardable(r.question) :
        LET total == r.score + n - r.was IN
        /\ \/ n = r.was /\ UNCHANGED <<answers, attempts>>
           \/ /\ n # r.was /\ Present(r.attempt, r.question, r.row)
              /\ answers' = RegradedRow(r.attempt, r.question, r.row, n)
              /\ attempts' = [attempts EXCEPT ![r.attempt].score = total]
        /\ results' = [results EXCEPT ![r.attempt] = [graded_by |-> "teacher",
              total_score |-> total, passed |-> Passes(total)]]
        /\ FinishGraded(w, r.attempt, total)
  BY <1>1 DEF GradeCommit
<1>5. n \in Nat
  BY <1>3, ConstantsAssumption DEF Awardable
<1>6. r.score + n - r.was \in Int
  BY <1>3, <1>5
<1>7. history' = [history EXCEPT ![r.attempt].stale = @ \/ ~UpToDate(r)]
  BY <1>1 DEF GradeCommit
<1> QED BY <1>1, <1>2, <1>3, <1>4, <1>5, <1>6, <1>7

LEMMA RegradedTyped ==
  ASSUME AnswersOK, NEW a \in Attempts, NEW q \in Questions, NEW i \in Nat \ {0},
         NEW n \in Nat, Present(a, q, i)
  PROVE  [answers[a] EXCEPT ![q] = [answers[a][q] EXCEPT ![i] = Row(n)]]
            \in [Questions -> Seq(QuestionAnswer)]
<1>1. PICK rows \in Seq(QuestionAnswer) : rows = answers[a][q]
  BY DEF AnswersOK
<1>2. i \in 1 .. Len(rows)
  BY <1>1, LenProperties DEF Present
<1>3. [rows EXCEPT ![i] = Row(n)] \in Seq(QuestionAnswer)
  BY <1>2, RowIsAnAnswer, ExceptSeq DEF Worths
<1>4. answers[a] \in [Questions -> Seq(QuestionAnswer)]
  BY DEF AnswersOK
<1> QED BY <1>1, <1>3, <1>4

LEMMA TypedGrade ==
  ASSUME IndInv, TypeOK, Typed, NEW w \in Workers, GradeCommit(w)
  PROVE  Typed'
<1>1. PICK r \in Request, n \in Nat :
        LET total == r.score + n - r.was IN
        /\ total \in Int /\ r.attempt \in Attempts
        /\ r.question \in Questions /\ r.row \in Nat \ {0}
        /\ \/ UNCHANGED answers
           \/ /\ Present(r.attempt, r.question, r.row)
              /\ answers' = RegradedRow(r.attempt, r.question, r.row, n)
        /\ history' = [history EXCEPT ![r.attempt].stale = @ \/ ~UpToDate(r)]
        /\ FinishGraded(w, r.attempt, total)
  BY GradeDecides
<1>2. PICK a \in Attempts, q \in Questions, i \in Nat \ {0} :
        a = r.attempt /\ q = r.question /\ i = r.row
  BY <1>1
<1>3. ASSUME UNCHANGED answers PROVE AnswersOK'
  BY <1>3 DEF Typed, AnswersOK
<1>4. ASSUME Present(a, q, i), answers' = RegradedRow(a, q, i, n) PROVE AnswersOK'
  BY <1>4, RegradedTyped, AnswersReplaced DEF RegradedRow, Typed
<1>5. AnswersOK'
  BY <1>1, <1>2, <1>3, <1>4 DEF Typed
<1>6. RequestsTyped' /\ UNCHANGED exam
  BY <1>1, FinishGradedTyped DEF GradeCommit, Typed
<1>7. history' \in [Attempts -> History]
  <2>1. PICK b \in BOOLEAN : b = ~UpToDate(r)
    BY DEF UpToDate
  <2>2. history' = [history EXCEPT ![a].stale = @ \/ b]
    BY <1>1, <1>2, <2>1
  <2> QED BY <2>2, StaleTyped
<1> QED BY <1>5, <1>6, <1>7 DEF Typed

LEMMA TypedDelete ==
  ASSUME Typed, NEW w \in Workers, DeleteCommit(w)
  PROVE  Typed'
<1>1. NoAnswers \in [Questions -> Seq(QuestionAnswer)]
  BY EmptySeq DEF NoAnswers
<1>2. AnswersOK'
  BY <1>1 DEF DeleteCommit, AnswersOK
<1>3. RequestsTyped'
  BY FinishTyped DEF DeleteCommit, Typed
<1>4. history' \in [Attempts -> History]
  BY DEF DeleteCommit, NoHistory, History
<1> QED BY <1>2, <1>3, <1>4 DEF DeleteCommit, Typed

LEMMA NextTyped == IndInv /\ Typed /\ [Next]_vars => Typed'
<1> SUFFICES ASSUME IndInv, Typed, [Next]_vars PROVE Typed'
  OBVIOUS
<1>1. TypeOK
  BY TypedIsTypeOK
<1>2. CASE ExamStep
  <2>1. exam' \in ExamStatus \cup {"deleted"} /\ UNCHANGED <<answers, requests, history>>
    BY <1>2 DEF ExamStep, publish_exam, archive_exam, update_exam, SetStatus, ExamStatus
  <2> QED BY <2>1 DEF Typed, AnswersOK, RequestsTyped
<1>3. ASSUME NEW w \in Workers, StartCommit(w) \/ IssueCommit(w) PROVE Typed'
  <2>1. RequestsTyped'
    BY <1>3, FinishTyped DEF StartCommit, IssueCommit, Finish, Typed
  <2> QED BY <1>3, <2>1 DEF StartCommit, IssueCommit, Typed, AnswersOK
<1>4. ASSUME NEW w \in Workers, RequestStep(w) PROVE Typed'
  BY <1>1, <1>3, <1>4, TypedReads, TypedSave, TypedSubmit, TypedGrade, TypedDelete
  DEF RequestStep
<1>5. ASSUME NEW a \in Attempts, TimeRunsOut(a) PROVE Typed'
  BY <1>5 DEF TimeRunsOut, Typed, AnswersOK, RequestsTyped
<1>6. CASE UNCHANGED vars
  BY <1>6 DEF vars, Typed, AnswersOK, RequestsTyped
<1> QED BY <1>2, <1>4, <1>5, <1>6 DEF Next

LEMMA TypedHolds == Spec => []Typed
  BY InitTyped, NextTyped, IndInvHolds, PTL DEF Spec

\* Every variable stays within the rows and columns the tables allow; scores
\* are integers, however many regradings are lost.
THEOREM TypeCorrect == Spec => []TypeOK
  BY TypedIsTypeOK, TypedHolds, IndInvHolds, PTL

-------------------------------------------------------------------------------
(* The points an attempt has earned.                                       *)

LEMMA RowsTyped ==
  ASSUME NEW rows \in Seq(QuestionAnswer)
  PROVE  /\ DOMAIN rows = 1 .. Len(rows) /\ Len(rows) \in Nat /\ IsFiniteSet(DOMAIN rows)
         /\ \A i \in DOMAIN rows : rows[i] \in QuestionAnswer /\ rows[i].points \in Int
<1>1. DOMAIN rows = 1 .. Len(rows) /\ Len(rows) \in Nat
  BY LenProperties
<1>2. IsFiniteSet(1 .. Len(rows))
  BY <1>1, FS_Interval
<1>3. ASSUME NEW i \in DOMAIN rows
      PROVE  rows[i] \in QuestionAnswer /\ rows[i].points \in Int
  <2>1. rows[i] \in QuestionAnswer
    BY <1>1, ElementOfSeq
  <2> QED BY <2>1, AnswerIs, WorthsAreIntegers
<1> QED BY <1>1, <1>2, <1>3

LEMMA RowPointsIsInt ==
  ASSUME NEW rows \in Seq(QuestionAnswer) PROVE RowPoints(rows) \in Int
<1> DEFINE f == [i \in DOMAIN rows |-> rows[i].points]
<1>1. f \in [DOMAIN rows -> Int] /\ IsFiniteSet(DOMAIN rows)
  BY RowsTyped
<1> HIDE DEF f
<1>2. SumFunction(f) \in Int
  BY <1>1, SumIsInt
<1> QED BY <1>2 DEF RowPoints, f

\* No row has been graded.
Blank(rows) == \A i \in DOMAIN rows : rows[i].points = 0

\* The rows a submission inserts for a question, after rows that were deleted or
\* not graded, are worth what they count and what they repeat.
LEMMA InsertedPoints ==
  ASSUME NEW rows \in Seq(QuestionAnswer), Blank(rows), NEW k \in Nat,
         NEW s \in Submissions, NEW q \in Questions
  PROVE  RowPoints(WipeRows(rows, k) \o [i \in DOMAIN s[q] |-> Row(s[q][i].points)])
           = Counted(s[q]) + Repeated(s[q])
<1>0. PICK t : t = s[q]
  OBVIOUS
<1>1. PICK m \in Nat :
         /\ DOMAIN t = 1 .. m
         /\ \A i \in 1 .. m : /\ t[i].points \in Worths /\ t[i].points \in Int
                              /\ t[i].counted \in BOOLEAN
  BY <1>0, GradedRowsAre
<1>2. PICK n \in Nat : n = Len(rows) /\ DOMAIN rows = 1 .. n
  BY RowsTyped
<1>3. PICK ins : ins = [i \in 1 .. m |-> Row(t[i].points)]
  OBVIOUS
<1>4. ins \in [1 .. m -> QuestionAnswer] /\ \A j \in 1 .. m : ins[j].points = t[j].points
  <2>1. \A j \in 1 .. m : Row(t[j].points) \in QuestionAnswer
    BY <1>1, RowIsAnAnswer
  <2>2. \A j \in 1 .. m : ins[j].points = t[j].points
    BY <1>3 DEF Row
  <2> QED BY <1>3, <2>1, <2>2
<1>5. PICK after : after = WipeRows(rows, k) \o ins
  OBVIOUS
<1>6. /\ after \in Seq(QuestionAnswer) /\ Len(after) = n + m
      /\ \A i \in 1 .. n : after[i] = IF i <= k THEN Deleted ELSE rows[i]
      /\ \A j \in 1 .. m : after[n + j] = ins[j]
  <2>1. LET new == WipeRows(rows, k) \o ins IN
        /\ new \in Seq(QuestionAnswer)
        /\ Len(new) = Len(rows) + m
        /\ \A i \in 1 .. Len(rows) : new[i] = IF i <= k THEN Deleted ELSE rows[i]
        /\ \A j \in 1 .. m : new[Len(rows) + j] = ins[j]
    BY <1>4, InsertedRows
  <2> QED BY <1>2, <1>5, <2>1
<1> DEFINE worth == [i \in DOMAIN after |-> after[i].points]
           all == [i \in 1 .. m |-> t[i].points]
           once == [i \in 1 .. m |-> IF t[i].counted THEN t[i].points ELSE 0]
           again == [i \in 1 .. m |-> IF t[i].counted THEN 0 ELSE t[i].points]
<1>7. /\ worth \in [1 .. n + m -> Int]
      /\ \A i \in 1 .. n : worth[i] = 0
      /\ \A j \in 1 .. m : worth[n + j] = t[j].points
  <2>1. DOMAIN after = 1 .. n + m /\ \A i \in DOMAIN after : after[i].points \in Int
    BY <1>6, RowsTyped
  <2>2. worth \in [1 .. n + m -> Int]
    BY <2>1
  <2>3. \A i \in 1 .. n : i \in DOMAIN after /\ after[i].points = 0
    <3>1. \A i \in 1 .. n : i \in 1 .. n + m
      OBVIOUS
    <3>2. \A i \in 1 .. n : rows[i].points = 0
      BY <1>2 DEF Blank
    <3>3. Deleted.points = 0
      BY DEF Deleted
    <3> QED BY <1>6, <2>1, <3>1, <3>2, <3>3
  <2>4. \A j \in 1 .. m : n + j \in DOMAIN after /\ after[n + j].points = t[j].points
    <3>1. \A j \in 1 .. m : n + j \in 1 .. n + m
      OBVIOUS
    <3> QED BY <1>4, <1>6, <2>1, <3>1
  <2> QED BY <2>2, <2>3, <2>4
<1>8. all \in [1 .. m -> Int] /\ \A j \in 1 .. m : all[j] = t[j].points
  BY <1>1
<1>9. /\ once \in [1 .. m -> Int] /\ again \in [1 .. m -> Int]
      /\ \A j \in 1 .. m : all[j] = once[j] + again[j]
  <2>1. ASSUME NEW j \in 1 .. m
        PROVE  once[j] \in Int /\ again[j] \in Int /\ all[j] = once[j] + again[j]
    <3>1. CASE t[j].counted
      BY <1>1, <3>1
    <3>2. CASE ~t[j].counted
      BY <1>1, <3>2
    <3> QED BY <3>1, <3>2
  <2>2. DOMAIN once = 1 .. m /\ DOMAIN again = 1 .. m
    OBVIOUS
  <2>3. once = [j \in 1 .. m |-> once[j]] /\ again = [j \in 1 .. m |-> again[j]]
    OBVIOUS
  <2> HIDE DEF once, again
  <2> QED BY <2>1, <2>3
<1>10. Counted(t) = SumFunction(once) /\ Repeated(t) = SumFunction(again)
  BY <1>1 DEF Counted, Repeated
<1>11. RowPoints(after) = SumFunction(worth)
  BY DEF RowPoints
<1> HIDE DEF worth, all, once, again
<1>12. SumFunction(worth) = SumFunction(all)
  <2>1. \A j \in 1 .. m : worth[n + j] = all[j]
    BY <1>7, <1>8
  <2>2. ZerosAnd(n, m, all, worth)
    BY <1>7, <1>8, <2>1 DEF ZerosAnd
  <2> QED BY <2>2, SumAfterZeros
<1>13. SumFunction(all) = SumFunction(once) + SumFunction(again)
  <2>1. IsFiniteSet(1 .. m)
    BY FS_Interval
  <2> QED BY <1>8, <1>9, <2>1, SumPlus
<1>14. after = WipeRows(rows, k) \o [i \in DOMAIN s[q] |-> Row(s[q][i].points)]
  BY <1>0, <1>1, <1>3, <1>5
<1> QED BY <1>0, <1>10, <1>11, <1>12, <1>13, <1>14

\* The points of an attempt's answers.
PointsOf(rows) == [q \in Questions |-> RowPoints(rows[q])]

LEMMA PointsOfTyped ==
  ASSUME NEW rows \in [Questions -> Seq(QuestionAnswer)]
  PROVE  PointsOf(rows) \in [Questions -> Int]
<1>1. \A q \in Questions : RowPoints(rows[q]) \in Int
  BY RowPointsIsInt
<1> QED BY <1>1 DEF PointsOf

\* A submission that finds nothing graded is worth its score and its surplus.
LEMMA SubmittedPoints ==
  ASSUME AnswersOK, NEW a \in Attempts, NEW rows \in [Questions -> Nat],
         NEW s \in Submissions, \A q \in Questions : Blank(answers[a][q])
  PROVE  SumFunction(PointsOf(SubmittedRows(a, rows, s))) = Graded(s) + Surplus(s)
<1> DEFINE once == [q \in Questions |-> Counted(s[q])]
           again == [q \in Questions |-> Repeated(s[q])]
           all == PointsOf(SubmittedRows(a, rows, s))
<1>1. ASSUME NEW q \in Questions
      PROVE  RowPoints(SubmittedRows(a, rows, s)[q]) = Counted(s[q]) + Repeated(s[q])
  <2>1. answers[a][q] \in Seq(QuestionAnswer) /\ rows[q] \in Nat
    BY DEF AnswersOK
  <2>2. SubmittedRows(a, rows, s)[q]
          = WipeRows(answers[a][q], rows[q]) \o [i \in DOMAIN s[q] |-> Row(s[q][i].points)]
    BY DEF SubmittedRows
  <2>3. PICK old \in Seq(QuestionAnswer) : old = answers[a][q] /\ Blank(old)
    BY <2>1
  <2>4. PICK k \in Nat : k = rows[q]
    BY <2>1
  <2>5. RowPoints(WipeRows(old, k) \o [i \in DOMAIN s[q] |-> Row(s[q][i].points)])
          = Counted(s[q]) + Repeated(s[q])
    BY <2>3, InsertedPoints
  <2> QED BY <2>2, <2>3, <2>4, <2>5
<1>2. once \in [Questions -> Int] /\ again \in [Questions -> Int]
  BY CountedTyped
<1>3. all \in [Questions -> Int]
  BY SubmittedTyped, PointsOfTyped
<1>4. \A q \in Questions : all[q] = once[q] + again[q]
  BY <1>1 DEF PointsOf
<1>5. Graded(s) = SumFunction(once) /\ Surplus(s) = SumFunction(again)
  BY DEF Graded, Surplus
<1> HIDE DEF all, once, again
<1>6. SumFunction(all) = SumFunction(once) + SumFunction(again)
  BY <1>2, <1>3, <1>4, SumPlus, ConstantsAssumption
<1> QED BY <1>5, <1>6 DEF all

\* A question with a regraded row is worth as much more as the row.
LEMMA RegradedPoints ==
  ASSUME NEW rows \in Seq(QuestionAnswer), NEW i \in 1 .. Len(rows), NEW n \in Nat
  PROVE  RowPoints([rows EXCEPT ![i] = Row(n)]) = RowPoints(rows) + n - rows[i].points
<1>1. PICK graded : graded = [rows EXCEPT ![i] = Row(n)]
  OBVIOUS
<1>2. Row(n) \in QuestionAnswer /\ Row(n).points = n
  BY RowIsAnAnswer DEF Worths, Row
<1>3. PICK S : S = DOMAIN rows
  OBVIOUS
<1>4. S = 1 .. Len(rows) /\ IsFiniteSet(S) /\ \A j \in S : rows[j].points \in Int
  BY <1>3, RowsTyped
<1>5. DOMAIN graded = S /\ \A j \in S : graded[j] = IF j = i THEN Row(n) ELSE rows[j]
  BY <1>1, <1>3, <1>4
<1> DEFINE f == [j \in S |-> rows[j].points]
           h == [j \in S |-> graded[j].points]
<1>6. f \in [S -> Int]
  BY <1>4
<1>7. \A j \in S : h[j] = IF j = i THEN n ELSE f[j]
  BY <1>2, <1>5
<1>8. h \in [S -> Int]
  BY <1>6, <1>7
<1>9. SumFunction(h) = SumFunction(f) + h[i] - f[i]
  <2> HIDE DEF f, h
  <2> QED BY <1>4, <1>6, <1>7, <1>8, SumChange
<1>10. SumFunction(h) = RowPoints(graded) /\ SumFunction(f) = RowPoints(rows)
  BY <1>3, <1>5 DEF RowPoints
<1>11. h[i] = n /\ f[i] = rows[i].points
  BY <1>4, <1>7
<1> QED BY <1>1, <1>9, <1>10, <1>11

LEMMA RegradedEarned ==
  ASSUME NEW rows \in [Questions -> Seq(QuestionAnswer)], NEW q \in Questions,
         NEW i \in 1 .. Len(rows[q]), NEW n \in Nat
  PROVE  /\ SumFunction(PointsOf(rows)) \in Int
         /\ SumFunction(PointsOf([rows EXCEPT ![q] = [rows[q] EXCEPT ![i] = Row(n)]]))
              = SumFunction(PointsOf(rows)) + n - rows[q][i].points
<1> DEFINE graded == [rows EXCEPT ![q] = [rows[q] EXCEPT ![i] = Row(n)]]
           f == PointsOf(rows)
           h == PointsOf(graded)
<1>1. rows[q] \in Seq(QuestionAnswer) /\ Row(n) \in QuestionAnswer
  BY RowIsAnAnswer DEF Worths
<1>2. [rows[q] EXCEPT ![i] = Row(n)] \in Seq(QuestionAnswer)
  BY <1>1, ExceptSeq
<1>3. /\ graded \in [Questions -> Seq(QuestionAnswer)]
      /\ graded[q] = [rows[q] EXCEPT ![i] = Row(n)]
      /\ \A p \in Questions \ {q} : graded[p] = rows[p]
  BY <1>2
<1> HIDE DEF graded
<1>4. f \in [Questions -> Int] /\ h \in [Questions -> Int]
  BY <1>3, PointsOfTyped
<1>5. \A p \in Questions \ {q} : h[p] = f[p]
  BY <1>3 DEF PointsOf
<1>6. h[q] = f[q] + n - rows[q][i].points
  <2>1. h[q] = RowPoints([rows[q] EXCEPT ![i] = Row(n)]) /\ f[q] = RowPoints(rows[q])
    BY <1>3 DEF PointsOf
  <2> QED BY <1>1, <2>1, RegradedPoints
<1>7. SumFunction(f) \in Int /\ SumFunction(h) = SumFunction(f) + h[q] - f[q]
  <2>1. IsFiniteSet(Questions)
    BY ConstantsAssumption
  <2> HIDE DEF f, h
  <2> QED BY <1>4, <1>5, <2>1, SumChange
<1>8. f[q] \in Int /\ rows[q][i].points \in Int
  BY <1>1, <1>4, RowsTyped
<1>9. SumFunction(h) = SumFunction(f) + n - rows[q][i].points
  BY <1>6, <1>7, <1>8
<1> QED BY <1>7, <1>9 DEF graded

LEMMA EarnedIs == \A a : Earned(a) = SumFunction(PointsOf(answers[a]))
  BY DEF Earned, PointsOf

LEMMA EarnedKept ==
  ASSUME NEW a, answers'[a] = answers[a] PROVE Earned(a)' = Earned(a)
  BY DEF Earned

-------------------------------------------------------------------------------
(* The score and the rows.  Until an attempt is submitted its answers are  *)
(* worth nothing, so its submission is worth the rows it inserts.          *)

OpenBlank == \A a \in Attempts : attempts[a].status \in {"absent", "open"} =>
                 \A q \in Questions : Blank(answers[a][q])

Balance == OpenBlank /\ ScoreIsEarned

\* What both ask of attempt a.
BalancedAt(a) ==
    /\ attempts[a].status \in {"absent", "open"} => \A q \in Questions : Blank(answers[a][q])
    /\ attempts[a].status = "completed" /\ ~history[a].stale =>
          /\ attempts[a].score + history[a].surplus = Earned(a)
          /\ results[a].total_score = attempts[a].score

LEMMA BalanceIs == Balance <=> \A a \in Attempts : BalancedAt(a)
  BY DEF Balance, OpenBlank, ScoreIsEarned, BalancedAt

\* An attempt the step leaves alone, but for its deadline.
LEMMA BalancedStays ==
  ASSUME NEW a \in Attempts, BalancedAt(a), answers'[a] = answers[a],
         attempts'[a].status = attempts[a].status, attempts'[a].score = attempts[a].score,
         results'[a] = results[a], history'[a] = history[a]
  PROVE  BalancedAt(a)'
  BY EarnedKept DEF BalancedAt

LEMMA InitBalance == Init => Balance
<1> SUFFICES ASSUME Init PROVE \A a \in Attempts : BalancedAt(a)
  BY BalanceIs
<1>1. ASSUME NEW q \in Questions PROVE Blank(NoAnswers[q])
  BY DEF Blank, NoAnswers
<1> QED BY <1>1 DEF Init, BalancedAt, NoAttempt

\* A step that completes no attempt and touches no answer.
LEMMA OthersBalanced ==
  ASSUME Balance, UNCHANGED <<answers, results, history>>,
         \A a \in Attempts : /\ attempts'[a].score = attempts[a].score
                             /\ attempts'[a].status = attempts[a].status
  PROVE  Balance'
<1>1. ASSUME NEW a \in Attempts PROVE BalancedAt(a)'
  BY BalanceIs, BalancedStays
<1> QED BY <1>1 DEF Balance, OpenBlank, ScoreIsEarned, BalancedAt

\* Answers saved to an attempt that is open are not graded.
LEMMA SavedBlank ==
  ASSUME AnswersOK, NEW a \in Attempts, NEW count \in [Questions -> 0 .. MaxRows],
         NEW q \in Questions, Blank(answers[a][q])
  PROVE  Blank(SavedRows(a, count)[q])
<1>1. PICK rows \in Seq(QuestionAnswer) : rows = answers[a][q]
  BY DEF AnswersOK
<1>2. CASE count[q] = 0
  BY <1>2 DEF SavedRows
<1>3. CASE count[q] # 0
  <2>1. PICK n \in Nat : n = Len(rows)
    BY LenProperties
  <2>2. PICK m \in Nat : m = count[q]
    BY ConstantsAssumption
  <2>3. PICK f : f = Ungraded(m)
    OBVIOUS
  <2>4. f \in [1 .. m -> QuestionAnswer] /\ \A j \in 1 .. m : f[j] = Row(0)
    BY <2>3, RowIsAnAnswer DEF Ungraded, Worths
  <2>5. PICK after : after = WipeRows(rows, n) \o f
    OBVIOUS
  <2>6. /\ after \in Seq(QuestionAnswer) /\ Len(after) = n + m
        /\ \A i \in 1 .. n : after[i] = IF i <= n THEN Deleted ELSE rows[i]
        /\ \A j \in 1 .. m : after[n + j] = f[j]
    BY <2>1, <2>4, <2>5, InsertedRows
  <2>7. DOMAIN after = 1 .. n + m
    BY <2>6, RowsTyped
  <2>8. ASSUME NEW i \in 1 .. n + m PROVE after[i].points = 0
    <3>1. Deleted.points = 0 /\ Row(0).points = 0
      BY DEF Deleted, Row
    <3>2. CASE i <= n
      BY <2>6, <3>1, <3>2
    <3>3. CASE ~(i <= n)
      <4>1. PICK j \in 1 .. m : i = n + j
        <5>1. i - n \in 1 .. m /\ i = n + (i - n)
          BY <3>3
        <5> QED BY <5>1
      <4> QED BY <2>4, <2>6, <3>1, <4>1
    <3> QED BY <3>2, <3>3
  <2>9. SavedRows(a, count)[q] = after
    BY <1>1, <1>3, <2>1, <2>2, <2>3, <2>5 DEF SavedRows
  <2> QED BY <2>7, <2>8, <2>9 DEF Blank
<1> QED BY <1>2, <1>3

LEMMA SaveBalanced ==
  ASSUME IndInv, Typed, Balance, NEW w \in Workers, SaveCommit(w)
  PROVE  Balance'
<1>1. PICK a \in Attempts : a = requests[w].attempt /\ attempts[a].status # "absent"
  BY DEF SaveCommit, Serving, IndInv, RequestsOK, RequestOK
<1>2. PICK count \in [Questions -> 0 .. MaxRows] :
        answers' = [answers EXCEPT ![a] = SavedRows(a, count)]
  BY <1>1 DEF SaveCommit
<1>3. /\ UNCHANGED <<attempts, results>> /\ attempts[a].status # "deleted"
      /\ history' = [history EXCEPT ![a].stale = @ \/ attempts[a].status = "completed"]
  BY <1>1 DEF SaveCommit, Serving
<1>4. answers'[a] = SavedRows(a, count) /\ \A b \in Attempts \ {a} : answers'[b] = answers[b]
  BY <1>2 DEF Typed, AnswersOK
<1>5. /\ \A b \in Attempts \ {a} : history'[b] = history[b]
      /\ attempts[a].status = "completed" => history'[a].stale
  BY <1>3 DEF Typed, History
<1>6. ASSUME NEW b \in Attempts \ {a} PROVE BalancedAt(b)'
  BY <1>3, <1>4, <1>5, <1>6, BalanceIs, BalancedStays
<1>7. CASE attempts[a].status = "open"
  <2>1. ASSUME NEW q \in Questions PROVE Blank(answers'[a][q])
    <3>1. Blank(answers[a][q])
      BY <1>7 DEF Balance, OpenBlank
    <3> QED BY <1>4, <3>1, SavedBlank DEF Typed
  <2>2. BalancedAt(a)'
    BY <1>3, <1>7, <2>1 DEF BalancedAt
  <2> QED BY <1>6, <2>2 DEF Balance, OpenBlank, ScoreIsEarned, BalancedAt
<1>8. CASE attempts[a].status = "completed"
  <2>1. BalancedAt(a)'
    BY <1>3, <1>5, <1>8 DEF BalancedAt
  <2> QED BY <1>6, <2>1 DEF Balance, OpenBlank, ScoreIsEarned, BalancedAt
<1>9. attempts[a].status \in {"open", "completed"}
  BY <1>1, <1>3 DEF IndInv, RowsOK
<1> QED BY <1>7, <1>8, <1>9

LEMMA SubmitBalanced ==
  ASSUME IndInv, Typed, Balance, NEW w \in Workers, SubmitCommit(w)
  PROVE  Balance'
<1>1. PICK a \in Attempts : a = requests[w].attempt /\ attempts[a].status = "open"
  BY SubmitFindsOpen
<1>2. PICK rows \in [Questions -> Nat] : rows = requests[w].rows
  BY DEF Typed, RequestsTyped, Request
<1>3. PICK s \in Submissions :
        /\ answers' = [answers EXCEPT ![a] = SubmittedRows(a, rows, s)]
        /\ attempts' = [attempts EXCEPT ![a].status = "completed", ![a].score = Graded(s)]
        /\ results' = [results EXCEPT ![a] = [graded_by |-> "auto",
              total_score |-> Graded(s), passed |-> Passes(Graded(s))]]
        /\ history' = [history EXCEPT ![a].surplus = Surplus(s)]
  BY <1>1, <1>2 DEF SubmitCommit
<1>4. TypeOK
  BY TypedIsTypeOK
<1>5. /\ answers'[a] = SubmittedRows(a, rows, s)
      /\ attempts'[a].status = "completed" /\ attempts'[a].score = Graded(s)
      /\ results'[a].total_score = Graded(s) /\ history'[a].surplus = Surplus(s)
      /\ \A b \in Attempts \ {a} : /\ answers'[b] = answers[b] /\ attempts'[b] = attempts[b]
                                   /\ results'[b] = results[b] /\ history'[b] = history[b]
  BY <1>3, <1>4 DEF TypeOK, ExamAttempt, History
<1>6. ASSUME NEW b \in Attempts \ {a} PROVE BalancedAt(b)'
  BY <1>5, <1>6, BalanceIs, BalancedStays
<1>7. SumFunction(PointsOf(SubmittedRows(a, rows, s))) = Graded(s) + Surplus(s)
  <2>1. \A q \in Questions : Blank(answers[a][q])
    BY <1>1 DEF Balance, OpenBlank
  <2>2. AnswersOK
    BY DEF Typed
  <2> QED BY <2>1, <2>2, SubmittedPoints
<1>8. Earned(a)' = SumFunction(PointsOf(answers'[a]))
  BY DEF Earned, PointsOf
<1>9. BalancedAt(a)'
  BY <1>5, <1>7, <1>8 DEF BalancedAt
<1> QED BY <1>6, <1>9 DEF Balance, OpenBlank, ScoreIsEarned, BalancedAt

LEMMA GradeBalanced ==
  ASSUME IndInv, Typed, Balance, NEW w \in Workers, GradeCommit(w)
  PROVE  Balance'
<1>0. TypeOK
  BY TypedIsTypeOK
<1>1. PICK r \in Request, n \in Nat :
        LET total == r.score + n - r.was IN
        /\ r = requests[w] /\ r.op = "grade" /\ total \in Int
        /\ r.attempt \in Attempts /\ attempts[r.attempt].status = "completed"
        /\ r.question \in Questions /\ r.row \in Nat \ {0}
        /\ \/ n = r.was /\ UNCHANGED <<answers, attempts>>
           \/ /\ n # r.was /\ Present(r.attempt, r.question, r.row)
              /\ answers' = RegradedRow(r.attempt, r.question, r.row, n)
              /\ attempts' = [attempts EXCEPT ![r.attempt].score = total]
        /\ results' = [results EXCEPT ![r.attempt] = [graded_by |-> "teacher",
              total_score |-> total, passed |-> Passes(total)]]
        /\ history' = [history EXCEPT ![r.attempt].stale = @ \/ ~UpToDate(r)]
  BY <1>0, GradeDecides
<1>2. PICK a \in Attempts, q \in Questions, i \in Nat \ {0}, total \in Int :
        a = r.attempt /\ q = r.question /\ i = r.row /\ total = r.score + n - r.was
  BY <1>1
<1>3. /\ results'[a].total_score = total
      /\ \A b \in Attempts \ {a} : results'[b] = results[b]
  BY <1>0, <1>1, <1>2 DEF TypeOK
<1>4. /\ \A b \in Attempts \ {a} : history'[b] = history[b]
      /\ history'[a].surplus = history[a].surplus
      /\ history'[a].stale = (history[a].stale \/ ~UpToDate(r))
  BY <1>0, <1>1, <1>2 DEF TypeOK, History
<1>5. \/ n = r.was /\ UNCHANGED <<answers, attempts>>
      \/ /\ Present(a, q, i)
         /\ answers' = RegradedRow(a, q, i, n)
         /\ attempts' = [attempts EXCEPT ![a].score = total]
  BY <1>1, <1>2
<1>6. \A b \in Attempts \ {a} : attempts'[b] = attempts[b] /\ answers'[b] = answers[b]
  BY <1>0, <1>5 DEF TypeOK, RegradedRow
<1>7. attempts'[a].status = "completed"
  <2>1. attempts[a].status = "completed"
    BY <1>1, <1>2
  <2>2. CASE UNCHANGED attempts
    BY <2>1, <2>2
  <2>3. CASE attempts' = [attempts EXCEPT ![a].score = total]
    BY <1>0, <2>1, <2>3 DEF TypeOK, ExamAttempt
  <2> QED BY <1>5, <2>2, <2>3
<1>8. ASSUME NEW b \in Attempts \ {a} PROVE BalancedAt(b)'
  BY <1>3, <1>4, <1>6, <1>8, BalanceIs, BalancedStays
<1>9. ASSUME ~history[a].stale, UpToDate(r)
      PROVE  attempts'[a].score + history[a].surplus = Earned(a)'
             /\ attempts'[a].score = total
  <2>1. /\ Present(a, q, i) /\ r.was = answers[a][q][i].points
        /\ r.score = attempts[a].score
    BY <1>2, <1>9 DEF UpToDate
  <2>2. PICK rows \in [Questions -> Seq(QuestionAnswer)] : rows = answers[a]
    BY <1>0 DEF TypeOK
  <2>3. i \in 1 .. Len(rows[q]) /\ r.was = rows[q][i].points
    <3>1. rows[q] \in Seq(QuestionAnswer) /\ Len(rows[q]) \in Nat
      BY LenProperties
    <3> QED BY <2>1, <2>2, <3>1 DEF Present
  <2>4. /\ SumFunction(PointsOf(rows)) \in Int
        /\ SumFunction(PointsOf([rows EXCEPT ![q] = [rows[q] EXCEPT ![i] = Row(n)]]))
             = SumFunction(PointsOf(rows)) + n - rows[q][i].points
    BY <2>3, RegradedEarned
  <2>5. PICK e \in Int : e = Earned(a) /\ e = SumFunction(PointsOf(rows))
    BY <2>2, <2>4, EarnedIs
  <2>6. attempts[a].score + history[a].surplus = e
    BY <1>1, <1>2, <1>9, <2>5 DEF Balance, ScoreIsEarned
  <2>7. PICK was \in Int, old \in Int, surplus \in Int :
           /\ was = r.was /\ old = attempts[a].score /\ surplus = history[a].surplus
           /\ total = old + n - was /\ old + surplus = e
    <3>1. r.score \in Int /\ r.was \in Int
      BY DEF Request
    <3>2. history[a].surplus \in Int
      BY <1>0 DEF TypeOK, History
    <3> QED BY <1>2, <2>1, <2>6, <3>1, <3>2
  <2>8. CASE n = r.was /\ UNCHANGED <<answers, attempts>>
    <3>1. total = old /\ attempts'[a].score = old
      BY <2>7, <2>8
    <3>2. Earned(a)' = e
      BY <2>5, <2>8, EarnedKept
    <3> QED BY <2>7, <3>1, <3>2
  <2>9. CASE /\ answers' = RegradedRow(a, q, i, n)
             /\ attempts' = [attempts EXCEPT ![a].score = total]
    <3>1. attempts'[a].score = total
      BY <1>0, <2>9 DEF TypeOK, ExamAttempt
    <3>2. answers'[a] = [rows EXCEPT ![q] = [rows[q] EXCEPT ![i] = Row(n)]]
      BY <1>0, <2>2, <2>9 DEF RegradedRow, TypeOK
    <3>3. Earned(a)' = SumFunction(PointsOf(answers'[a]))
      BY DEF Earned, PointsOf
    <3>4. Earned(a)' = e + n - was
      BY <2>3, <2>4, <2>5, <2>7, <3>2, <3>3
    <3>5. total + surplus = e + n - was
      <4>1. total = old + n - was /\ old + surplus = e
        BY <2>7
      <4> QED BY ONLY <4>1, total \in Int, old \in Int, surplus \in Int, was \in Int, e \in Int,
                     n \in Nat
    <3> QED BY <2>7, <3>1, <3>4, <3>5
  <2> QED BY <1>5, <2>8, <2>9
<1>10. BalancedAt(a)'
  <2>1. CASE history[a].stale \/ ~UpToDate(r)
    BY <1>4, <1>7, <2>1 DEF BalancedAt
  <2>2. CASE ~history[a].stale /\ UpToDate(r)
    BY <1>3, <1>4, <1>7, <1>9, <2>2 DEF BalancedAt
  <2> QED BY <2>1, <2>2
<1> QED BY <1>8, <1>10 DEF Balance, OpenBlank, ScoreIsEarned, BalancedAt

LEMMA DeleteBalanced ==
  ASSUME Balance, NEW w \in Workers, DeleteCommit(w) PROVE Balance'
<1>1. ASSUME NEW a \in Attempts, NEW q \in Questions PROVE Blank(answers'[a][q])
  BY DEF DeleteCommit, NoAnswers, Blank
<1>2. \A a \in Attempts : attempts'[a].status \in {"absent", "deleted"}
  BY DEF DeleteCommit, NoAttempt
<1> QED BY <1>1, <1>2 DEF Balance, OpenBlank, ScoreIsEarned

LEMMA NextBalance == IndInv /\ Typed /\ Balance /\ [Next]_vars => Balance'
<1> SUFFICES ASSUME IndInv, Typed, Balance, [Next]_vars PROVE Balance'
  OBVIOUS
<1>1. TypeOK
  BY TypedIsTypeOK
<1>2. ASSUME UNCHANGED <<attempts, answers, results, history>> PROVE Balance'
  BY <1>2, OthersBalanced
<1>3. CASE ExamStep \/ UNCHANGED vars
  BY <1>2, <1>3 DEF ExamStep, publish_exam, archive_exam, update_exam, SetStatus, vars
<1>4. ASSUME NEW w \in Workers, RequestStep(w) PROVE Balance'
  <2>1. CASE StartCommit(w)
    <3>1. PICK a \in Attempts :
             /\ attempts[a].status = "absent"
             /\ attempts' = [attempts EXCEPT
                    ![a] = [NoAttempt EXCEPT !.status = "open", !.user = requests[w].user]]
      BY <2>1 DEF StartCommit
    <3>2. UNCHANGED <<answers, results, history>>
      BY <2>1 DEF StartCommit
    <3>3. attempts'[a].status = "open" /\ attempts'[a].score = 0
          /\ \A b \in Attempts \ {a} : attempts'[b] = attempts[b]
      BY <1>1, <3>1 DEF TypeOK, NoAttempt
    <3>4. ASSUME NEW b \in Attempts PROVE BalancedAt(b)'
      <4>1. BalancedAt(b)
        BY BalanceIs
      <4>2. CASE b = a
        BY <3>1, <3>2, <3>3, <4>1, <4>2 DEF BalancedAt
      <4>3. CASE b # a
        BY <3>2, <3>3, <4>1, <4>3, BalancedStays
      <4> QED BY <4>2, <4>3
    <3> QED BY <3>4 DEF Balance, OpenBlank, ScoreIsEarned, BalancedAt
  <2>2. CASE SaveCommit(w)
    BY <2>2, SaveBalanced
  <2>3. CASE SubmitCommit(w)
    BY <2>3, SubmitBalanced
  <2>4. CASE GradeCommit(w)
    BY <2>4, GradeBalanced
  <2>5. CASE DeleteCommit(w)
    BY <2>5, DeleteBalanced
  <2>6. \/ StartCommit(w) \/ SaveCommit(w) \/ SubmitCommit(w) \/ GradeCommit(w)
        \/ DeleteCommit(w) \/ UNCHANGED <<attempts, answers, results, history>>
    BY <1>4 DEF RequestStep, StartRead, SaveRead, SubmitRead, IssueRead, GradeRead,
                DeleteRead, Abort, Begin, IssueCommit
  <2> QED BY <1>2, <2>1, <2>2, <2>3, <2>4, <2>5, <2>6
<1>5. ASSUME NEW a \in Attempts, TimeRunsOut(a) PROVE Balance'
  <2>1. \A b \in Attempts : /\ attempts'[b].status = attempts[b].status
                            /\ attempts'[b].score = attempts[b].score
    BY <1>1, <1>5 DEF TimeRunsOut, TypeOK, ExamAttempt
  <2> QED BY <1>5, <2>1, OthersBalanced DEF TimeRunsOut
<1> QED BY <1>3, <1>4, <1>5 DEF Next

LEMMA BalanceHolds == Spec => []Balance
  BY InitBalance, NextBalance, TypedHolds, IndInvHolds, PTL DEF Spec

\* The score of a completed attempt, and the one on its result, account for the
\* points of its answer rows after any number of regradings, however requests
\* interleave, for questions of any worth answered any number of times, unless a
\* request that had loaded older rows wrote to the attempt.
THEOREM ScoreSafety == Spec => []ScoreIsEarned
  BY BalanceHolds, PTL DEF Balance

\* However requests interleave, the answers of a completed attempt change only by
\* grading or by a save that found it open, until the exam is deleted: a
\* submission that finds it completed fails.
THEOREM AnswersFrozen == Spec => CompletedIsFrozen
<1> DEFINE Frozen(a) ==
      attempts[a].status = "completed" /\ answers'[a] # answers[a] =>
        \/ exam' = "deleted"
        \/ \E w \in Workers :
              /\ requests[w].attempt = a /\ requests'[w] # requests[w]
              /\ \/ requests[w].op = "grade"
                 \/ requests[w].op = "save" /\ ~requests[w].completed
<1>1. ASSUME IndInv, Typed, [Next]_vars, NEW a \in Attempts PROVE Frozen(a)
  <2> USE <1>1
  <2>1. ASSUME UNCHANGED answers PROVE Frozen(a)
    BY <2>1
  <2>2. CASE ExamStep \/ UNCHANGED vars
    BY <2>2, <2>1 DEF ExamStep, publish_exam, archive_exam, update_exam, SetStatus, vars
  <2>3. ASSUME NEW b \in Attempts, TimeRunsOut(b) PROVE Frozen(a)
    BY <2>3, <2>1 DEF TimeRunsOut
  <2>4. ASSUME NEW w \in Workers, RequestStep(w) PROVE Frozen(a)
    <3>1. CASE SaveCommit(w)
      <4>1. requests[w].op = "save" /\ ~requests[w].completed
        BY <3>1 DEF SaveCommit, Serving, IndInv, RequestsOK, RequestOK
      <4>2. requests'[w].op = "idle"
        BY <3>1 DEF SaveCommit, Finish, Typed, RequestsTyped, Idle
      <4>3. \A b \in Attempts \ {requests[w].attempt} : answers'[b] = answers[b]
        BY <3>1 DEF SaveCommit, Typed, AnswersOK
      <4> QED BY <4>1, <4>2, <4>3
    <3>2. CASE SubmitCommit(w)
      <4>1. attempts[requests[w].attempt].status = "open"
        BY <3>2, SubmitFindsOpen
      <4>2. \A b \in Attempts \ {requests[w].attempt} : answers'[b] = answers[b]
        BY <3>2 DEF SubmitCommit, Typed, AnswersOK
      <4> QED BY <4>1, <4>2
    <3>3. CASE GradeCommit(w)
      <4>1. requests[w].op = "grade"
        BY <3>3 DEF GradeCommit, Serving
      <4>2. requests'[w].op \in {"idle", "issue"}
        BY <3>3 DEF GradeCommit, FinishGraded, Typed, RequestsTyped, Idle
      <4>3. \A b \in Attempts \ {requests[w].attempt} : answers'[b] = answers[b]
        BY <3>3 DEF GradeCommit, RegradedRow, Typed, AnswersOK
      <4> QED BY <4>1, <4>2, <4>3
    <3>4. CASE DeleteCommit(w)
      BY <3>4 DEF DeleteCommit
    <3>5. \/ SaveCommit(w) \/ SubmitCommit(w) \/ GradeCommit(w) \/ DeleteCommit(w)
          \/ UNCHANGED answers
      BY <2>4 DEF RequestStep, StartRead, SaveRead, SubmitRead, IssueRead, GradeRead,
                  DeleteRead, Abort, Begin, StartCommit, IssueCommit
    <3> QED BY <2>1, <3>1, <3>2, <3>3, <3>4, <3>5
  <2> QED BY <2>2, <2>3, <2>4 DEF Next
<1>2. IndInv /\ Typed /\ [Next]_vars => [\A a \in Attempts : Frozen(a)]_vars
  BY <1>1
<1> QED BY <1>2, IndInvHolds, TypedHolds, PTL DEF Spec, CompletedIsFrozen

===============================================================================
