----------------------------- MODULE ExamAttempts -----------------------------
(***************************************************************************)
(* Taking one exam: AttemptService (exams/attempt_service.py) from start   *)
(* to manual grading, CertificateService (exams/certificate_service.py)    *)
(* and the exam's status as ExamService (exams/service.py) sets it.        *)
(*                                                                         *)
(* As everywhere in this application, SELECTs take no lock; the first      *)
(* flush takes the write lock and get_db, or the notification the handler  *)
(* sends, commits.  A request is a Read action with the guards of the      *)
(* handler and a Commit action that writes what the handler decided from   *)
(* the rows it loaded.  Rows of question_answers are deleted and inserted  *)
(* rather than updated while the attempt is open, and they are addressed   *)
(* by identifier, so a row that was replaced cannot be written again.      *)
(***************************************************************************)
EXTENDS Integers, Sequences, FiniteSets, FiniteSetsExt

CONSTANTS Users, Attempts, Questions, Workers,
          Points,         \* Question.score
          PassingScore,   \* exams.passing_score, in percent
          MaxAttempts,    \* exams.max_attempts
          Certified,      \* test_settings.certificate_enabled
          TimeLimited,    \* exams.duration_minutes is set
          MaxRows,        \* bound on the rows one request writes for one question
          MaxScore,       \* bound on the distance of a regraded score from 0
          None

VARIABLES exam,           \* exams.status, or "deleted"
          attempts,       \* table exam_attempts
          answers,        \* table question_answers: rows per question, oldest first
          results,        \* table results, by attempt_id
          certificates,   \* table certificates, by attempt_id
          requests,       \* the request each worker is serving
          history         \* what no column keeps, for ScoreIsEarned

vars == <<exam, attempts, answers, results, certificates, requests, history>>

ASSUME ConstantsAssumption ==
    /\ Points \in [Questions -> Int] /\ IsFiniteSet(Questions)
    /\ PassingScore \in Int /\ MaxAttempts \in Int
    /\ Certified \in BOOLEAN /\ TimeLimited \in BOOLEAN
    /\ MaxRows \in Nat /\ MaxScore \in Nat
    /\ IsFiniteSet(Attempts) /\ IsFiniteSet(Workers) /\ Workers # {}
    /\ None \notin Users /\ None \notin Attempts /\ None \notin Questions

ExamStatus == {"draft", "active", "completed", "archived"}

\* late: the time limit and AUTO_GRACE_SECONDS have passed since started_at.
ExamAttempt == [status : {"absent", "open", "completed", "deleted"},
                user : Users \cup {None}, score : Int, late : BOOLEAN]

\* A row is worth what its question is worth, or what a teacher awarded.
QuestionAnswer == [live : BOOLEAN, points : Nat \cup {Points[q] : q \in Questions}]

Result == [graded_by : {"nobody", "auto", "teacher"}, total_score : Int,
           passed : BOOLEAN]

Certificate == [issued : BOOLEAN, score : Int]

\* What a request keeps between its steps.
Request == [op : {"idle", "start", "save", "submit", "grade", "issue", "delete"},
            user : Users \cup {None}, attempt : Attempts \cup {None},
            rows : [Questions -> Nat],       \* submit: the answer rows it will delete
            question : Questions \cup {None},
            row : Nat,                       \* grade: the row of that question it loaded
            was : Int,                       \* grade: points_earned in that row
            score : Int,                     \* attempt.score or result.total_score as loaded
            completed : BOOLEAN]             \* save: attempt.is_completed as loaded

\* surplus: the points of the answer rows the score does not count.
\* stale: a request that had loaded older rows wrote to the completed attempt.
History == [surplus : Int, stale : BOOLEAN]

Idle == [op |-> "idle", user |-> None, attempt |-> None,
         rows |-> [q \in Questions |-> 0], question |-> None, row |-> 0,
         was |-> 0, score |-> 0, completed |-> FALSE]

NoAttempt == [status |-> "absent", user |-> None, score |-> 0, late |-> FALSE]

NoAnswers == [q \in Questions |-> <<>>]

NoResult == [graded_by |-> "nobody", total_score |-> 0, passed |-> FALSE]

NoCertificate == [issued |-> FALSE, score |-> 0]

NoHistory == [surplus |-> 0, stale |-> FALSE]

Init == /\ exam = "draft"
        /\ attempts = [a \in Attempts |-> NoAttempt]
        /\ answers = [a \in Attempts |-> NoAnswers]
        /\ results = [a \in Attempts |-> NoResult]
        /\ certificates = [a \in Attempts |-> NoCertificate]
        /\ requests = [w \in Workers |-> Idle]
        /\ history = [a \in Attempts |-> NoHistory]

-------------------------------------------------------------------------------
(* Queries and grading.                                                    *)

\* count_user_attempts.
AttemptsOf(u) == {a \in Attempts : attempts[a].user = u
                                   /\ attempts[a].status \in {"open", "completed"}}

\* get_active_attempt.
OpenAttempts(u) == {a \in AttemptsOf(u) : attempts[a].status = "open"}

TotalPoints == SumFunction(Points)

\* percentage >= passing_score; both columns fall back when they are 0.  The
\* total is negative when questions of negative worth outweigh the others.
Passes(score) ==
    LET total == IF TotalPoints = 0 THEN 1 ELSE TotalPoints
        needed == IF PassingScore = 0 THEN 60 ELSE PassingScore
    IN IF total > 0 THEN 100 * score >= needed * total ELSE 100 * score <= needed * total

\* What _grade_question can give for an answer.
Grades(q) == {0, Points[q]}

Row(n) == [live |-> TRUE, points |-> n]

Deleted == [live |-> FALSE, points |-> 0]

\* The first n rows of an answer are deleted.
WipeRows(rows, n) == [i \in 1 .. Len(rows) |-> IF i <= n THEN Deleted ELSE rows[i]]

LiveRows(rows) == {i \in 1 .. Len(rows) : rows[i].live}

-------------------------------------------------------------------------------
(* The two halves of a request.                                            *)

Begin(w, r) == /\ requests[w].op = "idle"
               /\ requests' = [requests EXCEPT ![w] = r]
               /\ UNCHANGED <<exam, attempts, answers, results, certificates, history>>

\* The second half of a request about an attempt.  If the attempt was deleted
\* meanwhile, the commit fails on a foreign key.
Serving(w, op) == /\ requests[w].op = op
                  /\ attempts[requests[w].attempt].status # "deleted"

Finish(w) == requests' = [requests EXCEPT ![w] = Idle]

\* A graded attempt that passed goes on to its certificate.
FinishGraded(w, a, total) ==
    requests' = [requests EXCEPT
        ![w] = IF Passes(total) /\ Certified
               THEN [Idle EXCEPT !.op = "issue", !.attempt = a, !.score = total]
               ELSE Idle]

\* An error, a lost connection or a restart before the commit: get_db rolls back.
Abort(w) == /\ requests[w].op # "idle"
            /\ requests' = [requests EXCEPT ![w] = Idle]
            /\ UNCHANGED <<exam, attempts, answers, results, certificates, history>>

-------------------------------------------------------------------------------
(* ExamService: the exam itself.                                           *)

SetStatus(s) == /\ exam # "deleted"
                /\ exam' = s
                /\ UNCHANGED <<attempts, answers, results, certificates, requests, history>>

\* Publishing and archiving from a stale read end where an update could: they
\* are one step each.
publish_exam == exam = "draft" /\ SetStatus("active")

archive_exam == SetStatus("archived")

\* ExamUpdate carries any status.
update_exam(s) == SetStatus(s)

\* The ORM sets attempt_id to NULL in the certificates of the attempts it
\* deletes; that column is NOT NULL, so an exam with a certificate stays.
DeleteRead(w) == /\ exam # "deleted"
                 /\ \A a \in Attempts : ~certificates[a].issued
                 /\ Begin(w, [Idle EXCEPT !.op = "delete"])

\* A result keeps its row but no longer belongs to an attempt; certificates
\* issued since DeleteRead go by ON DELETE CASCADE.
DeleteCommit(w) ==
    /\ requests[w].op = "delete"
    /\ requests' = [requests EXCEPT ![w] = Idle]
    /\ exam' = "deleted"
    /\ attempts' = [a \in Attempts |-> IF attempts[a].status = "absent" THEN NoAttempt
                                       ELSE [NoAttempt EXCEPT !.status = "deleted"]]
    /\ answers' = [a \in Attempts |-> NoAnswers]
    /\ results' = [a \in Attempts |-> NoResult]
    /\ certificates' = [a \in Attempts |-> NoCertificate]
    /\ history' = [a \in Attempts |-> NoHistory]

-------------------------------------------------------------------------------
(* AttemptService: the student's side.                                     *)

\* Variant: an off-by-one in the count.
StartReadOneMore(w, u) ==
    /\ exam = "active"
    /\ Cardinality(AttemptsOf(u)) <= MaxAttempts
    /\ OpenAttempts(u) = {}
    /\ Begin(w, [Idle EXCEPT !.op = "start", !.user = u])

\* With two open attempts the lookup of the active one raises instead.
StartRead(w, u) ==
    /\ exam = "active"
    /\ Cardinality(AttemptsOf(u)) < MaxAttempts
    /\ OpenAttempts(u) = {}
    /\ Begin(w, [Idle EXCEPT !.op = "start", !.user = u])

StartCommit(w) ==
    /\ requests[w].op = "start" /\ exam # "deleted"
    /\ Finish(w)
    /\ \E a \in Attempts :
          /\ attempts[a].status = "absent"
          /\ attempts' = [attempts EXCEPT
                 ![a] = [NoAttempt EXCEPT !.status = "open", !.user = requests[w].user]]
    /\ UNCHANGED <<exam, answers, results, certificates, history>>

\* Variant: answers can be saved after the submission.
SaveReadAlways(w, a) ==
    /\ attempts[a].status \in {"open", "completed"}
    /\ Begin(w, [Idle EXCEPT !.op = "save", !.attempt = a,
                             !.completed = attempts[a].status = "completed"])

SaveRead(w, a) ==
    /\ attempts[a].status = "open"
    /\ Begin(w, [Idle EXCEPT !.op = "save", !.attempt = a,
                             !.completed = attempts[a].status = "completed"])

\* The ungraded rows of an answer: one for every option it names.
Ungraded(n) == [i \in 1 .. n |-> Row(0)]

\* The rows of the questions named in the request, whoever wrote them, are
\* replaced by ungraded ones.
SavedRows(a, count) ==
    [q \in Questions |->
       IF count[q] = 0 THEN answers[a][q]
       ELSE WipeRows(answers[a][q], Len(answers[a][q])) \o Ungraded(count[q])]

SaveCommit(w) ==
    LET a == requests[w].attempt IN
    /\ Serving(w, "save") /\ Finish(w)
    /\ \E count \in [Questions -> 0 .. MaxRows] :
          /\ \A q \in Questions : count[q] # 0 => Len(answers[a][q]) + count[q] <= MaxRows
          /\ answers' = [answers EXCEPT ![a] = SavedRows(a, count)]
    /\ history' = [history EXCEPT ![a].stale = @ \/ attempts[a].status = "completed"]
    /\ UNCHANGED <<exam, attempts, results, certificates>>

SubmitRead(w, a) ==
    /\ attempts[a].status = "open" /\ ~attempts[a].late
    /\ Begin(w, [Idle EXCEPT !.op = "submit", !.attempt = a,
                             !.rows = [q \in Questions |-> Len(answers[a][q])]])

\* The rows a submission inserts for one question.  An answer makes a row for
\* every option it names, all with the points of the answer; the score counts
\* them at the first.  Nothing stops a question from being answered again.
GradedRow(q) == [points : Grades(q), counted : BOOLEAN]

GradedRows(q) ==
    {s \in UNION {[1 .. n -> GradedRow(q)] : n \in 0 .. MaxRows} :
       \A i \in DOMAIN s : ~s[i].counted => i # 1 /\ s[i].points = s[i - 1].points}

Submissions == {s \in [Questions -> UNION {GradedRows(q) : q \in Questions}] :
                  \A q \in Questions : s[q] \in GradedRows(q)}

Counted(s) == SumFunction([i \in DOMAIN s |-> IF s[i].counted THEN s[i].points ELSE 0])

Repeated(s) == SumFunction([i \in DOMAIN s |-> IF s[i].counted THEN 0 ELSE s[i].points])

\* total_score, and what the other rows add to the points of the answers.
Graded(s) == SumFunction([q \in Questions |-> Counted(s[q])])

Surplus(s) == SumFunction([q \in Questions |-> Repeated(s[q])])

\* The rows that were there at SubmitRead go; the graded ones are inserted.
SubmittedRows(a, rows, s) ==
    [q \in Questions |->
       WipeRows(answers[a][q], rows[q]) \o [i \in DOMAIN s[q] |-> Row(s[q][i].points)]]

\* Variant: the result is left to the notification's transaction.
SubmitCommitNoResult(w) ==
    LET a == requests[w].attempt IN
    /\ Serving(w, "submit")
    /\ results[a].graded_by = "nobody"
    /\ \E s \in Submissions :
          /\ answers' = [answers EXCEPT ![a] = SubmittedRows(a, requests[w].rows, s)]
          /\ attempts' = [attempts EXCEPT ![a].status = "completed",
                                          ![a].score = Graded(s)]
          /\ history' = [history EXCEPT ![a].surplus = Surplus(s)]
          /\ FinishGraded(w, a, Graded(s))
    /\ UNCHANGED <<exam, results, certificates>>

\* A second submission of the attempt fails: results.attempt_id is UNIQUE.
SubmitCommit(w) ==
    LET a == requests[w].attempt IN
    /\ Serving(w, "submit")
    /\ results[a].graded_by = "nobody"
    /\ \E s \in Submissions :
          /\ answers' = [answers EXCEPT ![a] = SubmittedRows(a, requests[w].rows, s)]
          /\ attempts' = [attempts EXCEPT ![a].status = "completed",
                                          ![a].score = Graded(s)]
          /\ results' = [results EXCEPT ![a] = [graded_by |-> "auto",
                total_score |-> Graded(s), passed |-> Passes(Graded(s))]]
          /\ history' = [history EXCEPT ![a].surplus = Surplus(s)]
          /\ FinishGraded(w, a, Graded(s))
    /\ UNCHANGED <<exam, certificates>>

-------------------------------------------------------------------------------
(* Manual grading by the exam's owner, and certificates.                   *)

\* Nothing orders the rows: any row of the question may be the one graded.
GradeRead(w, a, q) ==
    /\ attempts[a].status = "completed"
    /\ \E i \in LiveRows(answers[a][q]) :
          Begin(w, [Idle EXCEPT !.op = "grade", !.attempt = a, !.question = q, !.row = i,
                                !.was = answers[a][q][i].points,
                                !.score = attempts[a].score])

\* Variant: points_earned may be negative.
AwardableSigned(q) == (0 - 2) .. Points[q]

\* What manual_grade accepts as points_earned.
Awardable(q) == 0 .. Points[q]

Within(total) == total \in (0 - MaxScore) .. MaxScore

Present(a, q, i) == i <= Len(answers[a][q]) /\ answers[a][q][i].live

\* What the grading loaded is still there.
UpToDate(r) == /\ r.score = attempts[r.attempt].score
               /\ Present(r.attempt, r.question, r.row)
               /\ r.was = answers[r.attempt][r.question][r.row].points

RegradedRow(a, q, i, n) ==
    [answers EXCEPT ![a] = [answers[a] EXCEPT ![q] = [answers[a][q] EXCEPT ![i] = Row(n)]]]

\* Variant: the points are added to the score without taking the old ones off.
GradeCommitAdding(w) ==
    LET r == requests[w]
        a == r.attempt
        q == r.question
    IN /\ Serving(w, "grade")
       /\ \E n \in Awardable(q) :
          LET total == r.score + n IN
          /\ Within(total)
          /\ Present(a, q, r.row)
          /\ answers' = RegradedRow(a, q, r.row, n)
          /\ attempts' = [attempts EXCEPT ![a].score = total]
          /\ results' = [results EXCEPT ![a] = [graded_by |-> "teacher",
                total_score |-> total, passed |-> Passes(total)]]
          /\ FinishGraded(w, a, total)
       /\ history' = [history EXCEPT ![a].stale = @ \/ ~UpToDate(r)]
       /\ UNCHANGED <<exam, certificates>>

\* A column that keeps its loaded value is not written, and updating a row that
\* was deleted meanwhile raises; results is loaded after the first flush, so it
\* is current.
GradeCommit(w) ==
    LET r == requests[w]
        a == r.attempt
        q == r.question
    IN /\ Serving(w, "grade")
       /\ \E n \in Awardable(q) :
          LET total == r.score + n - r.was IN
          /\ Within(total)
          /\ \/ n = r.was /\ UNCHANGED <<answers, attempts>>
             \/ /\ n # r.was /\ Present(a, q, r.row)
                /\ answers' = RegradedRow(a, q, r.row, n)
                /\ attempts' = [attempts EXCEPT ![a].score = total]
          /\ results' = [results EXCEPT ![a] = [graded_by |-> "teacher",
                total_score |-> total, passed |-> Passes(total)]]
          /\ FinishGraded(w, a, total)
       /\ history' = [history EXCEPT ![a].stale = @ \/ ~UpToDate(r)]
       /\ UNCHANGED <<exam, certificates>>

\* Variant: the passing score is not asked for.
IssueReadAnyResult(w, a) ==
    /\ Certified
    /\ attempts[a].status = "completed" /\ results[a].graded_by # "nobody"
    /\ Begin(w, [Idle EXCEPT !.op = "issue", !.attempt = a,
                             !.score = results[a].total_score])

\* issue_manually: the student fetches the certificate.
IssueRead(w, a) ==
    /\ Certified
    /\ attempts[a].status = "completed" /\ results[a].graded_by # "nobody"
    /\ results[a].passed
    /\ Begin(w, [Idle EXCEPT !.op = "issue", !.attempt = a,
                             !.score = results[a].total_score])

\* issue_for_attempt.  The result it sees is the one the session has loaded
\* before.  An existing certificate is returned as it is, and one inserted
\* since makes this insert fail (certificates.attempt_id is UNIQUE): either
\* way nothing changes.
IssueCommit(w) ==
    LET a == requests[w].attempt IN
    /\ Serving(w, "issue") /\ Finish(w)
    /\ certificates' = IF certificates[a].issued THEN certificates
                       ELSE [certificates EXCEPT
                               ![a] = [issued |-> TRUE, score |-> requests[w].score]]
    /\ UNCHANGED <<exam, attempts, answers, results, history>>

-------------------------------------------------------------------------------
TimeRunsOut(a) ==
    /\ TimeLimited /\ attempts[a].status = "open" /\ ~attempts[a].late
    /\ attempts' = [attempts EXCEPT ![a].late = TRUE]
    /\ UNCHANGED <<exam, answers, results, certificates, requests, history>>

ExamStep == \/ publish_exam \/ archive_exam
            \/ \E s \in ExamStatus : update_exam(s)

RequestStep(w) ==
    \/ \E u \in Users : StartRead(w, u)
    \/ \E a \in Attempts : \/ SaveRead(w, a) \/ SubmitRead(w, a) \/ IssueRead(w, a)
                           \/ \E q \in Questions : GradeRead(w, a, q)
    \/ StartCommit(w) \/ SaveCommit(w) \/ SubmitCommit(w)
    \/ GradeCommit(w) \/ IssueCommit(w)
    \/ DeleteRead(w) \/ DeleteCommit(w) \/ Abort(w)

Next == \/ ExamStep
        \/ \E w \in Workers : RequestStep(w)
        \/ \E a \in Attempts : TimeRunsOut(a)

Spec == Init /\ [][Next]_vars

-------------------------------------------------------------------------------
(* Invariants and action properties that hold however requests interleave. *)

\* Every variable stays within the rows and columns the tables allow; no row is
\* worth less than nothing unless its question is.
TypeOK == /\ exam \in ExamStatus \cup {"deleted"}
          /\ attempts \in [Attempts -> ExamAttempt]
          /\ answers \in [Attempts -> [Questions -> Seq(QuestionAnswer)]]
          /\ results \in [Attempts -> Result]
          /\ certificates \in [Attempts -> Certificate]
          /\ requests \in [Workers -> Request]
          /\ history \in [Attempts -> History]

\* An attempt is completed exactly when it has its result, so manual_grade
\* never has to invent one (with max_score 0) and no reader sees half of a
\* submission.
CompletedHasResult ==
    \A a \in Attempts : attempts[a].status = "completed" <=> results[a].graded_by # "nobody"

\* Every certificate shows a passing score of a completed attempt, however
\* many times the attempt was graded meanwhile.
CertificateShowsPass ==
    \A a \in Attempts : certificates[a].issued =>
        Passes(certificates[a].score) /\ attempts[a].status = "completed"

\* The starts of u in flight.
Starting(u) == {w \in Workers : requests[w].op = "start" /\ requests[w].user = u}

\* start_attempt counts and looks before it inserts.  However starts overlap,
\* the attempts of a user and the starts in flight exceed max_attempts, and the
\* open ones exceed one, by at most the requests served beside the first.
StartsBounded ==
    \A u \in Users :
        /\ AttemptsOf(u) # {} \/ Starting(u) # {} =>
              Cardinality(AttemptsOf(u)) + Cardinality(Starting(u))
                <= MaxAttempts + Cardinality(Workers) - 1
        /\ Cardinality(OpenAttempts(u)) + Cardinality(Starting(u)) <= Cardinality(Workers)

\* The first submission stands: once an attempt is completed its score changes
\* only by a teacher's grading of that attempt.
SubmittedOnce ==
    [][\A a \in Attempts :
         attempts[a].status = "completed" /\ attempts'[a].score # attempts[a].score =>
             \/ exam' = "deleted"
             \/ \E w \in Workers : /\ requests[w].op = "grade" /\ requests[w].attempt = a
                                   /\ requests'[w].op # "grade"]_vars

\* "a completed attempt can no longer be fetched/saved/submitted again": its
\* answers change only by grading or by a save that found it open, until the
\* exam is deleted.
CompletedIsFrozen ==
    [][\A a \in Attempts :
         attempts[a].status = "completed" /\ answers'[a] # answers[a] =>
             \/ exam' = "deleted"
             \/ \E w \in Workers :
                   /\ requests[w].attempt = a /\ requests'[w] # requests[w]
                   /\ \/ requests[w].op = "grade"
                      \/ requests[w].op = "save" /\ ~requests[w].completed]_vars

\* The points of an attempt's answer rows; a deleted row is worth nothing.
RowPoints(rows) == SumFunction([i \in DOMAIN rows |-> rows[i].points])

Earned(a) == SumFunction([q \in Questions |-> RowPoints(answers[a][q])])

\* The score of a completed attempt, and the one its result shows, account for
\* the points of its answers after any number of regradings, unless a request
\* that had loaded older rows wrote to the attempt: they differ by the rows
\* that repeat the points of an answer with several options.
ScoreIsEarned ==
    \A a \in Attempts : attempts[a].status = "completed" /\ ~history[a].stale =>
        /\ attempts[a].score + history[a].surplus = Earned(a)
        /\ results[a].total_score = attempts[a].score

-------------------------------------------------------------------------------
(* What the tests of the attempt flow claim.  It holds when the server      *)
(* handles one request at a time.                                          *)

\* "one active attempt at a time": no user has two open attempts.
OneActiveAttempt == \A u \in Users : Cardinality(OpenAttempts(u)) <= 1

\* "an exam's `max_attempts` [...] rules are enforced".
MaxAttemptsEnforced ==
    \A u \in Users : AttemptsOf(u) # {} => Cardinality(AttemptsOf(u)) <= MaxAttempts

\* Both rules of start_attempt, which counts and looks before it inserts.
StartRules == OneActiveAttempt /\ MaxAttemptsEnforced

-------------------------------------------------------------------------------
\* The lifecycle this module implements.
Lifecycle == INSTANCE AttemptLifecycle
                 WITH phase <- [a \in Attempts |-> attempts[a].status],
                      published <- [a \in Attempts |-> results[a].graded_by # "nobody"],
                      score <- [a \in Attempts |-> results[a].total_score],
                      certified <- [a \in Attempts |-> certificates[a].issued]

\* Every step of the code is a step of the lifecycle, with requests overlapping.
ImplementsLifecycle == Lifecycle!AttemptSpec
===============================================================================
