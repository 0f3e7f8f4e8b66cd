------------------------------- MODULE Practice -------------------------------
(***************************************************************************)
(* Playing a published test: TestPracticeService (tests/practice_service.py) *)
(* for one user and one test, beside the owner, who edits the test.        *)
(*                                                                         *)
(* A submission is a save, in a transaction of its own, and a grading.     *)
(* The rows of an attempt are loaded with it, and a session never loads a  *)
(* row twice: what it grades is what it loaded or wrote, and it writes the *)
(* columns that differ from that.  The owner's requests (module Tests) are *)
(* single steps here.                                                      *)
(***************************************************************************)
EXTENDS Integers, FiniteSets, Functions

CONSTANTS Attempts, Questions, Workers,
          Values,                             \* what a question may be worth: any integers
          MaxEditions, MaxServed, MaxEdits,   \* bounds
          None

VARIABLES status,        \* tests.status, or "deleted"
          points,        \* test_questions.points; None: the question is not linked
          edition,       \* the edition of the choices of each question
          attempts,      \* table test_practice_attempts
          answers,       \* table test_practice_answers, per attempt and question
          requests,      \* the request each worker is serving
          served, edits, \* how many requests have started, how often the owner came
          overlapped     \* history: some request has started beside another

test == <<status, points, edition>>

vars == <<test, attempts, answers, requests, served, edits, overlapped>>

ASSUME ConstantsAssumption ==
    /\ Values \subseteq Int /\ None \notin Int /\ MaxEditions \in Nat \ {0}
    /\ MaxServed \in Nat /\ MaxEdits \in Nat
    /\ IsFiniteSet(Attempts) /\ IsFiniteSet(Questions) /\ IsFiniteSet(Workers)

\* Nothing bounds the score of a question: it may be 0 or negative.
Points == [Questions -> Values \cup {None}]

NoPoints == [q \in Questions |-> None]

\* paper and graded are history: the points at the start and at the grading.
Attempt == [status : {"absent", "in_progress", "completed", "deleted"},
            max_score : Int, score : Int, paper : Points, graded : Points]

\* pick: the edition whose right choice was selected, 0 for a wrong one.  A deleted row
\* keeps what it had.
Answer == [live : BOOLEAN, deleted : BOOLEAN, pick : 0..MaxEditions,
           earned : Values \cup {0}]

NoAttempt == [status |-> "absent", max_score |-> 0, score |-> 0, paper |-> NoPoints,
              graded |-> NoPoints]

NoAnswer == [live |-> FALSE, deleted |-> FALSE, pick |-> 0, earned |-> 0]

Rows == [Questions -> Answer]

NoRows == [q \in Questions |-> NoAnswer]

\* What a request keeps between its steps.
Request == [op : {"idle", "start", "save", "submit", "grade"},
            attempt : SUBSET Attempts,              \* the attempt it is about, if any
            rows : Rows,                            \* the rows of the session
            picks : [Questions -> -1..MaxEditions], \* the answers it sends; -1: none
            points : Points, total : Int, seen : Int]

NoPicks == [q \in Questions |-> -1]

Idle == [op |-> "idle", attempt |-> {}, rows |-> NoRows, picks |-> NoPicks,
         points |-> NoPoints, total |-> 0, seen |-> 0]

\* A published test.
Init == /\ status = "active" /\ points \in [Questions -> Values]
        /\ edition = [q \in Questions |-> 1]
        /\ attempts = [a \in Attempts |-> NoAttempt]
        /\ answers = [a \in Attempts |-> NoRows]
        /\ requests = [w \in Workers |-> Idle]
        /\ served = 0 /\ edits = 0 /\ overlapped = FALSE

-------------------------------------------------------------------------------
(* Queries and requests.                                                   *)

InProgress == {a \in Attempts : attempts[a].status = "in_progress"}

Present(a) == attempts[a].status \in {"in_progress", "completed"}

Worth(p, q) == IF p[q] = None THEN 0 ELSE p[q]

SumPoints(p) == SumFunction([q \in Questions |-> Worth(p, q)])

Busy == \E w \in Workers : requests[w].op # "idle"

Begin(w, r) == /\ requests[w].op = "idle" /\ served < MaxServed
               /\ requests' = [requests EXCEPT ![w] = r]
               /\ served' = served + 1
               /\ overlapped' = (overlapped \/ Busy)
               /\ UNCHANGED <<test, attempts, answers, edits>>

Serving(w, op) == requests[w].op = op /\ UNCHANGED <<test, served, edits, overlapped>>

Finish(w) == requests' = [requests EXCEPT ![w] = Idle]

\* An error, a constraint of the database or a restart: nothing more is committed.
Abort(w) == /\ requests[w].op # "idle" /\ Serving(w, requests[w].op) /\ Finish(w)
            /\ UNCHANGED <<attempts, answers>>

-------------------------------------------------------------------------------
(* start                                                                   *)

\* Variant: a page that is loaded again gets an attempt of its own.
StartReadAgain(w) ==
    /\ status = "active"
    /\ Begin(w, [Idle EXCEPT !.op = "start", !.points = points, !.total = SumPoints(points)])

\* With one attempt in progress the handler returns it, and with two it fails.
StartRead(w) ==
    /\ status = "active" /\ InProgress = {}
    /\ Begin(w, [Idle EXCEPT !.op = "start", !.points = points, !.total = SumPoints(points)])

\* An attempt at a deleted test violates a foreign key (Abort).
StartCommit(w) ==
    /\ Serving(w, "start") /\ Finish(w) /\ status # "deleted"
    /\ \E a \in Attempts :
          /\ attempts[a].status = "absent"
          /\ attempts' = [attempts EXCEPT ![a] =
                 [NoAttempt EXCEPT !.status = "in_progress", !.max_score = requests[w].total,
                                   !.paper = requests[w].points]]
    /\ UNCHANGED answers

-------------------------------------------------------------------------------
(* save                                                                    *)

\* Right and wrong answers to some of the questions.
Picks == {p \in [Questions -> {-1, 0} \cup {edition[q] : q \in Questions}] :
              \A q \in Questions : p[q] \in {-1, 0, edition[q]}}

\* Variant: the status of the attempt is not looked at.
OpenAlways(a) == Present(a)

\* _get_owned_attempt, and the attempt is not completed.
Open(a) == attempts[a].status = "in_progress"

SaveRead(w, a) ==
    /\ Open(a)
    /\ \E p \in Picks \ {NoPicks} :
          Begin(w, [Idle EXCEPT !.op = "save", !.attempt = {a}, !.rows = answers[a],
                                !.picks = p])

\* A row that was not there is inserted, and by now it may be (a unique index: Abort); a
\* row that was there is updated, and by now it may be gone (Abort).
Writable(a, r) ==
    /\ Present(a)
    /\ \A q \in Questions :
          r.picks[q] # -1 => answers[a][q].live = r.rows[q].live /\ ~answers[a][q].deleted

Written(r, q, row) ==
    IF r.picks[q] = -1 \/ (r.rows[q].live /\ r.rows[q].pick = r.picks[q]) THEN row
    ELSE [row EXCEPT !.live = TRUE, !.pick = r.picks[q]]

Save(a, r) ==
    /\ Writable(a, r)
    /\ answers' = [answers EXCEPT ![a] = [q \in Questions |-> Written(r, q, @[q])]]

SaveCommit(w) ==
    /\ Serving(w, "save") /\ Finish(w)
    /\ \E a \in requests[w].attempt : Save(a, requests[w])
    /\ UNCHANGED attempts

-------------------------------------------------------------------------------
(* submit                                                                  *)

SubmitRead(w, a) ==
    /\ Open(a)
    /\ \E p \in Picks :
          Begin(w, [Idle EXCEPT !.op = "submit", !.attempt = {a}, !.rows = answers[a],
                                !.picks = p])

\* The rows as the session has them: its own, and those it had not loaded.
Loaded(r, q, row) ==
    IF r.picks[q] # -1 \/ r.rows[q].live THEN Written(r, q, r.rows[q]) ELSE row

\* Variant: a wrong answer costs what a right one earns.
EarnedSigned(p, q, row) ==
    IF ~row.live THEN 0
    ELSE IF row.pick = edition[q] THEN Worth(p, q) ELSE 0 - Worth(p, q)

\* _grade: a selected choice of an older edition is no choice of the question.
Earned(p, q, row) == IF row.live /\ row.pick = edition[q] THEN Worth(p, q) ELSE 0

\* Answers to questions that are not in the test are passed over.
Graded(p, rows) ==
    [q \in Questions |-> IF rows[q].live /\ p[q] # None
                         THEN [rows[q] EXCEPT !.earned = Earned(p, q, rows[q])]
                         ELSE rows[q]]

\* Variant: every answer counts.
TotalScoreAnswered(p, rows) ==
    SumFunction([q \in Questions |-> IF rows[q].live THEN Worth(p, q) ELSE 0])

TotalScore(p, rows) == SumFunction([q \in Questions |-> Earned(p, q, rows[q])])

\* The answers are saved and committed; then the attempt is loaded again, its status
\* looked at no more, and the answers are graded with the test as it is now.
SubmitGrade(w) ==
    LET r == requests[w] IN
    /\ Serving(w, "submit")
    /\ \E a \in r.attempt :
          LET rows == [q \in Questions |-> Loaded(r, q, answers'[a][q])] IN
          /\ Save(a, r)
          /\ requests' = [requests EXCEPT ![w] =
                 [r EXCEPT !.op = "grade", !.rows = Graded(points, rows), !.picks = NoPicks,
                           !.points = points, !.total = TotalScore(points, rows),
                           !.seen = IF r.picks = NoPicks THEN 0 ELSE attempts[a].score]]
    /\ UNCHANGED attempts

Scored(attempt, r) ==
    [attempt EXCEPT !.status = "completed",
                    !.score = IF r.total = r.seen THEN @ ELSE r.total,
                    !.graded = r.points]

\* A graded row that is gone by now is an error (Abort).
SubmitCommit(w) ==
    LET r == requests[w] IN
    /\ Serving(w, "grade") /\ Finish(w)
    /\ \E a \in r.attempt :
          /\ Present(a)
          /\ \A q \in Questions : r.rows[q].live /\ r.points[q] # None => answers[a][q].live
          /\ answers' = [answers EXCEPT ![a] = [q \in Questions |->
                 IF r.rows[q].live /\ r.points[q] # None
                 THEN [@[q] EXCEPT !.earned = r.rows[q].earned] ELSE @[q]]]
          /\ attempts' = [attempts EXCEPT ![a] = Scored(@, r)]

-------------------------------------------------------------------------------
(* The owner (TestService), one request at a time.                         *)

OwnerComes == /\ status # "deleted" /\ edits < MaxEdits /\ edits' = edits + 1
              /\ UNCHANGED <<requests, served>>

\* publish_test, unpublish_test
Toggle == /\ OwnerComes
          /\ status' = IF status = "active" THEN "draft" ELSE "active"
          /\ UNCHANGED <<points, edition, attempts, answers, overlapped>>

\* delete_test: the database deletes the attempts and their answers.
Delete == /\ OwnerComes /\ status' = "deleted"
          /\ attempts' = [a \in Attempts |-> IF Present(a)
                              THEN [attempts[a] EXCEPT !.status = "deleted"] ELSE attempts[a]]
          /\ UNCHANGED <<points, edition, answers, overlapped>>

\* A published test is edited only by a request that overlapped its publication.
EditsLinks == OwnerComes /\ overlapped' = (overlapped \/ status = "active")

\* update_question_in_test with another score
SetPoints(q) == /\ EditsLinks /\ points[q] # None
                /\ \E p \in Values \ {points[q]} : points' = [points EXCEPT ![q] = p]
                /\ UNCHANGED <<status, edition, attempts, answers>>

\* update_question_in_test with other choices, through this test or one that shares the
\* question.
SetChoices(q) == /\ OwnerComes /\ edition[q] < MaxEditions
                 /\ edition' = [edition EXCEPT ![q] = @ + 1]
                 /\ UNCHANGED <<status, points, attempts, answers, overlapped>>

Dropped(row) == [row EXCEPT !.live = FALSE, !.deleted = TRUE]

\* delete_question_from_test: the database deletes the answers to a deleted question.
Unlink(q) == /\ EditsLinks /\ points[q] # None
             /\ points' = [points EXCEPT ![q] = None]
             /\ \/ UNCHANGED answers
                \/ answers' = [a \in Attempts |-> [answers[a] EXCEPT ![q] = Dropped(@)]]
             /\ UNCHANGED <<status, edition, attempts>>

Player(w) == \/ StartRead(w) \/ StartCommit(w)
             \/ \E a \in Attempts : SaveRead(w, a) \/ SubmitRead(w, a)
             \/ SaveCommit(w) \/ SubmitGrade(w) \/ SubmitCommit(w) \/ Abort(w)

Next == \/ \E w \in Workers : Player(w)
        \/ Toggle \/ Delete
        \/ \E q \in Questions : SetPoints(q) \/ SetChoices(q) \/ Unlink(q)

Spec == Init /\ [][Next]_vars

-------------------------------------------------------------------------------
(* Properties.                                                             *)

\* Rows and requests are well formed, and only an attempt that was started has answers
\* (tests/models.py).
TypeOK ==
    /\ status \in {"draft", "active", "deleted"} /\ points \in Points
    /\ edition \in [Questions -> 1..MaxEditions]
    /\ attempts \in [Attempts -> Attempt]
    /\ answers \in [Attempts -> Rows]
    /\ requests \in [Workers -> Request]
    /\ served \in 0..MaxServed /\ edits \in 0..MaxEdits /\ overlapped \in BOOLEAN
    /\ \A a \in Attempts, q \in Questions :
          answers[a][q].live => attempts[a].status # "absent"

\* start is idempotent (tests/practice_service.py:130 selects one attempt in progress and
\* fails on two): one attempt is in progress unless requests overlapped, and then never
\* more than there were requests at a time.
OneInProgress ==
    Cardinality(InProgress) <= IF overlapped THEN Cardinality(Workers) ELSE 1

\* Once submitted, an attempt and its answers stay as they were graded, whatever the owner
\* does short of deleting them, unless requests overlapped.
SubmittedIsFinal ==
    [][\A a \in Attempts :
          attempts[a].status = "completed" /\ ~overlapped' =>
              /\ attempts'[a] \in {attempts[a], [attempts[a] EXCEPT !.status = "deleted"]}
              /\ \A q \in Questions :
                    answers'[a][q] \in {answers[a][q], Dropped(answers[a][q])}]_vars

\* What a question can add to a score, and what a negative one takes off max_score.
Gain(p, q) == IF Worth(p, q) > 0 THEN Worth(p, q) ELSE 0

Penalties(p) == SumFunction([q \in Questions |-> Gain(p, q) - Worth(p, q)])

\* Unless requests overlapped, the score of an attempt is the sum of what its answers
\* earned.  When no question gained more at the grading than at the start, it exceeds
\* max_score by at most what the negative questions took off that: a percentage is at
\* most 100 when there is none.
ScoreIsFair ==
    ~overlapped => \A a \in Attempts :
        attempts[a].status = "completed" =>
            /\ attempts[a].score = SumFunction([q \in Questions |-> answers[a][q].earned])
            /\ (\A q \in Questions : Gain(attempts[a].graded, q) <= Gain(attempts[a].paper, q))
                   => attempts[a].score <= attempts[a].max_score + Penalties(attempts[a].paper)

===============================================================================
