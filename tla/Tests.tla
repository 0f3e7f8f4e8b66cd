-------------------------------- MODULE Tests ---------------------------------
(***************************************************************************)
(* The tests of one owner: TestService (tests/service.py), the questions   *)
(* they share (tests/question_service.py, tests/repository.py) and the AI  *)
(* generation that fills them (ai/service.py).                             *)
(*                                                                         *)
(* A question has no life of its own: tests link to it, and a duplicate of *)
(* a test links to the same questions.  A handler reads the test, checks   *)
(* that it is not published, and writes later; the generation awaits an    *)
(* external provider between the two.  The titles, points and order of     *)
(* questions are not told apart: a question has an edition.                *)
(***************************************************************************)
EXTENDS Integers, FiniteSets, FiniteSetsExt

CONSTANTS Tests, Questions, Workers,
          MaxTests,       \* max_tests of the owner's tier (core/plans.py)
          Quotas,         \* the monthly AI limits the owner may be given; -1: unlimited
          MaxEditions, MaxMonths, MaxServed,    \* bounds on edits, time and requests
          None

VARIABLES tests,          \* tests.status per identifier
          links,          \* table test_questions: the questions of each test
          questions,      \* table qb_questions: the edition of each question
          owner,          \* the AI columns of the owner's row in users
          month,          \* the calendar month
          requests,       \* the request each worker is serving
          served,         \* how many requests have started
          overlapped,     \* history: some request has started or time passed beside another
          rasched,        \* history: tests made by generate_rasch_test
          generated       \* history: questions generated this month under a limit

tables == <<tests, links, questions, owner>>

history == <<rasched, generated>>

vars == <<tables, month, requests, served, overlapped, history>>

ASSUME ConstantsAssumption ==
    /\ MaxTests \in Nat \ {0}      \* every tier of core/plans.py allows ten at least
    /\ Quotas \subseteq Int /\ MaxEditions \in Nat \ {0}
    /\ MaxMonths \in Nat /\ MaxServed \in Nat
    /\ IsFiniteSet(Tests) /\ IsFiniteSet(Questions)
    /\ IsFiniteSet(Workers) /\ Workers # {}
    /\ None \notin Tests /\ None \notin Questions

TestStatus == {"draft", "active", "archived"}

Test == TestStatus \cup {"absent", "deleted"}

\* 0: there is no such row yet.
Question == [edition : 0..MaxEditions, deleted : BOOLEAN]

\* users.ai_questions_used, the month of ai_questions_reset_at, and the limit.
Owner == [used : Nat, reset : 0..MaxMonths, quota : Quotas]

\* What a request keeps between its steps.
Request == [op : {"idle", "create", "rasch", "status", "delete", "add", "edit", "remove",
                  "generate"},
            test : Tests \cup {None}, question : Questions \cup {None},
            to : TestStatus,
            paper : SUBSET Questions,     \* the links of a new test
            count : Nat,                  \* questions to add
            used : Nat, metered : BOOLEAN,    \* the owner, as loaded
            reset : -1..MaxMonths]        \* the reset that is due, if it is

Idle == [op |-> "idle", test |-> None, question |-> None, to |-> "draft", paper |-> {},
         count |-> 0, used |-> 0, metered |-> FALSE, reset |-> -1]

\* One draft with one question.
Init == /\ \E t \in Tests, q \in Questions :
              /\ tests = [x \in Tests |-> IF x = t THEN "draft" ELSE "absent"]
              /\ links = [x \in Tests |-> IF x = t THEN {q} ELSE {}]
              /\ questions = [x \in Questions |-> [edition |-> IF x = q THEN 1 ELSE 0,
                                                   deleted |-> FALSE]]
        /\ owner \in [used : {0}, reset : {0}, quota : Quotas]
        /\ month = 0 /\ requests = [w \in Workers |-> Idle] /\ served = 0
        /\ overlapped = FALSE /\ rasched = 0 /\ generated = 0

-------------------------------------------------------------------------------
(* Queries and requests.                                                   *)

Exists(t) == tests[t] \in TestStatus

\* count_by_owner
Owned == {t \in Tests : Exists(t)}

Live(q) == questions[q].edition > 0 /\ ~questions[q].deleted

Bank == {q \in Questions : Live(q)}

Unused == {q \in Questions : questions[q].edition = 0}

\* Variant: a test too many.
CheckTestQuotaLoose == Cardinality(Owned) <= MaxTests

\* _check_test_quota
CheckTestQuota == Cardinality(Owned) < MaxTests

\* Variant: the guard is left out.
EditableAlways(t) == Exists(t)

\* get_test, and the test is not published.
Editable(t) == Exists(t) /\ tests[t] # "active"

Busy == \E w \in Workers : requests[w].op # "idle"

Begin(w, r) == /\ requests[w].op = "idle" /\ served < MaxServed
               /\ requests' = [requests EXCEPT ![w] = r]
               /\ served' = served + 1
               /\ overlapped' = (overlapped \/ Busy)
               /\ UNCHANGED <<tables, month, history>>

\* The handler goes on, commits and is done.
Serve(w, op) == /\ requests[w].op = op
                /\ requests' = [requests EXCEPT ![w] = Idle]
                /\ UNCHANGED <<month, served, overlapped>>

\* An error, a constraint of the database or a restart: nothing is committed.
Abort(w) == /\ requests[w].op # "idle" /\ Serve(w, requests[w].op)
            /\ UNCHANGED <<tables, history>>

-------------------------------------------------------------------------------
(* Creating tests.                                                         *)

create_test(w) == CheckTestQuota /\ Begin(w, [Idle EXCEPT !.op = "create"])

\* The copy links to the questions of the original, as they were loaded.
duplicate_test(w, t) ==
    /\ CheckTestQuota /\ Exists(t)
    /\ Begin(w, [Idle EXCEPT !.op = "create", !.paper = links[t]])

\* Any questions of the owner; which of them are published and fit is left open.
\* There is no check of the quota.
generate_rasch_test(w) ==
    \E S \in SUBSET Bank \ {{}} :
        Begin(w, [Idle EXCEPT !.op = "rasch", !.paper = S])

\* A link to a question that is gone violates a foreign key (Abort).
InsertTest(w) ==
    LET paper == requests[w].paper IN
    /\ paper \subseteq Bank
    /\ \E t \in Tests : /\ tests[t] = "absent"
                        /\ tests' = [tests EXCEPT ![t] = "draft"]
                        /\ links' = [links EXCEPT ![t] = paper]
    /\ UNCHANGED <<questions, owner, generated>>

CreateCommit(w) == Serve(w, "create") /\ InsertTest(w) /\ UNCHANGED rasched

RaschCommit(w) == Serve(w, "rasch") /\ InsertTest(w) /\ rasched' = rasched + 1

-------------------------------------------------------------------------------
(* The status of a test.  A column is written when it differs from what was *)
(* loaded.                                                                  *)

SetStatus(w, t, s) ==
    /\ tests[t] # s
    /\ Begin(w, [Idle EXCEPT !.op = "status", !.test = t, !.to = s])

publish_test(w, t) == tests[t] = "draft" /\ SetStatus(w, t, "active")

unpublish_test(w, t) == tests[t] = "active" /\ SetStatus(w, t, "draft")

archive_test(w, t) == Exists(t) /\ SetStatus(w, t, "archived")

\* The PATCH accepts any status.
update_test(w, t) == Exists(t) /\ \E s \in TestStatus : SetStatus(w, t, s)

\* An UPDATE that meets no row fails (Abort).
StatusCommit(w) ==
    LET r == requests[w] IN
    /\ Serve(w, "status") /\ Exists(r.test)
    /\ tests' = [tests EXCEPT ![r.test] = r.to]
    /\ UNCHANGED <<links, questions, owner, history>>

\* No exam refers to the tests of this model.
delete_test(w, t) == Exists(t) /\ Begin(w, [Idle EXCEPT !.op = "delete", !.test = t])

\* The links go with the test; its questions stay.
DeleteCommit(w) ==
    LET t == requests[w].test IN
    /\ Serve(w, "delete")
    /\ tests' = [tests EXCEPT ![t] = "deleted"]
    /\ links' = [links EXCEPT ![t] = {}]
    /\ UNCHANGED <<questions, owner, history>>

-------------------------------------------------------------------------------
(* The questions of a test.                                                *)

AddRead(w, t, n) == Editable(t) /\ Begin(w, [Idle EXCEPT !.op = "add", !.test = t, !.count = n])

create_question_in_test(w, t) == AddRead(w, t, 1)

\* import_questions_json, and the Excel and CSV imports that call it.
import_questions(w, t) == \E n \in 1..Cardinality(Unused) : AddRead(w, t, n)

\* New questions, linked to the test; a link to a deleted test fails (Abort).
InsertQuestions(t, n) ==
    /\ Exists(t)
    /\ \E S \in kSubset(n, Unused) :
          /\ questions' = [q \in Questions |-> IF q \in S THEN [questions[q] EXCEPT !.edition = 1]
                                               ELSE questions[q]]
          /\ links' = [links EXCEPT ![t] = @ \cup S]
    /\ UNCHANGED tests

AddCommit(w) == /\ Serve(w, "add") /\ InsertQuestions(requests[w].test, requests[w].count)
                /\ UNCHANGED <<owner, history>>

update_question_in_test(w, t, q) ==
    /\ Editable(t) /\ q \in links[t] /\ questions[q].edition < MaxEditions
    /\ Begin(w, [Idle EXCEPT !.op = "edit", !.test = t, !.question = q])

\* The columns and the choices of the question, whichever tests it is linked to.
EditCommit(w) ==
    LET q == requests[w].question IN
    /\ Serve(w, "edit") /\ Live(q) /\ questions[q].edition < MaxEditions
    /\ questions' = [questions EXCEPT ![q].edition = @ + 1]
    /\ UNCHANGED <<tests, links, owner, history>>

delete_question_from_test(w, t, q) ==
    /\ Editable(t) /\ q \in links[t]
    /\ Begin(w, [Idle EXCEPT !.op = "remove", !.test = t, !.question = q])

\* Variant: the question is deleted whoever links to it.
RemoveCommitForAll(w) ==
    LET q == requests[w].question IN
    /\ Serve(w, "remove") /\ Live(q)
    /\ links' = [links EXCEPT ![requests[w].test] = @ \ {q}]
    /\ questions' = [questions EXCEPT ![q].deleted = TRUE]
    /\ UNCHANGED <<tests, owner, history>>

\* The link is deleted, then the question unless a link to it remains; a question that
\* is gone by then is an error (Abort).
RemoveCommit(w) ==
    LET q == requests[w].question
        remaining == {t \in Tests \ {requests[w].test} : q \in links[t]}
    IN /\ Serve(w, "remove") /\ (remaining = {} => Live(q))
       /\ links' = [links EXCEPT ![requests[w].test] = @ \ {q}]
       /\ questions' = [questions EXCEPT ![q].deleted = @ \/ remaining = {}]
       /\ UNCHANGED <<tests, owner, history>>

-------------------------------------------------------------------------------
(* AIService.generate_questions and the owner's monthly limit.             *)

\* ai_questions_used as the check sees it: a new month starts at 0.
Used == IF owner.reset = month THEN owner.used ELSE 0

WithinLimit(n) == owner.quota = -1 \/ n <= owner.quota - Used

\* Permission, limit and test are checked; then the provider is awaited.
generate_questions(w, t, n) ==
    /\ owner.quota # 0 /\ WithinLimit(n) /\ Editable(t)
    /\ Begin(w, [Idle EXCEPT !.op = "generate", !.test = t, !.count = n, !.used = Used,
                             !.metered = owner.quota # -1,
                             !.reset = IF owner.reset = month THEN -1 ELSE month])

\* The new count comes from the row as it was loaded; ai_questions_reset_at is written
\* by the request that found it out of date.
Counted(r) == [owner EXCEPT !.used = r.used + r.count,
                            !.reset = IF r.reset = -1 THEN @ ELSE r.reset]

\* The provider has answered with as many valid questions as were asked for (any other
\* answer is an Abort): the questions and the count are one transaction.
GenerateCommit(w) ==
    LET r == requests[w] IN
    /\ Serve(w, "generate") /\ InsertQuestions(r.test, r.count)
    /\ owner' = IF r.metered THEN Counted(r) ELSE owner
    /\ generated' = IF r.metered THEN generated + r.count ELSE generated
    /\ UNCHANGED rasched

\* AdminService gives the owner another limit.
SetQuota(k) == /\ owner.quota # k /\ owner' = [owner EXCEPT !.quota = k]
               /\ overlapped' = (overlapped \/ Busy)
               /\ UNCHANGED <<tests, links, questions, month, requests, served, history>>

NextMonth == /\ month < MaxMonths /\ month' = month + 1 /\ generated' = 0
             /\ overlapped' = (overlapped \/ Busy)
             /\ UNCHANGED <<tables, requests, served, rasched>>

-------------------------------------------------------------------------------
\* tests/router_management.py
TestRequest(w) == \/ create_test(w) \/ generate_rasch_test(w)
                  \/ \E t \in Tests : \/ duplicate_test(w, t) \/ update_test(w, t)
                                      \/ publish_test(w, t) \/ unpublish_test(w, t)
                                      \/ archive_test(w, t) \/ delete_test(w, t)

QuestionRequest(w) ==
    \E t \in Tests : \/ create_question_in_test(w, t) \/ import_questions(w, t)
                     \/ \E q \in Questions : \/ update_question_in_test(w, t, q)
                                             \/ delete_question_from_test(w, t, q)
                     \/ \E n \in 1..Cardinality(Unused) : generate_questions(w, t, n)

Commit(w) == \/ CreateCommit(w) \/ RaschCommit(w) \/ StatusCommit(w) \/ DeleteCommit(w)
             \/ AddCommit(w) \/ EditCommit(w) \/ RemoveCommit(w) \/ GenerateCommit(w)

Next == \/ \E w \in Workers : TestRequest(w) \/ QuestionRequest(w) \/ Commit(w) \/ Abort(w)
        \/ \E k \in Quotas : SetQuota(k)
        \/ NextMonth

Spec == Init /\ [][Next]_vars

-------------------------------------------------------------------------------
(* Properties.                                                             *)

\* Rows are well formed, and links lead from tests that exist to questions that exist
\* (tests/models.py: both foreign keys of test_questions).
TypeOK ==
    /\ tests \in [Tests -> Test]
    /\ questions \in [Questions -> Question]
    /\ links \in [Tests -> SUBSET Questions]
    /\ owner \in Owner /\ month \in 0..MaxMonths
    /\ requests \in [Workers -> Request]
    /\ served \in 0..MaxServed /\ overlapped \in BOOLEAN
    /\ rasched \in Nat /\ generated \in Nat
    /\ \A t \in Tests : links[t] \subseteq Bank /\ (links[t] # {} => Exists(t))

\* The plan's limit of tests (TestService._check_test_quota counts before it inserts): an
\* owner has no more tests than the limit and those generate_rasch_test has added; of
\* requests that overlap, each but one may add one more, and none is counted twice.
TestLimit ==
    Cardinality(Owned) <= MaxTests + rasched
                          + (IF overlapped THEN Cardinality(Workers) - 1 ELSE 0)

\* The monthly AI limit (AIService.generate_questions): while requests, the change of
\* month and the administrator do not meet, ai_questions_used is what was generated this
\* month, and within a limit the owner may have had.
MonthlyUse ==
    ~overlapped =>
        /\ generated = IF owner.reset = month THEN owner.used ELSE 0
        /\ \E k \in Quotas \cup {0} : generated <= k

\* What the plan of the owner allows (_check_test_quota, AIService.generate_questions): the
\* number of tests, and the questions generated in a month.
WithinPlan == TestLimit /\ MonthlyUse

\* "Test is published and cannot be modified" (tests/service.py:61): while a test stays
\* published its questions stay linked, and unedited, unless requests overlapped, or the
\* question was edited through an unpublished test that shares it.
SharedWithEditable(t, q) == \E d \in Tests \ {t} : q \in links[d] /\ Editable(d)

PublishedIsLocked ==
    [][\A t \in Tests :
          tests[t] = "active" /\ tests'[t] = "active" /\ ~overlapped' =>
              /\ links'[t] = links[t]
              /\ \A q \in links[t] : questions'[q] # questions[q] => SharedWithEditable(t, q)]_vars

===============================================================================
