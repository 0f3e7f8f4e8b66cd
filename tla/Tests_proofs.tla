----------------------------- MODULE Tests_proofs ------------------------------
(***************************************************************************)
(* Theorems about Tests, for any number of tests, questions and            *)
(* overlapping requests, and every limit.                                  *)
(***************************************************************************)
EXTENDS Tests, FiniteSetTheorems, TLAPS

-------------------------------------------------------------------------------
(* Types, and what belongs to what.                                        *)

\* What a request in flight may rely on although its rows move underneath it.
RequestOK(r) ==
    /\ r.op \in {"status", "delete", "add", "edit", "remove", "generate"} => r.test \in Tests
    /\ r.op \in {"edit", "remove"} => r.question \in Questions
    /\ r.reset <= month

\* A question is inserted before it is deleted, and links lead from tests that exist to
\* questions that exist.
LinksOK ==
    /\ \A t \in Tests : links[t] \subseteq Bank /\ (links[t] # {} => Exists(t))
    /\ \A q \in Questions : questions[q].edition = 0 => ~questions[q].deleted

TablesOK ==
    /\ tests \in [Tests -> Test]
    /\ questions \in [Questions -> Question]
    /\ links \in [Tests -> SUBSET Questions]
    /\ LinksOK

OwnerOK == /\ owner \in Owner /\ month \in 0..MaxMonths /\ owner.reset <= month
           /\ rasched \in Nat /\ generated \in Nat

RequestsOK == /\ requests \in [Workers -> Request]
              /\ \A w \in Workers : RequestOK(requests[w])

CountersOK == served \in 0..MaxServed /\ overlapped \in BOOLEAN

Rows == TablesOK /\ OwnerOK /\ RequestsOK /\ CountersOK

LEMMA RowsType == Rows => TypeOK
  BY DEF Rows, TablesOK, LinksOK, OwnerOK, RequestsOK, CountersOK, TypeOK

LEMMA IdleOK == Idle \in Request /\ \A m \in Nat : -1 <= m
  BY ConstantsAssumption DEF Idle, Request, TestStatus

LEMMA InitRows == Init => Rows
<1> SUFFICES ASSUME Init PROVE Rows
  OBVIOUS
<1>1. PICK t \in Tests, q \in Questions :
         /\ tests = [x \in Tests |-> IF x = t THEN "draft" ELSE "absent"]
         /\ links = [x \in Tests |-> IF x = t THEN {q} ELSE {}]
         /\ questions = [x \in Questions |-> [edition |-> IF x = q THEN 1 ELSE 0,
                                              deleted |-> FALSE]]
  BY DEF Init
<1>2. TablesOK
  <2>1. questions \in [Questions -> Question]
    BY <1>1, ConstantsAssumption DEF Question
  <2>2. /\ \A x \in Questions : questions[x].deleted = FALSE
        /\ questions[q].edition = 1
    BY <1>1
  <2>3. q \in Bank
    BY <2>2 DEF Bank, Live
  <2>4. LinksOK
    BY <1>1, <2>2, <2>3 DEF LinksOK, Exists, TestStatus
  <2> QED BY <1>1, <2>1, <2>4 DEF TablesOK, Test, TestStatus
<1>3. OwnerOK
  <2>1. owner.used = 0 /\ owner.reset = 0 /\ owner.quota \in Quotas /\ owner \in Owner
    BY ConstantsAssumption DEF Init, Owner
  <2> QED BY <2>1, ConstantsAssumption DEF OwnerOK, Init
<1>4. RequestsOK
  <2>1. \A w \in Workers : requests[w] = Idle
    BY DEF Init
  <2>2. RequestOK(Idle)
    BY DEF RequestOK, Idle, Init
  <2>3. requests \in [Workers -> Request]
    BY IdleOK DEF Init
  <2> QED BY <2>1, <2>2, <2>3 DEF RequestsOK
<1>5. CountersOK
  <2>1. served \in 0..MaxServed
    BY ConstantsAssumption DEF Init
  <2>2. overlapped \in BOOLEAN
    BY DEF Init
  <2> QED BY <2>1, <2>2 DEF CountersOK
<1> QED BY <1>2, <1>3, <1>4, <1>5 DEF Rows

\* Requests keep what they rely on while time only goes on.
LEMMA RequestsStep ==
  ASSUME Rows, month' \in Nat, month <= month', NEW w \in Workers, NEW r \in Request,
         RequestOK(r), requests' = [requests EXCEPT ![w] = r] \/ UNCHANGED requests
  PROVE  RequestsOK'
<1>1. requests' \in [Workers -> Request]
  BY DEF Rows, RequestsOK
<1>2. ASSUME NEW v \in Workers PROVE RequestOK(requests[v])'
  <2>1. PICK x : x = requests'[v]
    OBVIOUS
  <2>2. x \in Request /\ RequestOK(x)
    BY <2>1 DEF Rows, RequestsOK
  <2>3. x.reset \in Int /\ month \in Int
    BY <2>2, ConstantsAssumption DEF Request, Rows, OwnerOK
  <2>4. RequestOK(x)'
    BY <2>2, <2>3 DEF RequestOK
  <2> QED BY <2>1, <2>4
<1> QED BY <1>1, <1>2 DEF RequestsOK

LEMMA RequestIdle == Rows => RequestOK(Idle)
  BY ConstantsAssumption DEF Rows, OwnerOK, RequestOK, Idle

LEMMA CountersStep ==
  ASSUME Rows, \/ UNCHANGED <<served, overlapped>>
               \/ UNCHANGED served /\ overlapped' = (overlapped \/ Busy)
               \/ \E w, r : Begin(w, r)
  PROVE  CountersOK'
<1>1. served' \in 0..MaxServed
  BY ConstantsAssumption DEF Rows, CountersOK, Begin
<1>2. overlapped' \in BOOLEAN
  BY ZenonT(30) DEF Rows, CountersOK, Begin, Busy
<1> QED BY <1>1, <1>2 DEF CountersOK

LEMMA TablesKept == Rows /\ UNCHANGED tables => TablesOK'
  BY DEF Rows, TablesOK, LinksOK, tables, Bank, Live, Exists

LEMMA OwnerKept == Rows /\ UNCHANGED <<owner, month, history>> => OwnerOK'
  BY DEF Rows, OwnerOK, history

LEMMA MonthOK == Rows => month \in Nat /\ month <= month /\ -1 <= month
  BY ConstantsAssumption DEF Rows, OwnerOK

LEMMA BeginKeeps ==
  ASSUME Rows, NEW w \in Workers, NEW r \in Request, RequestOK(r), Begin(w, r)
  PROVE  Rows'
<1>1. TablesOK' /\ OwnerOK' /\ CountersOK'
  BY TablesKept, OwnerKept, CountersStep DEF Begin, tables
<1>2. month' = month /\ month' \in Nat /\ month <= month' /\ requests' = [requests EXCEPT ![w] = r]
  BY MonthOK DEF Begin
<1>3. RequestsOK'
  BY <1>2, RequestsStep
<1> QED BY <1>1, <1>3 DEF Rows

LEMMA ServeKeeps ==
  ASSUME Rows, TablesOK', OwnerOK', NEW w \in Workers, NEW op, Serve(w, op)
  PROVE  Rows'
<1>1. CountersOK'
  BY CountersStep DEF Serve
<1>2. /\ month' = month /\ month' \in Nat /\ month <= month'
      /\ requests' = [requests EXCEPT ![w] = Idle]
  BY MonthOK DEF Serve
<1>3. RequestsOK'
  BY <1>2, IdleOK, RequestIdle, RequestsStep
<1> QED BY <1>1, <1>3 DEF Rows

\* Each request begins with a record of its own.
LEMMA BeginSteps ==
  ASSUME Rows, NEW w \in Workers, TestRequest(w) \/ QuestionRequest(w)
  PROVE  Rows'
<1> USE DEF TestStatus
<1>2. month \in Nat /\ -1 <= month
  BY MonthOK
<1>3. ASSUME NEW P \in SUBSET Questions, NEW o \in {"create", "rasch"},
             Begin(w, [Idle EXCEPT !.op = o, !.paper = P])
      PROVE  Rows'
  <2>1. [Idle EXCEPT !.op = o, !.paper = P] \in Request
    BY ZenonT(30), IdleOK DEF Idle, Request
  <2>2. RequestOK([Idle EXCEPT !.op = o, !.paper = P])
    BY <1>2 DEF RequestOK, Idle
  <2> QED BY <1>3, <2>1, <2>2, BeginKeeps
<1>4. ASSUME NEW t \in Tests, NEW s \in TestStatus, SetStatus(w, t, s) PROVE Rows'
  <2>1. [Idle EXCEPT !.op = "status", !.test = t, !.to = s] \in Request
    BY ZenonT(30), IdleOK DEF Idle, Request
  <2>2. RequestOK([Idle EXCEPT !.op = "status", !.test = t, !.to = s])
    BY <1>2 DEF RequestOK, Idle
  <2> QED BY <1>4, <2>1, <2>2, BeginKeeps DEF SetStatus
<1>5. ASSUME NEW t \in Tests, delete_test(w, t) PROVE Rows'
  <2>1. [Idle EXCEPT !.op = "delete", !.test = t] \in Request
    BY ZenonT(30), IdleOK DEF Idle, Request
  <2>2. RequestOK([Idle EXCEPT !.op = "delete", !.test = t])
    BY <1>2 DEF RequestOK, Idle
  <2> QED BY <1>5, <2>1, <2>2, BeginKeeps DEF delete_test
<1>6. ASSUME NEW t \in Tests, NEW n \in Nat, AddRead(w, t, n) PROVE Rows'
  <2>1. [Idle EXCEPT !.op = "add", !.test = t, !.count = n] \in Request
    BY ZenonT(30), IdleOK DEF Idle, Request
  <2>2. RequestOK([Idle EXCEPT !.op = "add", !.test = t, !.count = n])
    BY <1>2 DEF RequestOK, Idle
  <2> QED BY <1>6, <2>1, <2>2, BeginKeeps DEF AddRead
<1>7. ASSUME NEW t \in Tests, NEW q \in Questions, NEW o \in {"edit", "remove"},
             Begin(w, [Idle EXCEPT !.op = o, !.test = t, !.question = q])
      PROVE  Rows'
  <2>1. [Idle EXCEPT !.op = o, !.test = t, !.question = q] \in Request
    BY ZenonT(30), IdleOK DEF Idle, Request
  <2>2. RequestOK([Idle EXCEPT !.op = o, !.test = t, !.question = q])
    BY <1>2 DEF RequestOK, Idle
  <2> QED BY <1>7, <2>1, <2>2, BeginKeeps
<1>8. ASSUME NEW t \in Tests, NEW n \in Nat, generate_questions(w, t, n) PROVE Rows'
  <2> DEFINE m == owner.quota # -1
             z == IF owner.reset = month THEN -1 ELSE month
             u == Used
             r == [Idle EXCEPT !.op = "generate", !.test = t, !.count = n, !.used = u,
                               !.metered = m, !.reset = z]
  <2>1. z \in -1..MaxMonths /\ z <= month
    <3>1. month \in 0..MaxMonths /\ MaxMonths \in Nat
      BY ConstantsAssumption DEF Rows, OwnerOK
    <3> QED BY <1>2, <3>1
  <2>2. m \in BOOLEAN
    OBVIOUS
  <2>3. u \in Nat
    <3>1. owner.used \in Nat
      BY DEF Rows, OwnerOK, Owner
    <3> QED BY <3>1 DEF Used
  <2>4. Begin(w, r)
    BY <1>8 DEF generate_questions
  <2> HIDE DEF m, z, u
  <2>5. r \in Request
    BY ZenonT(30), IdleOK, <2>1, <2>2, <2>3 DEF Idle, Request
  <2>6. RequestOK(r)
    BY <2>1 DEF RequestOK, Idle
  <2> HIDE DEF r
  <2> QED BY <2>4, <2>5, <2>6, BeginKeeps
<1>9. ASSUME create_test(w) PROVE Rows'
  <2>1. [Idle EXCEPT !.op = "create"] \in Request
    BY ZenonT(30), IdleOK DEF Idle, Request
  <2>2. RequestOK([Idle EXCEPT !.op = "create"])
    BY <1>2 DEF RequestOK, Idle
  <2> QED BY <1>9, <2>1, <2>2, BeginKeeps DEF create_test
<1>10. ASSUME generate_rasch_test(w) PROVE Rows'
  BY <1>3, <1>10 DEF generate_rasch_test, Bank
<1>11. ASSUME NEW t \in Tests, duplicate_test(w, t) PROVE Rows'
  BY <1>3, <1>11 DEF duplicate_test, Rows, TablesOK
<1>12. ASSUME NEW t \in Tests,
              \/ update_test(w, t) \/ publish_test(w, t) \/ unpublish_test(w, t)
              \/ archive_test(w, t)
       PROVE  Rows'
  BY <1>4, <1>12 DEF update_test, publish_test, unpublish_test, archive_test
<1>13. ASSUME NEW t \in Tests, create_question_in_test(w, t) \/ import_questions(w, t) PROVE Rows'
  BY <1>6, <1>13 DEF create_question_in_test, import_questions
<1>14. ASSUME NEW t \in Tests, NEW q \in Questions,
              update_question_in_test(w, t, q) \/ delete_question_from_test(w, t, q)
       PROVE  Rows'
  BY <1>7, <1>14 DEF update_question_in_test, delete_question_from_test
<1> QED BY <1>5, <1>8, <1>9, <1>10, <1>11, <1>12, <1>13, <1>14 DEF TestRequest, QuestionRequest

-------------------------------------------------------------------------------
(* Requests that write.                                                    *)

\* A test that is inserted links to questions of the bank.
LEMMA InsertTestStep ==
  ASSUME Rows, NEW w \in Workers, InsertTest(w)
  PROVE  TablesOK'
<1>1. PICK P \in SUBSET Bank, t \in Tests :
         /\ tests' = [tests EXCEPT ![t] = "draft"] /\ links' = [links EXCEPT ![t] = P]
  BY DEF InsertTest
<1>2. UNCHANGED questions
  BY DEF InsertTest
<1>3. Bank' = Bank /\ Bank \subseteq Questions
  BY <1>2 DEF Bank, Live
<1>4. /\ tests' \in [Tests -> Test] /\ links' \in [Tests -> SUBSET Questions]
  BY <1>1, <1>3 DEF Rows, TablesOK, Test, TestStatus
<1>5. ASSUME NEW x \in Tests PROVE links'[x] \subseteq Bank' /\ (links'[x] # {} => Exists(x)')
  <2>1. CASE x = t
    BY <1>1, <1>3, <2>1 DEF Rows, TablesOK, Exists, TestStatus
  <2>2. CASE x # t
    BY <1>1, <1>3, <2>2 DEF Rows, TablesOK, LinksOK, Exists
  <2> QED BY <2>1, <2>2
<1> QED BY <1>2, <1>4, <1>5 DEF Rows, TablesOK, LinksOK

LEMMA InsertQuestionsStep ==
  ASSUME Rows, NEW t \in Tests, NEW n, InsertQuestions(t, n)
  PROVE  TablesOK'
<1>1. PICK S \in SUBSET Unused :
         /\ questions' = [q \in Questions |-> IF q \in S THEN [questions[q] EXCEPT !.edition = 1]
                                              ELSE questions[q]]
         /\ links' = [links EXCEPT ![t] = @ \cup S]
  BY DEF InsertQuestions, kSubset
<1>2. UNCHANGED tests /\ Exists(t)
  BY DEF InsertQuestions
<1>3. ASSUME NEW q \in Questions
      PROVE  /\ questions'[q] \in Question /\ questions'[q].deleted = questions[q].deleted
             /\ questions'[q].edition = IF q \in S THEN 1 ELSE questions[q].edition
  <2>1. questions[q] \in Question
    BY DEF Rows, TablesOK
  <2>2. CASE q \in S
    <3>1. questions'[q] = [questions[q] EXCEPT !.edition = 1]
      BY <1>1, <2>2
    <3>2. 1 \in 0..MaxEditions
      BY ConstantsAssumption
    <3>3. [questions[q] EXCEPT !.edition = 1] \in Question
      BY ZenonT(30), <2>1, <3>2 DEF Question
    <3> QED BY <2>1, <2>2, <3>1, <3>3 DEF Question
  <2>3. CASE q \notin S
    BY <1>1, <2>1, <2>3
  <2> QED BY <2>2, <2>3
<1>4. /\ questions' \in [Questions -> Question] /\ links' \in [Tests -> SUBSET Questions]
      /\ \A x \in Tests : links'[x] = IF x = t THEN links[x] \cup S ELSE links[x]
  BY <1>1, <1>3 DEF Rows, TablesOK, Unused
<1>5. Bank \subseteq Bank' /\ S \subseteq Bank'
  <2>1. ASSUME NEW q \in Bank PROVE q \in Bank'
    <3>1. q \in Questions /\ questions[q].edition > 0 /\ ~questions[q].deleted
      BY DEF Bank, Live
    <3>2. questions'[q].edition > 0
      BY <1>3, <3>1
    <3> QED BY <1>3, <3>1, <3>2 DEF Bank, Live
  <2>2. ASSUME NEW q \in S PROVE q \in Bank'
    <3>1. q \in Questions /\ ~questions[q].deleted
      BY DEF Unused, Rows, TablesOK, LinksOK
    <3>2. questions'[q].edition > 0
      BY <1>3, <3>1
    <3> QED BY <1>3, <3>1, <3>2 DEF Bank, Live
  <2> QED BY <2>1, <2>2
<1>6. LinksOK'
  <2>1. \A q \in Questions : questions'[q].edition = 0 => ~questions'[q].deleted
    BY <1>3 DEF Rows, TablesOK, LinksOK
  <2>2. ASSUME NEW x \in Tests PROVE links'[x] \subseteq Bank' /\ (links'[x] # {} => Exists(x)')
    <3>1. links[x] \subseteq Bank /\ (links[x] # {} => Exists(x))
      BY DEF Rows, TablesOK, LinksOK
    <3>2. Exists(x)' <=> Exists(x)
      BY <1>2 DEF Exists
    <3> QED BY <1>2, <1>4, <1>5, <3>1, <3>2
  <2> QED BY <2>1, <2>2 DEF LinksOK
<1> QED BY <1>2, <1>4, <1>6 DEF Rows, TablesOK

LEMMA CommitSteps ==
  ASSUME Rows, NEW w \in Workers, Commit(w) \/ Abort(w)
  PROVE  Rows'
<1>1. ASSUME CreateCommit(w) PROVE Rows'
  <2>1. TablesOK' /\ OwnerOK'
    BY <1>1, InsertTestStep DEF CreateCommit, InsertTest, Serve, Rows, OwnerOK
  <2> QED BY <1>1, <2>1, ServeKeeps DEF CreateCommit
<1>2. ASSUME RaschCommit(w) PROVE Rows'
  <2>1. TablesOK'
    BY <1>2, InsertTestStep DEF RaschCommit
  <2>2. UNCHANGED <<owner, month, generated>> /\ rasched' = rasched + 1
    BY <1>2 DEF RaschCommit, InsertTest, Serve
  <2>3. OwnerOK'
    BY <2>2 DEF Rows, OwnerOK
  <2> QED BY <1>2, <2>1, <2>3, ServeKeeps DEF RaschCommit
<1>3. ASSUME StatusCommit(w) PROVE Rows'
  <2>1. PICK t, s : t = requests[w].test /\ s = requests[w].to
    OBVIOUS
  <2>2. t \in Tests /\ s \in TestStatus
    BY <1>3, <2>1 DEF StatusCommit, Serve, Rows, RequestsOK, RequestOK, Request
  <2>3. Exists(t) /\ tests' = [tests EXCEPT ![t] = s] /\ UNCHANGED <<links, questions>>
    BY <1>3, <2>1 DEF StatusCommit
  <2>4. TablesOK'
    BY <2>2, <2>3 DEF Rows, TablesOK, LinksOK, Bank, Live, Exists, Test
  <2> QED BY <1>3, <2>4, OwnerKept, ServeKeeps DEF StatusCommit, Serve
<1>4. ASSUME DeleteCommit(w) PROVE Rows'
  <2>1. PICK t : t = requests[w].test
    OBVIOUS
  <2>2. t \in Tests
    BY <1>4, <2>1 DEF DeleteCommit, Serve, Rows, RequestsOK, RequestOK
  <2>3. /\ tests' = [tests EXCEPT ![t] = "deleted"] /\ links' = [links EXCEPT ![t] = {}]
        /\ UNCHANGED questions
    BY <1>4, <2>1 DEF DeleteCommit
  <2>4. TablesOK'
    BY <2>2, <2>3 DEF Rows, TablesOK, LinksOK, Bank, Live, Exists, Test
  <2> QED BY <1>4, <2>4, OwnerKept, ServeKeeps DEF DeleteCommit, Serve
<1>5. ASSUME AddCommit(w) PROVE Rows'
  <2>1. requests[w].test \in Tests
    BY <1>5 DEF AddCommit, Serve, Rows, RequestsOK, RequestOK
  <2> QED BY <1>5, <2>1, InsertQuestionsStep, OwnerKept, ServeKeeps DEF AddCommit, Serve
<1>6. ASSUME EditCommit(w) PROVE Rows'
  <2>1. PICK q : q = requests[w].question
    OBVIOUS
  <2>2. q \in Questions
    BY <1>6, <2>1 DEF EditCommit, Serve, Rows, RequestsOK, RequestOK
  <2>3. /\ Live(q) /\ questions[q].edition < MaxEditions
        /\ questions' = [questions EXCEPT ![q].edition = @ + 1] /\ UNCHANGED <<tests, links>>
    BY <1>6, <2>1 DEF EditCommit
  <2> DEFINE n == questions[q].edition + 1
  <2>4. questions[q] \in Question /\ n \in 0..MaxEditions /\ n > 0
    <3>1. questions[q] \in Question
      BY <2>2 DEF Rows, TablesOK
    <3>2. questions[q].edition \in 0..MaxEditions
      BY <3>1 DEF Question
    <3> QED BY <2>3, <3>1, <3>2, ConstantsAssumption
  <2>5. questions' = [questions EXCEPT ![q] = [@ EXCEPT !.edition = n]]
    BY <2>2, <2>3 DEF Rows, TablesOK
  <2> HIDE DEF n
  <2>6. /\ [questions[q] EXCEPT !.edition = n] \in Question
        /\ [questions[q] EXCEPT !.edition = n].edition = n
        /\ [questions[q] EXCEPT !.edition = n].deleted = questions[q].deleted
    BY ZenonT(30), <2>4 DEF Question
  <2>7. questions' \in [Questions -> Question]
    BY <2>2, <2>5, <2>6 DEF Rows, TablesOK
  <2>8. \A x \in Questions : /\ questions'[x].deleted = questions[x].deleted
                             /\ x # q => questions'[x] = questions[x]
    BY <2>2, <2>5, <2>6 DEF Rows, TablesOK
  <2>9. questions'[q].edition = n
    BY <2>2, <2>5, <2>6 DEF Rows, TablesOK
  <2>10. Bank \subseteq Bank'
    BY <2>4, <2>8, <2>9 DEF Bank, Live
  <2>11. LinksOK'
    BY <2>3, <2>4, <2>8, <2>9, <2>10 DEF Rows, TablesOK, LinksOK, Exists
  <2>12. TablesOK'
    BY <2>3, <2>7, <2>11 DEF Rows, TablesOK
  <2> QED BY <1>6, <2>12, OwnerKept, ServeKeeps DEF EditCommit, Serve
<1>7. ASSUME RemoveCommit(w) PROVE Rows'
  <2>1. PICK q, t, gone : /\ q = requests[w].question /\ t = requests[w].test
                          /\ gone = (questions[q].deleted
                                     \/ {x \in Tests \ {t} : q \in links[x]} = {})
    OBVIOUS
  <2>2. q \in Questions /\ t \in Tests
    BY <1>7, <2>1 DEF RemoveCommit, Serve, Rows, RequestsOK, RequestOK
  <2>3. /\ {x \in Tests \ {t} : q \in links[x]} = {} => Live(q)
        /\ links' = [links EXCEPT ![t] = @ \ {q}]
        /\ questions' = [questions EXCEPT ![q] = [@ EXCEPT !.deleted = gone]]
        /\ UNCHANGED tests
    BY <1>7, <2>1, <2>2 DEF RemoveCommit, Rows, TablesOK
  <2>4. gone \in BOOLEAN /\ questions[q] \in Question
    BY <2>1, <2>2 DEF Rows, TablesOK, Question
  <2>5. /\ [questions[q] EXCEPT !.deleted = gone] \in Question
        /\ [questions[q] EXCEPT !.deleted = gone].edition = questions[q].edition
        /\ [questions[q] EXCEPT !.deleted = gone].deleted = gone
    BY ZenonT(30), <2>4 DEF Question
  <2>6. /\ questions' \in [Questions -> Question] /\ links' \in [Tests -> SUBSET Questions]
        /\ \A x \in Tests : links'[x] = IF x = t THEN links[t] \ {q} ELSE links[x]
    BY <2>2, <2>3, <2>5 DEF Rows, TablesOK
  <2>7. /\ \A x \in Questions : x # q => questions'[x] = questions[x]
        /\ questions'[q].edition = questions[q].edition /\ questions'[q].deleted = gone
    BY <2>2, <2>3, <2>5 DEF Rows, TablesOK
  <2>8. \A x \in Questions : questions'[x].edition = 0 => ~questions'[x].deleted
    <3>1. ASSUME questions[q].edition = 0 PROVE ~gone
      <4>1. ~questions[q].deleted
        BY <2>2, <3>1 DEF Rows, TablesOK, LinksOK
      <4>2. ~Live(q)
        BY <3>1 DEF Live
      <4> QED BY <2>1, <2>3, <4>1, <4>2
    <3> QED BY <2>7, <3>1 DEF Rows, TablesOK, LinksOK
  <2>9. ASSUME NEW x \in Tests PROVE links'[x] \subseteq Bank' /\ (links'[x] # {} => Exists(x)')
    <3>1. links[x] \subseteq Bank /\ (links[x] # {} => Exists(x)) /\ Bank \subseteq Questions
      BY DEF Rows, TablesOK, LinksOK, Bank
    <3>2. ASSUME NEW y \in links'[x] PROVE y \in Bank'
      <4>1. y \in links[x] /\ y \in Bank /\ y \in Questions
        BY <2>6, <3>1
      <4>2. CASE y # q
        BY <2>7, <4>1, <4>2 DEF Bank, Live
      <4>3. CASE y = q
        <5>1. x \in {z \in Tests \ {t} : q \in links[z]}
          BY <2>6, <4>1, <4>3
        <5>2. ~gone
          BY <2>1, <4>1, <4>3, <5>1 DEF Bank, Live
        <5> QED BY <2>7, <4>1, <4>3, <5>2 DEF Bank, Live
      <4> QED BY <4>2, <4>3
    <3>3. links'[x] # {} => Exists(x)'
      BY <2>3, <2>6, <3>1 DEF Exists
    <3> QED BY <3>2, <3>3
  <2>10. TablesOK'
    BY <2>3, <2>6, <2>8, <2>9 DEF Rows, TablesOK, LinksOK
  <2> QED BY <1>7, <2>10, OwnerKept, ServeKeeps DEF RemoveCommit, Serve
<1>8. ASSUME GenerateCommit(w) PROVE Rows'
  <2>1. PICK r : r = requests[w]
    OBVIOUS
  <2>2. /\ r \in Request /\ r.test \in Tests /\ r.used \in Nat /\ r.count \in Nat
        /\ r.reset \in -1..MaxMonths /\ r.reset <= month
    BY <1>8, <2>1 DEF GenerateCommit, Serve, Rows, RequestsOK, RequestOK, Request
  <2>3. /\ InsertQuestions(r.test, r.count) /\ UNCHANGED <<month, rasched>>
        /\ owner' = IF r.metered THEN Counted(r) ELSE owner
        /\ generated' = IF r.metered THEN generated + r.count ELSE generated
    BY <1>8, <2>1 DEF GenerateCommit, Serve
  <2>4. TablesOK'
    BY <2>2, <2>3, InsertQuestionsStep
  <2>5. owner \in Owner /\ owner.reset <= month /\ month \in 0..MaxMonths
    BY DEF Rows, OwnerOK
  <2> DEFINE u == r.used + r.count
             z == IF r.reset = -1 THEN owner.reset ELSE r.reset
  <2>6. u \in Nat
    BY <2>2
  <2>7. z \in 0..MaxMonths /\ z <= month
    <3>1. owner.reset \in 0..MaxMonths
      BY <2>5 DEF Owner
    <3> QED BY <2>2, <2>5, <3>1, ConstantsAssumption
  <2>8. Counted(r) = [owner EXCEPT !.used = u, !.reset = z]
    BY ZenonT(30), <2>5 DEF Counted, Owner
  <2> HIDE DEF u, z
  <2>9. /\ [owner EXCEPT !.used = u, !.reset = z] \in Owner
        /\ [owner EXCEPT !.used = u, !.reset = z].reset = z
    BY ZenonT(30), <2>5, <2>6, <2>7 DEF Owner
  <2>10. owner' \in Owner /\ owner'.reset <= month
    BY <2>3, <2>5, <2>7, <2>8, <2>9
  <2>11. OwnerOK'
    BY <2>2, <2>3, <2>10 DEF Rows, OwnerOK
  <2> QED BY <1>8, <2>4, <2>11, ServeKeeps DEF GenerateCommit
<1>9. ASSUME Abort(w) PROVE Rows'
  BY <1>9, TablesKept, OwnerKept, ServeKeeps DEF Abort, tables, Serve
<1> QED BY <1>1, <1>2, <1>3, <1>4, <1>5, <1>6, <1>7, <1>8, <1>9 DEF Commit

LEMMA NextKeepsRows == Rows /\ [Next]_vars => Rows'
<1> SUFFICES ASSUME Rows, [Next]_vars PROVE Rows'
  OBVIOUS
<1>1. PICK w \in Workers : TRUE
  BY ConstantsAssumption
<1>2. ASSUME NEW k \in Quotas, SetQuota(k) PROVE Rows'
  <2>1. owner \in Owner
    BY DEF Rows, OwnerOK
  <2>2. /\ [owner EXCEPT !.quota = k] \in Owner
        /\ [owner EXCEPT !.quota = k].reset = owner.reset
    BY ZenonT(30), <2>1 DEF Owner
  <2>3. OwnerOK'
    BY <1>2, <2>2 DEF SetQuota, Rows, OwnerOK, history
  <2>4. TablesOK'
    BY <1>2 DEF SetQuota, Rows, TablesOK, LinksOK, Bank, Live, Exists
  <2>5. RequestsOK' /\ CountersOK'
    BY <1>1, <1>2, MonthOK, IdleOK, RequestIdle, RequestsStep, CountersStep DEF SetQuota
  <2> QED BY <2>3, <2>4, <2>5 DEF Rows
<1>3. CASE NextMonth
  <2>1. month' = month + 1 /\ month' \in 0..MaxMonths /\ month' \in Nat /\ month <= month'
    BY <1>3, ConstantsAssumption DEF NextMonth, Rows, OwnerOK
  <2>2. UNCHANGED <<tables, requests, served, rasched>> /\ generated' = 0
        /\ overlapped' = (overlapped \/ Busy)
    BY <1>3 DEF NextMonth
  <2>3. OwnerOK'
    <3>1. owner.reset \in Int /\ owner.reset <= month /\ month \in Int
      BY ConstantsAssumption DEF Rows, OwnerOK, Owner
    <3> QED BY <2>1, <2>2, <3>1 DEF Rows, OwnerOK, tables
  <2>4. RequestsOK' /\ CountersOK'
    BY <1>1, <2>1, <2>2, IdleOK, RequestIdle, RequestsStep, CountersStep
  <2> QED BY <2>2, <2>3, <2>4, TablesKept DEF Rows
<1>4. CASE UNCHANGED vars
  <2>1. UNCHANGED <<tables, month, history, requests, served, overlapped>>
    BY <1>4 DEF vars
  <2>2. TablesOK' /\ OwnerOK'
    BY <2>1, TablesKept, OwnerKept DEF tables
  <2>3. RequestsOK' /\ CountersOK'
    BY <1>1, <2>1, MonthOK, IdleOK, RequestIdle, RequestsStep, CountersStep
  <2> QED BY <2>2, <2>3 DEF Rows
<1> QED BY <1>2, <1>3, <1>4, BeginSteps, CommitSteps DEF Next

LEMMA RowsInvariant == Spec => []Rows
  BY InitRows, NextKeepsRows, PTL DEF Spec

\* Rows are well formed, and links lead from tests that exist to questions that exist,
\* whatever order the requests on tests and their shared questions are served in
\* (tests/models.py: the foreign keys of test_questions).
THEOREM TypeCorrect == Spec => []TypeOK
  BY RowsInvariant, RowsType, PTL

-------------------------------------------------------------------------------
(* What a request finds when it begins, and the steps of one worker.       *)

\* What a request that is served alone has checked and still holds.
Fresh(r) ==
    /\ r.op \in {"add", "edit", "remove", "generate"} => Editable(r.test)
    /\ r.op \in {"edit", "remove"} => r.question \in links[r.test]
    /\ r.op = "generate" => /\ r.used = Used
                            /\ r.reset = IF owner.reset = month THEN -1 ELSE month
                            /\ r.metered => r.count <= owner.quota - Used

LEMMA Begun ==
  ASSUME Rows, NEW w \in Workers, TestRequest(w) \/ QuestionRequest(w)
  PROVE  \E r : Begin(w, r) /\ Fresh(r) /\ (r.op = "create" => CheckTestQuota)
<1> DEFINE P == \E r : Begin(w, r) /\ Fresh(r) /\ (r.op = "create" => CheckTestQuota)
<1>1. ASSUME NEW r, Begin(w, r), Fresh(r), r.op = "create" => CheckTestQuota PROVE P
  BY <1>1
<1> HIDE DEF P
<1>2. ASSUME create_test(w) \/ \E t \in Tests : duplicate_test(w, t) PROVE P
  <2>1. PICK x : Begin(w, [Idle EXCEPT !.op = "create", !.paper = x])
                 \/ Begin(w, [Idle EXCEPT !.op = "create"])
    BY <1>2 DEF create_test, duplicate_test
  <2>2. /\ [Idle EXCEPT !.op = "create", !.paper = x].op = "create"
        /\ [Idle EXCEPT !.op = "create"].op = "create"
    BY DEF Idle
  <2>3. /\ Fresh([Idle EXCEPT !.op = "create", !.paper = x])
        /\ Fresh([Idle EXCEPT !.op = "create"])
    BY <2>2 DEF Fresh
  <2>4. CheckTestQuota
    BY <1>2 DEF create_test, duplicate_test
  <2> QED BY <1>1, <2>1, <2>3, <2>4
<1>3. ASSUME generate_rasch_test(w) PROVE P
  <2>1. PICK x : Begin(w, [Idle EXCEPT !.op = "rasch", !.paper = x])
    BY <1>3 DEF generate_rasch_test
  <2>2. [Idle EXCEPT !.op = "rasch", !.paper = x].op = "rasch"
    BY DEF Idle
  <2>3. Fresh([Idle EXCEPT !.op = "rasch", !.paper = x])
    BY <2>2 DEF Fresh
  <2> QED BY <1>1, <2>1, <2>2, <2>3
<1>4. ASSUME NEW t \in Tests, NEW s, SetStatus(w, t, s) PROVE P
  <2>1. [Idle EXCEPT !.op = "status", !.test = t, !.to = s].op = "status"
    BY DEF Idle
  <2>2. Fresh([Idle EXCEPT !.op = "status", !.test = t, !.to = s])
    BY <2>1 DEF Fresh
  <2> QED BY <1>1, <1>4, <2>1, <2>2 DEF SetStatus
<1>5. ASSUME NEW t \in Tests, delete_test(w, t) PROVE P
  <2>1. [Idle EXCEPT !.op = "delete", !.test = t].op = "delete"
    BY DEF Idle
  <2>2. Fresh([Idle EXCEPT !.op = "delete", !.test = t])
    BY <2>1 DEF Fresh
  <2> QED BY <1>1, <1>5, <2>1, <2>2 DEF delete_test
<1>6. ASSUME NEW t \in Tests, NEW n, AddRead(w, t, n) PROVE P
  <2>1. /\ [Idle EXCEPT !.op = "add", !.test = t, !.count = n].op = "add"
        /\ [Idle EXCEPT !.op = "add", !.test = t, !.count = n].test = t
    BY DEF Idle
  <2>2. Fresh([Idle EXCEPT !.op = "add", !.test = t, !.count = n])
    BY <1>6, <2>1 DEF Fresh, AddRead
  <2> QED BY <1>1, <1>6, <2>1, <2>2 DEF AddRead
<1>7. ASSUME NEW t \in Tests, NEW q \in Questions, NEW o \in {"edit", "remove"},
             Editable(t), q \in links[t],
             Begin(w, [Idle EXCEPT !.op = o, !.test = t, !.question = q])
      PROVE  P
  <2> DEFINE r == [Idle EXCEPT !.op = o, !.test = t, !.question = q]
  <2>1. r.op = o /\ r.test = t /\ r.question = q
    BY DEF Idle
  <2> HIDE DEF r
  <2>2. Fresh(r)
    BY <1>7, <2>1 DEF Fresh
  <2> QED BY <1>1, <1>7, <2>1, <2>2 DEF r
<1>8. ASSUME NEW t \in Tests, NEW n, generate_questions(w, t, n) PROVE P
  <2> DEFINE r == [Idle EXCEPT !.op = "generate", !.test = t, !.count = n, !.used = Used,
                               !.metered = owner.quota # -1,
                               !.reset = IF owner.reset = month THEN -1 ELSE month]
  <2>1. /\ r.op = "generate" /\ r.test = t /\ r.count = n /\ r.used = Used
        /\ r.metered = (owner.quota # -1)
        /\ r.reset = IF owner.reset = month THEN -1 ELSE month
    BY DEF Idle
  <2>2. Begin(w, r) /\ Editable(t) /\ WithinLimit(n)
    BY <1>8 DEF generate_questions
  <2> HIDE DEF r
  <2>3. Fresh(r)
    BY <2>1, <2>2 DEF Fresh, WithinLimit
  <2> QED BY <1>1, <2>1, <2>2, <2>3
<1> QED
  <2>1. ASSUME NEW t \in Tests,
               \/ update_test(w, t) \/ publish_test(w, t) \/ unpublish_test(w, t)
               \/ archive_test(w, t)
        PROVE  P
    BY <1>4, <2>1 DEF update_test, publish_test, unpublish_test, archive_test
  <2>2. ASSUME NEW t \in Tests, create_question_in_test(w, t) \/ import_questions(w, t) PROVE P
    BY <1>6, <2>2 DEF create_question_in_test, import_questions
  <2>3. ASSUME NEW t \in Tests, NEW q \in Questions,
               update_question_in_test(w, t, q) \/ delete_question_from_test(w, t, q)
        PROVE  P
    BY <1>7, <2>3 DEF update_question_in_test, delete_question_from_test
  <2>4. P
    BY <1>2, <1>3, <1>5, <1>8, <2>1, <2>2, <2>3 DEF TestRequest, QuestionRequest
  <2> QED BY <2>4 DEF P

-------------------------------------------------------------------------------
(* The limit of the plan.  A request that has counted the tests and not inserted its own *)
(* yet holds room, and there is room for all of them but for those that began while      *)
(* others were served.                                                                   *)

Creating == {w \in Workers : requests[w].op = "create"}

Overshoot == IF overlapped THEN Cardinality(Workers) - 1 ELSE 0

Room == Cardinality(Owned) + Cardinality(Creating) <= MaxTests + (rasched + Overshoot)

LEMMA WorkersCount ==
  /\ Cardinality(Workers) \in Nat \ {0}
  /\ \A C \in SUBSET Workers : /\ IsFiniteSet(C) /\ Cardinality(C) \in Nat
                               /\ Cardinality(C) <= Cardinality(Workers)
  BY FS_EmptySet, FS_Subset, FS_CardinalityType, ConstantsAssumption

LEMMA OvershootGrows ==
  ASSUME Rows, overlapped => overlapped'
  PROVE  /\ Overshoot \in Nat /\ Overshoot' \in Nat /\ Overshoot <= Overshoot'
         /\ overlapped' => Overshoot' = Cardinality(Workers) - 1
<1>1. overlapped = TRUE \/ overlapped = FALSE
  BY DEF Rows, CountersOK
<1>2. overlapped = TRUE => overlapped'
  OBVIOUS
<1>3. Cardinality(Workers) - 1 \in Nat
  BY WorkersCount
<1> QED BY <1>1, <1>2, <1>3 DEF Overshoot

\* A set that has an element more than another at most.
LEMMA OneMore ==
  ASSUME NEW A, IsFiniteSet(A), NEW B, NEW x, B \subseteq A \cup {x}
  PROVE  Cardinality(B) \in Nat /\ Cardinality(B) <= Cardinality(A) + 1
<1>1. /\ IsFiniteSet(A \cup {x}) /\ Cardinality(A) \in Nat
      /\ Cardinality(A \cup {x}) = IF x \in A THEN Cardinality(A) ELSE Cardinality(A) + 1
  BY FS_AddElement, FS_CardinalityType
<1>2. IsFiniteSet(B) /\ Cardinality(B) <= Cardinality(A \cup {x})
  BY <1>1, FS_Subset
<1> QED BY <1>1, <1>2, FS_CardinalityType

LEMMA Counts ==
  /\ IsFiniteSet(Owned) /\ Cardinality(Owned) \in Nat
  /\ IsFiniteSet(Creating) /\ Cardinality(Creating) \in Nat
  /\ Cardinality(Creating)' \in Nat /\ Cardinality(Creating)' <= Cardinality(Workers)
  /\ Cardinality(Workers) \in Nat
<1>1. IsFiniteSet(Owned)
  BY FS_Subset, ConstantsAssumption DEF Owned
<1>2. Creating \in SUBSET Workers /\ Creating' \in SUBSET Workers
  BY DEF Creating
<1> QED BY <1>1, <1>2, WorkersCount, FS_CardinalityType

\* No test more and no request that counts: no less room.
LEMMA RoomKept ==
  ASSUME Rows, Room, overlapped => overlapped', rasched' \in Nat, rasched <= rasched',
         Owned' \subseteq Owned, Creating' \subseteq Creating
  PROVE  Room'
<1>1. /\ Overshoot \in Nat /\ Overshoot' \in Nat /\ Overshoot <= Overshoot'
  BY OvershootGrows
<1>2. Cardinality(Owned') <= Cardinality(Owned) /\ Cardinality(Owned') \in Nat
  BY Counts, FS_Subset, FS_CardinalityType
<1>3. Cardinality(Creating') <= Cardinality(Creating) /\ Cardinality(Creating') \in Nat
  BY Counts, FS_Subset, FS_CardinalityType
<1>4. rasched \in Nat /\ MaxTests \in Nat
  BY ConstantsAssumption DEF Rows, OwnerOK
<1> QED BY <1>1, <1>2, <1>3, <1>4, Counts DEF Room

LEMMA InitRoom == Init => Room
<1> SUFFICES ASSUME Init PROVE Room
  OBVIOUS
<1>1. Creating = {}
  BY DEF Init, Creating, Idle
<1>2. PICK t \in Tests : tests = [x \in Tests |-> IF x = t THEN "draft" ELSE "absent"]
  BY DEF Init
<1>3. Owned = {t}
  BY <1>2 DEF Owned, Exists, TestStatus
<1>4. Cardinality(Owned) = 1 /\ Cardinality(Creating) = 0
  BY <1>1, <1>3, FS_EmptySet, FS_Singleton
<1>5. rasched = 0 /\ Overshoot = 0
  BY DEF Init, Overshoot
<1> QED BY <1>4, <1>5, ConstantsAssumption DEF Room

LEMMA BeginKeepsRoom ==
  ASSUME Rows, Room, NEW w \in Workers, TestRequest(w) \/ QuestionRequest(w)
  PROVE  Room'
<1>1. PICK r : Begin(w, r) /\ (r.op = "create" => CheckTestQuota)
  BY Begun
<1>2. /\ UNCHANGED <<tests, rasched>> /\ requests[w].op = "idle"
      /\ overlapped' = (overlapped \/ Busy) /\ (overlapped => overlapped')
      /\ \A v \in Workers : requests'[v] = IF v = w THEN r ELSE requests[v]
  BY <1>1 DEF Begin, tables, history, Rows, RequestsOK
<1>3. Owned' = Owned
  BY <1>2 DEF Owned, Exists
<1>4. rasched \in Nat /\ MaxTests \in Nat
  BY ConstantsAssumption DEF Rows, OwnerOK
<1>5. CASE r.op # "create"
  <2>1. Creating' \subseteq Creating
    BY <1>2, <1>5 DEF Creating
  <2> QED BY <1>2, <1>3, <1>4, <2>1, RoomKept
<1>6. CASE r.op = "create"
  <2>1. Cardinality(Owned) < MaxTests
    BY <1>1, <1>6 DEF CheckTestQuota
  <2>2. Creating' \subseteq Creating \cup {w}
    BY <1>2 DEF Creating
  <2>3. Cardinality(Creating)' <= Overshoot' + 1 /\ Overshoot' \in Nat
    <3>1. Overshoot' \in Nat /\ (overlapped' => Overshoot' = Cardinality(Workers) - 1)
      BY <1>2, OvershootGrows
    <3>2. CASE Busy
      <4>1. overlapped'
        BY <1>2, <3>2
      <4> QED BY <3>1, <4>1, Counts
    <3>3. CASE ~Busy
      <4>1. Creating = {}
        BY <3>3 DEF Busy, Creating
      <4>2. Cardinality(Creating) = 0
        BY <4>1, FS_EmptySet
      <4>3. Cardinality(Creating') <= Cardinality(Creating) + 1
        BY <2>2, Counts, OneMore
      <4> QED BY <3>1, <4>2, <4>3, Counts
    <3> QED BY <3>2, <3>3
  <2> QED BY <1>2, <1>3, <1>4, <2>1, <2>3, Counts DEF Room
<1> QED BY <1>5, <1>6

LEMMA CommitKeepsRoom ==
  ASSUME Rows, Room, NEW w \in Workers, Commit(w) \/ Abort(w)
  PROVE  Room'
<1>1. /\ UNCHANGED overlapped
      /\ \A v \in Workers : requests'[v] = IF v = w THEN Idle ELSE requests[v]
  BY DEF Commit, Abort, CreateCommit, RaschCommit, StatusCommit, DeleteCommit, AddCommit,
         EditCommit, RemoveCommit, GenerateCommit, Serve, Rows, RequestsOK
<1>2. Creating' \subseteq Creating \ {w}
  BY <1>1 DEF Creating, Idle
<1>3. rasched \in Nat /\ MaxTests \in Nat /\ Overshoot \in Nat /\ Overshoot' = Overshoot
  BY <1>1, ConstantsAssumption, OvershootGrows DEF Rows, OwnerOK, Overshoot
<1>4. ASSUME InsertTest(w)
      PROVE  Cardinality(Owned') \in Nat /\ Cardinality(Owned') <= Cardinality(Owned) + 1
  <2>1. PICK t \in Tests : tests' = [tests EXCEPT ![t] = "draft"]
    BY <1>4 DEF InsertTest
  <2>2. Owned' \subseteq Owned \cup {t}
    BY <2>1 DEF Owned, Exists, Rows, TablesOK
  <2> QED BY <2>2, Counts, OneMore
<1>5. ASSUME CreateCommit(w) PROVE Room'
  <2>1. w \in Creating /\ UNCHANGED rasched /\ InsertTest(w)
    BY <1>5 DEF CreateCommit, Serve, Creating
  <2>2. IsFiniteSet(Creating \ {w}) /\ Cardinality(Creating \ {w}) = Cardinality(Creating) - 1
    BY <2>1, Counts, FS_RemoveElement
  <2>3. Cardinality(Creating') <= Cardinality(Creating) - 1 /\ Cardinality(Creating') \in Nat
    BY <1>2, <2>2, Counts, FS_Subset
  <2> QED BY <1>3, <1>4, <2>1, <2>3, Counts DEF Room
<1>6. ASSUME RaschCommit(w) PROVE Room'
  <2>1. rasched' = rasched + 1 /\ InsertTest(w)
    BY <1>6 DEF RaschCommit
  <2>2. Cardinality(Creating') <= Cardinality(Creating) /\ Cardinality(Creating') \in Nat
    BY <1>2, Counts, FS_Subset
  <2> QED BY <1>3, <1>4, <2>1, <2>2, Counts DEF Room
<1>7. ASSUME StatusCommit(w) \/ DeleteCommit(w) PROVE Room'
  <2>1. PICK t, s : /\ tests' = [tests EXCEPT ![t] = s] /\ UNCHANGED rasched
                    /\ Exists(t) \/ s = "deleted"
    BY <1>7 DEF StatusCommit, DeleteCommit, history
  <2>2. Owned' \subseteq Owned
    BY <2>1 DEF Owned, Exists, TestStatus, Rows, TablesOK
  <2> QED BY <1>1, <1>2, <1>3, <2>1, <2>2, RoomKept
<1>8. ASSUME \/ AddCommit(w) \/ EditCommit(w) \/ RemoveCommit(w) \/ GenerateCommit(w)
             \/ Abort(w)
      PROVE  Room'
  <2>1. UNCHANGED <<tests, rasched>>
    BY <1>8 DEF AddCommit, EditCommit, RemoveCommit, GenerateCommit, Abort, InsertQuestions,
                history, tables
  <2>2. Owned' = Owned
    BY <2>1 DEF Owned, Exists
  <2> QED BY <1>1, <1>2, <1>3, <2>1, <2>2, RoomKept
<1> QED BY <1>5, <1>6, <1>7, <1>8 DEF Commit

LEMMA NextKeepsRoom == Rows /\ Room /\ [Next]_vars => Room'
<1> SUFFICES ASSUME Rows, Room, [Next]_vars PROVE Room'
  OBVIOUS
<1>1. ASSUME (\E k \in Quotas : SetQuota(k)) \/ NextMonth \/ UNCHANGED vars PROVE Room'
  <2>1. UNCHANGED <<tests, rasched, requests>>
        /\ (overlapped' = (overlapped \/ Busy) \/ overlapped' = overlapped)
    BY <1>1 DEF SetQuota, NextMonth, vars, tables, history
  <2>2. Owned' = Owned /\ Creating' = Creating
    BY <2>1 DEF Owned, Exists, Creating
  <2>3. rasched' \in Nat /\ rasched <= rasched'
    BY <2>1 DEF Rows, OwnerOK
  <2>4. overlapped => overlapped'
    BY <2>1
  <2> QED BY <2>2, <2>3, <2>4, RoomKept
<1> QED BY <1>1, BeginKeepsRoom, CommitKeepsRoom DEF Next

\* However many requests count the tests at the same time, an owner has no more of them
\* than the limit, those generate_rasch_test has added and one for every further worker;
\* and none of the latter unless requests overlapped (TestService._check_test_quota).
THEOREM LimitHolds == Spec => []TestLimit
<1>1. Rows /\ Room => TestLimit
  <2> SUFFICES ASSUME Rows, Room PROVE TestLimit
    OBVIOUS
  <2>1. rasched \in Nat /\ MaxTests \in Nat /\ Overshoot \in Nat
    <3>1. overlapped = TRUE \/ overlapped = FALSE
      BY DEF Rows, CountersOK
    <3> QED BY <3>1, WorkersCount, ConstantsAssumption DEF Overshoot, Rows, OwnerOK
  <2> QED BY <2>1, Counts DEF Room, TestLimit, Overshoot
<1> QED BY <1>1, InitRoom, NextKeepsRoom, RowsInvariant, PTL DEF Spec

-------------------------------------------------------------------------------
(* Requests that are served one at a time.                                 *)

Metered == generated = Used /\ \E k \in Quotas \cup {0} : generated <= k

Serial ==
    ~overlapped =>
        /\ \A v, w \in Workers : requests[v].op # "idle" /\ requests[w].op # "idle" => v = w
        /\ \A w \in Workers : Fresh(requests[w])
        /\ Metered

LEMMA InitSerial == Init => Serial
<1> SUFFICES ASSUME Init PROVE Serial
  OBVIOUS
<1>1. \A w \in Workers : requests[w].op = "idle"
  BY DEF Init, Idle
<1>2. generated = 0 /\ Used = 0
  BY DEF Init, Used
<1>3. Metered
  BY <1>2 DEF Metered
<1> QED BY <1>1, <1>3 DEF Serial, Fresh

LEMMA BeginKeepsSerial ==
  ASSUME Rows, Serial, NEW w \in Workers, TestRequest(w) \/ QuestionRequest(w)
  PROVE  Serial'
<1>1. PICK r : Begin(w, r) /\ Fresh(r)
  BY Begun
<1> SUFFICES ASSUME ~overlapped'
             PROVE  /\ \A v, x \in Workers : requests'[v].op # "idle" /\ requests'[x].op # "idle"
                                                => v = x
                    /\ \A v \in Workers : Fresh(requests[v])'
                    /\ Metered'
  BY DEF Serial
<1>2. /\ UNCHANGED <<tests, links, questions, owner, month, generated>>
      /\ \A v \in Workers : requests'[v] = IF v = w THEN r ELSE requests[v]
      /\ overlapped' = (overlapped \/ Busy)
  BY <1>1 DEF Begin, tables, history, Rows, RequestsOK
<1>3. ~overlapped /\ ~Busy
  BY <1>2
<1>4. \A v \in Workers : v # w => requests'[v].op = "idle"
  BY <1>2, <1>3 DEF Busy
<1>5. Fresh(r)'
  BY <1>1, <1>2 DEF Fresh, Editable, Exists, Used
<1>6. ASSUME NEW v \in Workers PROVE Fresh(requests[v])'
  <2>1. CASE v = w
    BY <1>2, <1>5, <2>1
  <2>2. CASE v # w
    BY <1>4, <2>2 DEF Fresh
  <2> QED BY <2>1, <2>2
<1>7. Metered'
  BY <1>2, <1>3 DEF Serial, Metered, Used
<1> QED BY <1>4, <1>6, <1>7

\* The count after a generation that was served alone is what was generated this month.
LEMMA GenerateMeters ==
  ASSUME Rows, Serial, ~overlapped, NEW w \in Workers, GenerateCommit(w)
  PROVE  Metered'
<1>1. PICK r : r = requests[w]
  OBVIOUS
<1>2. r \in Request /\ r.op = "generate" /\ Fresh(r)
  BY <1>1 DEF GenerateCommit, Serve, Rows, RequestsOK, Serial
<1>3. /\ owner' = IF r.metered THEN Counted(r) ELSE owner
      /\ generated' = IF r.metered THEN generated + r.count ELSE generated
      /\ month' = month
  BY <1>1 DEF GenerateCommit, Serve
<1>4. generated = Used /\ generated \in Nat /\ \E k \in Quotas \cup {0} : generated <= k
  BY DEF Serial, Metered, Rows, OwnerOK
<1>5. CASE ~r.metered
  BY <1>3, <1>4, <1>5 DEF Metered, Used
<1>6. CASE r.metered
  <2>1. r.used = Used /\ r.count <= owner.quota - Used
        /\ r.reset = IF owner.reset = month THEN -1 ELSE month
    BY <1>2, <1>6 DEF Fresh
  <2>2. owner \in Owner /\ month \in Nat /\ r.count \in Nat /\ r.used \in Nat
    BY <1>2, MonthOK DEF Rows, OwnerOK, Request
  <2>3. owner'.used = r.used + r.count
        /\ owner'.reset = IF r.reset = -1 THEN owner.reset ELSE r.reset
    <3>1. Counted(r).used = r.used + r.count
          /\ Counted(r).reset = IF r.reset = -1 THEN owner.reset ELSE r.reset
      BY <2>2 DEF Counted, Owner
    <3> QED BY <1>3, <1>6, <3>1
  <2>4. owner'.reset = month
    <3>1. month # -1
      BY <2>2
    <3> QED BY <2>1, <2>3, <3>1
  <2>5. Used' = generated' /\ generated' = generated + r.count
    BY <1>3, <1>4, <1>6, <2>1, <2>3, <2>4 DEF Used
  <2>6. owner.quota \in Quotas /\ owner.quota \in Int
    BY <2>2, ConstantsAssumption DEF Owner
  <2>7. generated' <= owner.quota
    BY <1>4, <2>1, <2>2, <2>5, <2>6
  <2> QED BY <2>5, <2>6, <2>7 DEF Metered
<1> QED BY <1>5, <1>6

LEMMA CommitKeepsSerial ==
  ASSUME Rows, Serial, NEW w \in Workers, Commit(w) \/ Abort(w)
  PROVE  Serial'
<1>1. /\ UNCHANGED <<overlapped, month>> /\ requests[w].op # "idle"
      /\ \A v \in Workers : requests'[v] = IF v = w THEN Idle ELSE requests[v]
  BY DEF Commit, Abort, CreateCommit, RaschCommit, StatusCommit, DeleteCommit, AddCommit,
         EditCommit, RemoveCommit, GenerateCommit, Serve, Rows, RequestsOK
<1> SUFFICES ASSUME ~overlapped'
             PROVE  /\ \A v, x \in Workers : requests'[v].op # "idle" /\ requests'[x].op # "idle"
                                                => v = x
                    /\ \A v \in Workers : Fresh(requests[v])'
                    /\ Metered'
  BY DEF Serial
<1>2. ~overlapped
  BY <1>1
<1>3. \A v \in Workers : requests'[v].op = "idle"
  BY <1>1, <1>2 DEF Serial, Idle
<1>4. Metered'
  <2>1. CASE GenerateCommit(w)
    BY <1>2, <2>1, GenerateMeters
  <2>2. CASE UNCHANGED <<owner, generated>>
    BY <1>1, <1>2, <2>2 DEF Serial, Metered, Used
  <2>3. GenerateCommit(w) \/ UNCHANGED <<owner, generated>>
    BY DEF Commit, Abort, CreateCommit, RaschCommit, StatusCommit, DeleteCommit, AddCommit,
           EditCommit, RemoveCommit, InsertTest, tables, history
  <2> QED BY <2>1, <2>2, <2>3
<1> QED BY <1>3, <1>4 DEF Fresh

LEMMA NextKeepsSerial == Rows /\ Serial /\ [Next]_vars => Serial'
<1> SUFFICES ASSUME Rows, Serial, [Next]_vars PROVE Serial'
  OBVIOUS
<1>1. ASSUME UNCHANGED requests, ~overlapped' => ~overlapped /\ ~Busy /\ Metered' PROVE Serial'
  <2>1. ~overlapped' => \A v \in Workers : requests'[v].op = "idle"
    BY <1>1 DEF Busy
  <2> QED BY <1>1, <2>1 DEF Serial, Fresh
<1>2. ASSUME NEW k \in Quotas, SetQuota(k) PROVE Serial'
  <2>1. /\ overlapped' = (overlapped \/ Busy) /\ UNCHANGED <<requests, month, generated>>
        /\ owner' = [owner EXCEPT !.quota = k]
    BY <1>2 DEF SetQuota, history
  <2>2. owner'.reset = owner.reset /\ owner'.used = owner.used
    BY <2>1 DEF Rows, OwnerOK, Owner
  <2>3. ASSUME ~overlapped' PROVE ~overlapped /\ ~Busy /\ Metered'
    BY <2>1, <2>2, <2>3 DEF Serial, Metered, Used
  <2> QED BY <1>1, <2>1, <2>3
<1>3. ASSUME NextMonth PROVE Serial'
  <2>1. /\ overlapped' = (overlapped \/ Busy) /\ UNCHANGED <<requests, owner>>
        /\ month' = month + 1 /\ generated' = 0
    BY <1>3 DEF NextMonth, tables
  <2>2. owner.reset # month'
    <3>1. owner.reset <= month /\ owner.reset \in Nat /\ month \in Nat
      BY MonthOK DEF Rows, OwnerOK, Owner
    <3> QED BY <2>1, <3>1
  <2>3. Metered'
    BY <2>1, <2>2 DEF Metered, Used
  <2> QED BY <1>1, <2>1, <2>3
<1>4. CASE UNCHANGED vars
  <2>1. UNCHANGED <<tests, links, questions, owner, month, requests, overlapped, generated>>
    BY <1>4 DEF vars, tables, history
  <2> QED BY <2>1 DEF Serial, Fresh, Metered, Used, Editable, Exists
<1> QED BY <1>2, <1>3, <1>4, BeginKeepsSerial, CommitKeepsSerial DEF Next

LEMMA SerialInvariant == Spec => [](Rows /\ Serial)
<1> DEFINE Inv == Rows /\ Serial
<1>1. Init => Inv
  BY InitRows, InitSerial
<1>2. Inv /\ [Next]_vars => Inv'
  BY NextKeepsRows, NextKeepsSerial
<1> QED BY <1>1, <1>2, PTL DEF Spec

\* While requests, the change of month and the administrator do not meet, the count on the
\* owner's row is what was generated this month, and within a limit the owner may have had
\* (AIService.generate_questions).
THEOREM MonthlyUseCounted == Spec => []MonthlyUse
<1>1. Rows /\ Serial => MonthlyUse
  BY DEF Serial, Metered, Used, MonthlyUse
<1> QED BY <1>1, SerialInvariant, PTL

\* Together: however creations overlap the plan bounds the tests of the owner, and while
\* nothing overlaps also what is generated in a month (TestService, AIService).
THEOREM PlanKept == Spec => []WithinPlan
  BY LimitHolds, MonthlyUseCounted, PTL DEF WithinPlan

-------------------------------------------------------------------------------
(* Tests that are published.                                               *)

\* What a step may do to the questions of a test that is and stays published.
LockedStep ==
    \A t \in Tests :
        tests[t] = "active" /\ tests'[t] = "active" /\ ~overlapped' =>
            /\ links'[t] = links[t]
            /\ \A q \in links[t] : questions'[q] # questions[q] => SharedWithEditable(t, q)

\* New questions go to a test that is not published, and none is a question of another.
LEMMA InsertQuestionsElsewhere ==
  ASSUME Rows, NEW d \in Tests, NEW n, InsertQuestions(d, n), NEW t \in Tests \ {d}
  PROVE  links'[t] = links[t] /\ \A q \in links[t] : questions'[q] = questions[q]
<1>1. PICK S \in SUBSET Unused :
         /\ questions' = [q \in Questions |-> IF q \in S THEN [questions[q] EXCEPT !.edition = 1]
                                              ELSE questions[q]]
         /\ links' = [links EXCEPT ![d] = @ \cup S]
  BY DEF InsertQuestions, kSubset
<1>2. ASSUME NEW q \in links[t] PROVE q \in Questions /\ q \notin S
  <2>1. q \in Bank
    BY DEF Rows, TablesOK, LinksOK
  <2> QED BY <2>1 DEF Bank, Live, Unused
<1>3. \A q \in links[t] : questions'[q] = questions[q]
  BY <1>1, <1>2
<1>4. links'[t] = links[t]
  BY <1>1 DEF Rows, TablesOK
<1> QED BY <1>3, <1>4

LEMMA StepsLock ==
  ASSUME Rows, Serial, [Next]_vars
  PROVE  LockedStep
<1> SUFFICES ASSUME NEW t \in Tests, tests[t] = "active", tests'[t] = "active", ~overlapped'
             PROVE  /\ links'[t] = links[t]
                    /\ \A q \in links[t] : questions'[q] # questions[q] =>
                                               SharedWithEditable(t, q)
  BY DEF LockedStep
<1> DEFINE P == /\ links'[t] = links[t]
                /\ \A q \in links[t] : questions'[q] # questions[q] => SharedWithEditable(t, q)
<1>1. ASSUME UNCHANGED <<links, questions>> PROVE P
  BY <1>1
<1>2. ASSUME links'[t] = links[t], \A q \in links[t] : questions'[q] = questions[q] PROVE P
  BY <1>2
<1>3. ASSUME NEW w \in Workers, Commit(w) PROVE ~overlapped /\ Fresh(requests[w])
  BY <1>3 DEF Serial, Commit, CreateCommit, RaschCommit, StatusCommit, DeleteCommit,
              AddCommit, EditCommit, RemoveCommit, GenerateCommit, Serve
<1>4. ASSUME NEW w \in Workers, CreateCommit(w) \/ RaschCommit(w) PROVE P
  <2>1. PICK d \in Tests : /\ tests[d] = "absent" /\ UNCHANGED questions
                           /\ \E S : links' = [links EXCEPT ![d] = S]
    BY <1>4 DEF CreateCommit, RaschCommit, InsertTest
  <2>2. links'[t] = links[t]
    BY <2>1 DEF Rows, TablesOK
  <2> QED BY <2>1, <2>2
<1>5. ASSUME NEW w \in Workers, StatusCommit(w) \/ Abort(w) PROVE P
  BY <1>1, <1>5 DEF StatusCommit, Abort, tables
<1>6. ASSUME NEW w \in Workers, DeleteCommit(w) PROVE P
  <2>1. PICK d : /\ tests' = [tests EXCEPT ![d] = "deleted"]
                 /\ links' = [links EXCEPT ![d] = {}] /\ UNCHANGED questions
    BY <1>6 DEF DeleteCommit
  <2>2. d # t
    BY <2>1 DEF Rows, TablesOK
  <2>3. links'[t] = links[t]
    BY <2>1, <2>2 DEF Rows, TablesOK
  <2> QED BY <2>1, <2>3
<1>7. ASSUME NEW w \in Workers, AddCommit(w) \/ GenerateCommit(w) PROVE P
  <2>1. PICK d, n : d = requests[w].test /\ n = requests[w].count
    OBVIOUS
  <2>2. InsertQuestions(d, n) /\ d \in Tests /\ requests[w].op \in {"add", "generate"}
    BY <1>7, <2>1 DEF AddCommit, GenerateCommit, Serve, Rows, RequestsOK, RequestOK
  <2>3. Editable(d)
    BY <1>3, <1>7, <2>1, <2>2 DEF Commit, Fresh
  <2>4. d # t
    BY <2>3 DEF Editable
  <2>5. links'[t] = links[t] /\ \A q \in links[t] : questions'[q] = questions[q]
    BY <2>2, <2>4, InsertQuestionsElsewhere
  <2> QED BY <1>2, <2>5
<1>8. ASSUME NEW w \in Workers, EditCommit(w) PROVE P
  <2>1. PICK d, q : d = requests[w].test /\ q = requests[w].question
    OBVIOUS
  <2>2. d \in Tests /\ q \in Questions /\ requests[w].op = "edit"
    BY <1>8, <2>1 DEF EditCommit, Serve, Rows, RequestsOK, RequestOK
  <2>3. Editable(d) /\ q \in links[d]
    BY <1>3, <1>8, <2>1, <2>2 DEF Commit, Fresh
  <2>4. d # t
    BY <2>3 DEF Editable
  <2>5. SharedWithEditable(t, q)
    BY <2>2, <2>3, <2>4 DEF SharedWithEditable
  <2>6. UNCHANGED links /\ \A x \in Questions : x # q => questions'[x] = questions[x]
    BY <1>8, <2>1 DEF EditCommit, Rows, TablesOK
  <2>7. links[t] \subseteq Questions
    BY DEF Rows, TablesOK
  <2> QED BY <2>5, <2>6, <2>7
<1>9. ASSUME NEW w \in Workers, RemoveCommit(w) PROVE P
  <2>1. PICK d, q, remaining : /\ d = requests[w].test /\ q = requests[w].question
                               /\ remaining = {x \in Tests \ {d} : q \in links[x]}
    OBVIOUS
  <2>2. d \in Tests /\ q \in Questions /\ requests[w].op = "remove"
    BY <1>9, <2>1 DEF RemoveCommit, Serve, Rows, RequestsOK, RequestOK
  <2>3. Editable(d)
    BY <1>3, <1>9, <2>1, <2>2 DEF Commit, Fresh
  <2>4. d # t
    BY <2>3 DEF Editable
  <2>5. /\ links' = [links EXCEPT ![d] = @ \ {q}]
        /\ questions' = [questions EXCEPT ![q].deleted = @ \/ remaining = {}]
    BY <1>9, <2>1 DEF RemoveCommit
  <2>6. links'[t] = links[t] /\ \A x \in Questions : x # q => questions'[x] = questions[x]
    BY <2>4, <2>5 DEF Rows, TablesOK
  <2>7. ASSUME q \in links[t] PROVE questions'[q] = questions[q]
    <3>1. remaining # {}
      BY <2>1, <2>4, <2>7
    <3>2. questions[q] \in [edition : 0..MaxEditions, deleted : BOOLEAN]
      BY <2>2 DEF Rows, TablesOK, Question
    <3>3. questions' = [questions EXCEPT ![q].deleted = (@ = TRUE)]
      BY <2>2, <2>5, <3>1, <3>2
    <3>4. questions'[q] = [questions[q] EXCEPT !.deleted = (@ = TRUE)]
      BY <2>2, <3>3 DEF Rows, TablesOK
    <3>5. [questions[q] EXCEPT !.deleted = (@ = TRUE)] = questions[q]
      BY <3>2
    <3> QED BY <3>4, <3>5
  <2>8. links[t] \subseteq Questions
    BY DEF Rows, TablesOK
  <2>9. \A x \in links[t] : questions'[x] = questions[x]
    BY <2>6, <2>7, <2>8
  <2> QED BY <1>2, <2>6, <2>9
<1>10. ASSUME NEW w \in Workers, TestRequest(w) \/ QuestionRequest(w) PROVE P
  <2>1. PICK r : Begin(w, r)
    BY <1>10, Begun
  <2> QED BY <1>1, <2>1 DEF Begin, tables
<1>11. ASSUME (\E k \in Quotas : SetQuota(k)) \/ NextMonth \/ UNCHANGED vars PROVE P
  BY <1>1, <1>11 DEF SetQuota, NextMonth, vars, tables
<1> HIDE DEF P
<1>12. P
  BY <1>4, <1>5, <1>6, <1>7, <1>8, <1>9, <1>10, <1>11 DEF Next, Commit
<1> QED BY <1>12 DEF P

\* While a test stays published its questions stay linked to it, and unedited, unless
\* requests overlapped or a test that is not published shares the question ("Test is
\* published and cannot be modified", tests/service.py:61).
THEOREM PublishedStaysLocked == Spec => PublishedIsLocked
<1>1. (Rows /\ Serial) /\ [Next]_vars => [LockedStep]_vars
  BY StepsLock
<1>2. [][LockedStep]_vars => PublishedIsLocked
  BY PTL DEF PublishedIsLocked, LockedStep
<1>3. Spec => [][LockedStep]_vars
  BY <1>1, SerialInvariant, PTL DEF Spec
<1> QED BY <1>2, <1>3, PTL
================================================================================
