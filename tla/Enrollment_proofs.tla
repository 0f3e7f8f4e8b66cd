--------------------------- MODULE Enrollment_proofs ---------------------------
(***************************************************************************)
(* Theorems about Enrollment, for any number of exams, links, users and    *)
(* overlapping requests, and every limit.                                  *)
(***************************************************************************)
EXTENDS Enrollment, FiniteSetTheorems, TLAPS

-------------------------------------------------------------------------------
(* Types, and what belongs to what.                                        *)

\* A link that is there belongs to an exam, and applications by a link are to its exam.
LinksOK ==
    /\ \A l \in Links : IF apply_links[l].state = "present"
                        THEN apply_links[l].exam \in Exams
                        ELSE apply_links[l].exam = None /\ ~apply_links[l].is_active
    /\ \A e \in Exams, u \in Users :
          applicants[e][u].link # None => /\ Applied(e, u)
                                          /\ apply_links[applicants[e][u].link].exam = e

\* What a request in flight may rely on although its rows move underneath it.
RequestOK(r) ==
    /\ r.op \in {"publish", "add", "apply", "decide"} => r.exam \in Exams
    /\ r.op \in {"add", "apply", "decide"} => r.user \in Users
    /\ r.op = "apply" =>
          /\ exams[r.exam] # "absent"
          /\ r.link # None /\ Exists(r.exam) => apply_links[r.link].exam = r.exam

RequestsOK == \A w \in Workers : RequestOK(requests[w])

\* TypeOK, with the tables apart from the rest.
TablesOK ==
    /\ exams \in [Exams -> ExamStatus \cup {"absent", "deleted"}]
    /\ apply_links \in [Links -> ApplyLink]
    /\ applicants \in [Exams -> [Users -> Applicant]]
    /\ participants \in [Exams -> SUBSET Users] /\ seated \in [Exams -> SUBSET Users]
    /\ \A e \in Exams : seated[e] \subseteq participants[e]
    /\ \A e \in Exams : ~Exists(e) =>
          /\ participants[e] = {} /\ \A u \in Users : ~Applied(e, u)
          /\ \A l \in Links : apply_links[l].exam # e
    /\ LinksOK

CountersOK == served \in 0..MaxServed /\ overlapped \in BOOLEAN

Rows == TablesOK /\ requests \in [Workers -> Request] /\ RequestsOK /\ CountersOK

LEMMA RowsType == Rows => TypeOK
  BY DEF Rows, TablesOK, CountersOK, TypeOK

\* An exam, once inserted, is deleted at most, and its links stay its links.
RowsAdvance ==
    /\ \A e \in Exams : exams[e] # "absent" => /\ exams'[e] # "absent"
                                               /\ Exists(e)' => Exists(e)
    /\ \A e \in Exams, l \in Links :
          apply_links[l].exam = e /\ Exists(e)' => apply_links'[l].exam = e

LEMMA IdleOK == Idle \in Request /\ RequestOK(Idle) /\ RequestOK(Idle)'
  BY DEF Idle, Request, RequestOK, Decision

LEMMA RequestSurvives ==
  ASSUME Rows, RowsAdvance, NEW r \in Request, RequestOK(r)
  PROVE  RequestOK(r)'
  BY DEF RequestOK, RowsAdvance, Request

\* The requests after a step that changes at most one of them.
LEMMA RequestsStep ==
  ASSUME Rows, RowsAdvance, NEW w \in Workers, NEW r \in Request, RequestOK(r)',
         requests' = [requests EXCEPT ![w] = r] \/ UNCHANGED requests
  PROVE  requests' \in [Workers -> Request] /\ RequestsOK'
<1>1. requests' \in [Workers -> Request]
  BY DEF Rows
<1>2. ASSUME NEW v \in Workers PROVE RequestOK(requests[v])'
  <2>1. CASE requests'[v] = r
    BY <2>1
  <2>2. CASE requests'[v] = requests[v]
    <3>1. requests[v] \in Request /\ RequestOK(requests[v])
      BY DEF Rows, RequestsOK
    <3>2. RequestOK(requests[v])'
      <4> DEFINE q == requests[v]
      <4>1. \A x \in Request : RequestOK(x) => RequestOK(x)'
        BY RequestSurvives
      <4> QED BY <2>2, <3>1, <4>1 DEF RequestOK
    <3> QED BY <2>2, <3>2
  <2> QED BY <2>1, <2>2 DEF Rows
<1> QED BY <1>1, <1>2 DEF RequestsOK

LEMMA InitRows == Init => Rows
<1> SUFFICES ASSUME Init PROVE Rows
  OBVIOUS
<1>1. Idle \in Request /\ RequestOK(Idle)
  BY IdleOK
<1>2. exams \in [Exams -> ExamStatus \cup {"absent", "deleted"}]
  BY DEF Init, ExamStatus
<1>3. /\ apply_links \in [Links -> ApplyLink]
      /\ \A l \in Links : apply_links[l] = NoLink
  BY DEF Init, NoLink, ApplyLink
<1>4. /\ applicants \in [Exams -> [Users -> Applicant]]
      /\ \A e \in Exams, u \in Users : applicants[e][u] = NoApplicant
  BY DEF Init, NoApplicant, Applicant
<1>5. LinksOK
  BY <1>3, <1>4 DEF LinksOK, NoLink, NoApplicant
<1>6. TablesOK
  <2>1. \A e \in Exams, u \in Users : ~Applied(e, u)
    BY <1>4 DEF Applied, NoApplicant
  <2>2. \A e \in Exams, l \in Links : apply_links[l].exam # e
    BY <1>3, ConstantsAssumption DEF NoLink
  <2>3. /\ participants \in [Exams -> SUBSET Users] /\ seated \in [Exams -> SUBSET Users]
        /\ \A e \in Exams : participants[e] = {} /\ seated[e] = {}
    BY DEF Init
  <2> QED BY <1>2, <1>3, <1>4, <1>5, <2>1, <2>2, <2>3 DEF TablesOK
<1>7. CountersOK
  <2>1. served \in 0..MaxServed
    BY ConstantsAssumption DEF Init
  <2>2. overlapped \in BOOLEAN
    BY DEF Init
  <2> QED BY <2>1, <2>2 DEF CountersOK
<1> QED BY <1>1, <1>6, <1>7 DEF Init, Rows, RequestsOK

-------------------------------------------------------------------------------
(* Requests that only read.                                                *)

LEMMA TablesKept ==
  ASSUME Rows, UNCHANGED tables
  PROVE  TablesOK' /\ RowsAdvance
<1>1. LinksOK'
  BY DEF Rows, TablesOK, LinksOK, tables, Applied
<1>2. TablesOK'
  BY <1>1 DEF Rows, TablesOK, tables, Exists, Applied
<1>3. RowsAdvance
  BY DEF RowsAdvance, Exists, tables
<1> QED BY <1>2, <1>3

\* Tables that are in order and rows that advance keep everything in order.
LEMMA RowsStep ==
  ASSUME Rows, RowsAdvance, TablesOK', CountersOK', NEW w \in Workers, NEW r \in Request,
         RequestOK(r)', requests' = [requests EXCEPT ![w] = r] \/ UNCHANGED requests
  PROVE  Rows'
  BY RequestsStep DEF Rows

LEMMA CountersStep ==
  ASSUME Rows, NEW w \in Workers, Come(w) \/ UNCHANGED <<served, overlapped>>
  PROVE  CountersOK'
<1>1. served' \in 0..MaxServed
  BY ConstantsAssumption DEF Rows, CountersOK, Come
<1>2. overlapped' \in BOOLEAN
  BY ZenonT(30) DEF Rows, CountersOK, Come, Busy
<1> QED BY <1>1, <1>2 DEF CountersOK

LEMMA BeginKeeps ==
  ASSUME Rows, NEW w \in Workers, NEW r \in Request, RequestOK(r), Begin(w, r)
  PROVE  Rows'
<1>1. TablesOK' /\ RowsAdvance /\ CountersOK'
  BY TablesKept, CountersStep DEF Begin
<1>2. RequestOK(r)'
  BY <1>1, RequestSurvives
<1> QED BY <1>1, <1>2, RowsStep DEF Begin

\* A step at once, or one that ends the request.
LEMMA WriteKeeps ==
  ASSUME Rows, RowsAdvance, TablesOK', NEW w \in Workers,
         AtOnce(w) \/ (Finish(w) /\ UNCHANGED <<served, overlapped>>)
  PROVE  Rows'
<1>1. CountersOK'
  BY CountersStep DEF AtOnce
<1> QED BY <1>1, IdleOK, RowsStep DEF AtOnce, Finish

LEMMA ReadsKeep ==
  ASSUME Rows, NEW w \in Workers,
         \/ create_exam(w) \/ bulk_review(w) \/ ReviewRead(w) \/ ReviewSkip(w) \/ Abort(w)
         \/ \E e \in Exams : \/ duplicate_exam(w, e) \/ publish_exam(w, e)
                             \/ \E u \in Users : \/ add_participant(w, e, u)
                                                \/ apply_direct(w, e, u)
                                                \/ review_applicant(w, e, u)
         \/ \E l \in Links, u \in Users : apply_by_link(w, l, u)
  PROVE  Rows'
<1> USE DEF Decision
<1>1. ASSUME create_exam(w) PROVE Rows'
  <2>1. [Idle EXCEPT !.op = "create"] \in Request
    BY ZenonT(30), IdleOK DEF Idle, Request
  <2>2. RequestOK([Idle EXCEPT !.op = "create"])
    BY DEF RequestOK, Idle
  <2> QED BY <1>1, <2>1, <2>2, BeginKeeps DEF create_exam
<1>2. ASSUME bulk_review(w) PROVE Rows'
  <2>1. PICK d \in Decision, S \in SUBSET Applications :
          Begin(w, [Idle EXCEPT !.op = "review", !.to = d, !.todo = S])
    BY <1>2 DEF bulk_review
  <2>2. [Idle EXCEPT !.op = "review", !.to = d, !.todo = S] \in Request
    <3>1. S \subseteq Exams \X Users
      BY DEF Applications
    <3> QED BY ZenonT(30), <3>1 DEF Idle, Request
  <2>3. RequestOK([Idle EXCEPT !.op = "review", !.to = d, !.todo = S])
    BY DEF RequestOK, Idle
  <2> QED BY <2>1, <2>2, <2>3, BeginKeeps
<1>3. ASSUME NEW e \in Exams, publish_exam(w, e) PROVE Rows'
  <2>1. [Idle EXCEPT !.op = "publish", !.exam = e] \in Request
    BY ZenonT(30) DEF Idle, Request
  <2>2. RequestOK([Idle EXCEPT !.op = "publish", !.exam = e])
    BY DEF RequestOK, Idle
  <2> QED BY <1>3, <2>1, <2>2, BeginKeeps DEF publish_exam
<1>4. ASSUME NEW e \in Exams, NEW u \in Users, add_participant(w, e, u) PROVE Rows'
  <2>1. [Idle EXCEPT !.op = "add", !.exam = e, !.user = u] \in Request
    BY ZenonT(30) DEF Idle, Request
  <2>2. RequestOK([Idle EXCEPT !.op = "add", !.exam = e, !.user = u])
    BY DEF RequestOK, Idle
  <2> QED BY <1>4, <2>1, <2>2, BeginKeeps DEF add_participant
<1>5. ASSUME NEW e \in Exams, NEW u \in Users, apply_direct(w, e, u) PROVE Rows'
  <2>1. [Idle EXCEPT !.op = "apply", !.exam = e, !.user = u] \in Request
    BY ZenonT(30) DEF Idle, Request
  <2>2. RequestOK([Idle EXCEPT !.op = "apply", !.exam = e, !.user = u])
    BY <1>5 DEF RequestOK, Idle, apply_direct
  <2> QED BY <1>5, <2>1, <2>2, BeginKeeps DEF apply_direct
<1>6. ASSUME NEW e \in Exams, NEW u \in Users, review_applicant(w, e, u) PROVE Rows'
  <2>1. PICK d \in Decision :
          Begin(w, [Idle EXCEPT !.op = "review", !.to = d, !.todo = {<<e, u>>}])
    BY <1>6 DEF review_applicant
  <2>2. [Idle EXCEPT !.op = "review", !.to = d, !.todo = {<<e, u>>}] \in Request
    <3> DEFINE S == {<<e, u>>}
    <3>1. S \in SUBSET (Exams \X Users)
      OBVIOUS
    <3> HIDE DEF S
    <3>2. [Idle EXCEPT !.op = "review", !.to = d, !.todo = S] \in Request
      BY ZenonT(30), <3>1 DEF Idle, Request
    <3> QED BY <3>2 DEF S
  <2>3. RequestOK([Idle EXCEPT !.op = "review", !.to = d, !.todo = {<<e, u>>}])
    BY DEF RequestOK, Idle
  <2> QED BY <2>1, <2>2, <2>3, BeginKeeps
<1>7. ASSUME NEW l \in Links, NEW u \in Users, apply_by_link(w, l, u) PROVE Rows'
  <2> DEFINE e == apply_links[l].exam
  <2> DEFINE r == [Idle EXCEPT !.op = "apply", !.exam = e, !.user = u, !.link = l,
                               !.seen = apply_links[l].use_count]
  <2>1. e \in Exams /\ Exists(e)
    <3>1. apply_links[l].is_active
      BY <1>7 DEF apply_by_link
    <3>2. e \in Exams
      BY <3>1 DEF Rows, TablesOK, LinksOK
    <3> QED BY <3>2 DEF Rows, TablesOK
  <2>2. apply_links[l].use_count \in Nat
    BY DEF Rows, TablesOK, ApplyLink
  <2>3. r \in Request
    <3> HIDE DEF e
    <3> QED BY ZenonT(30), <2>1, <2>2 DEF Idle, Request
  <2>4. RequestOK(r)
    BY <2>1 DEF RequestOK, Idle, Exists, ExamStatus
  <2> QED BY <1>7, <2>3, <2>4, BeginKeeps DEF apply_by_link
<1>8. ASSUME ReviewRead(w) PROVE Rows'
  <2>1. PICK p \in requests[w].todo :
          requests' = [requests EXCEPT ![w].op = "decide", ![w].exam = p[1],
                                       ![w].user = p[2], ![w].todo = @ \ {p}]
    BY <1>8 DEF ReviewRead
  <2> DEFINE r == [requests[w] EXCEPT !.op = "decide", !.exam = p[1], !.user = p[2],
                                      !.todo = @ \ {p}]
  <2>2. requests[w] \in Request /\ p[1] \in Exams /\ p[2] \in Users
    BY DEF Rows, Request
  <2>3. r \in Request
    BY ZenonT(30), <2>2 DEF Request
  <2>4. RequestOK(r)
    BY <2>2 DEF RequestOK, Request
  <2>5. requests' = [requests EXCEPT ![w] = r]
    BY <2>1, <2>2 DEF Rows
  <2>6. TablesOK' /\ RowsAdvance /\ CountersOK'
    BY <1>8, TablesKept, CountersStep DEF ReviewRead, Serving
  <2> HIDE DEF r
  <2> QED BY <2>3, <2>4, <2>5, <2>6, RequestSurvives, RowsStep
<1>9. ASSUME ReviewSkip(w) PROVE Rows'
  <2>1. PICK p \in requests[w].todo :
          \/ requests[w].todo = {p} /\ Finish(w)
          \/ requests' = [requests EXCEPT ![w].todo = @ \ {p}]
    BY <1>9 DEF ReviewSkip
  <2>2. TablesOK' /\ RowsAdvance /\ CountersOK'
    BY <1>9, TablesKept, CountersStep DEF ReviewSkip, Serving
  <2>3. CASE Finish(w)
    BY <2>2, <2>3, IdleOK, RowsStep DEF Finish
  <2>4. CASE requests' = [requests EXCEPT ![w].todo = @ \ {p}]
    <3> DEFINE r == [requests[w] EXCEPT !.todo = @ \ {p}]
    <3>1. requests[w] \in Request /\ requests[w].op = "review"
      BY <1>9 DEF Rows, ReviewSkip, Serving
    <3>2. r \in Request
      <4>1. requests[w].todo \ {p} \in SUBSET (Exams \X Users)
        BY <3>1 DEF Request
      <4> QED BY ZenonT(30), <3>1, <4>1 DEF Request
    <3>3. RequestOK(r)
      BY <3>1 DEF RequestOK, Request
    <3>4. requests' = [requests EXCEPT ![w] = r]
      BY <2>4 DEF Rows
    <3> HIDE DEF r
    <3> QED BY <2>2, <3>2, <3>3, <3>4, RequestSurvives, RowsStep
  <2> QED BY <2>1, <2>3, <2>4
<1>10. ASSUME Abort(w) PROVE Rows'
  BY <1>10, TablesKept, WriteKeeps DEF Abort, Serving
<1> QED BY <1>1, <1>2, <1>3, <1>4, <1>5, <1>6, <1>7, <1>8, <1>9, <1>10
     DEF duplicate_exam

-------------------------------------------------------------------------------
(* Requests that write.                                                    *)

\* An exam is inserted, or one that is there gets another status.
LEMMA ExamMoves ==
  ASSUME Rows, NEW e \in Exams, NEW s \in ExamStatus, exams[e] = "absent" \/ Exists(e),
         exams' = [exams EXCEPT ![e] = s],
         UNCHANGED <<apply_links, applicants, participants, seated>>
  PROVE  TablesOK' /\ RowsAdvance
<1>1. \A x \in Exams : Exists(x)' <=> x = e \/ Exists(x)
  BY DEF Rows, TablesOK, Exists
<1>2. LinksOK'
  BY DEF Rows, TablesOK, LinksOK, Applied
<1>3. TablesOK'
  BY <1>1, <1>2 DEF Rows, TablesOK, Applied, ExamStatus
<1>4. RowsAdvance
  BY <1>1 DEF Rows, TablesOK, RowsAdvance, ExamStatus
<1> QED BY <1>3, <1>4

LEMMA DeleteStep ==
  ASSUME Rows, NEW w \in Workers, NEW e \in Exams, delete_exam(w, e)
  PROVE  TablesOK' /\ RowsAdvance
<1>1. /\ exams' = [exams EXCEPT ![e] = "deleted"]
      /\ participants' = [participants EXCEPT ![e] = {}]
      /\ seated' = [seated EXCEPT ![e] = {}]
      /\ applicants' = [applicants EXCEPT ![e] = [u \in Users |-> NoApplicant]]
      /\ apply_links' = [l \in Links |-> IF apply_links[l].exam = e
                             THEN [NoLink EXCEPT !.state = "deleted"] ELSE apply_links[l]]
  BY DEF delete_exam
<1> DEFINE gone == [NoLink EXCEPT !.state = "deleted"]
<1>2. /\ gone \in ApplyLink /\ gone.state = "deleted"
      /\ gone.exam = None /\ gone.is_active = FALSE
  BY DEF NoLink, ApplyLink
<1> HIDE DEF gone
<1>3. apply_links' \in [Links -> ApplyLink]
  BY <1>1, <1>2 DEF Rows, TablesOK, gone
<1>4. applicants' \in [Exams -> [Users -> Applicant]]
  <2>1. [u \in Users |-> NoApplicant] \in [Users -> Applicant]
    BY DEF NoApplicant, Applicant
  <2> QED BY <1>1, <2>1 DEF Rows, TablesOK
<1>5. \A x \in Exams, u \in Users :
         IF x = e THEN applicants'[x][u] = NoApplicant
         ELSE applicants'[x][u] = applicants[x][u]
  BY <1>1 DEF Rows, TablesOK
<1>6. \A l \in Links :
         IF apply_links[l].exam = e THEN apply_links'[l] = gone
         ELSE apply_links'[l] = apply_links[l]
  BY <1>1 DEF gone
<1>7. \A x \in Exams, u \in Users :
         Applied(x, u)' <=> x # e /\ Applied(x, u)
  BY <1>5 DEF Applied, NoApplicant
<1>8. LinksOK'
  <2>1. \A l \in Links : IF apply_links'[l].state = "present"
                        THEN apply_links'[l].exam \in Exams
                        ELSE apply_links'[l].exam = None /\ ~apply_links'[l].is_active
    BY <1>2, <1>6 DEF Rows, TablesOK, LinksOK
  <2>2. ASSUME NEW x \in Exams, NEW u \in Users, applicants'[x][u].link # None
        PROVE  Applied(x, u)' /\ apply_links'[applicants'[x][u].link].exam = x
    <3>1. x # e /\ applicants'[x][u] = applicants[x][u]
      BY <1>5, <2>2 DEF NoApplicant
    <3>2. applicants[x][u].link \in Links
      BY <2>2, <3>1 DEF Rows, TablesOK, Applicant
    <3>3. Applied(x, u) /\ apply_links[applicants[x][u].link].exam = x
      BY <2>2, <3>1 DEF Rows, TablesOK, LinksOK
    <3> QED BY <1>6, <1>7, <3>1, <3>2, <3>3
  <2> QED BY <2>1, <2>2 DEF LinksOK
<1>9. \A x \in Exams : Exists(x)' <=> x # e /\ Exists(x)
  BY <1>1 DEF Rows, TablesOK, Exists, ExamStatus
<1>10. TablesOK'
  <2>1. ASSUME NEW x \in Exams, ~Exists(x)'
        PROVE  participants'[x] = {} /\ \A l \in Links : apply_links'[l].exam # x
    <3>1. participants'[x] = {}
      BY <1>1, <1>9, <2>1 DEF Rows, TablesOK
    <3>2. ASSUME NEW l \in Links PROVE apply_links'[l].exam # x
      BY <1>2, <1>6, <1>9, <2>1, ConstantsAssumption DEF Rows, TablesOK
    <3> QED BY <3>1, <3>2
  <2>2. \A x \in Exams : seated'[x] \subseteq participants'[x]
    <3> SUFFICES ASSUME NEW x \in Exams PROVE seated'[x] \subseteq participants'[x]
      OBVIOUS
    <3>1. CASE x = e
      BY <1>1, <3>1 DEF Rows, TablesOK
    <3>2. CASE x # e
      BY <1>1, <3>2 DEF Rows, TablesOK
    <3> QED BY <3>1, <3>2
  <2> QED BY <1>1, <1>3, <1>4, <1>7, <1>8, <1>9, <2>1, <2>2 DEF Rows, TablesOK, ExamStatus
<1>11. RowsAdvance
  BY <1>1, <1>6, <1>9 DEF Rows, TablesOK, RowsAdvance
<1> QED BY <1>10, <1>11

\* Rows of one exam that is there are inserted, updated or removed.
LEMMA RowsOfOneExam ==
  ASSUME Rows, NEW e \in Exams, Exists(e), UNCHANGED exams,
         apply_links' \in [Links -> ApplyLink],
         applicants' \in [Exams -> [Users -> Applicant]],
         participants' \in [Exams -> SUBSET Users], seated' \in [Exams -> SUBSET Users],
         seated'[e] \subseteq participants'[e],
         \A x \in Exams \ {e} : /\ applicants'[x] = applicants[x]
                                /\ participants'[x] = participants[x]
                                /\ seated'[x] = seated[x],
         \A l \in Links : \/ apply_links'[l] = apply_links[l]
                          \/ /\ apply_links'[l].state = "present" /\ apply_links'[l].exam = e
                             /\ apply_links[l].exam \in {e, None},
         \A u \in Users : applicants'[e][u].link # None =>
             Applied(e, u)' /\ apply_links'[applicants'[e][u].link].exam = e
  PROVE  TablesOK' /\ RowsAdvance
<1>1. \A x \in Exams : Exists(x)' <=> Exists(x)
  BY DEF Exists
<1>2. \A l \in Links : apply_links[l].exam \in Exams =>
          apply_links'[l].exam = apply_links[l].exam
  BY ConstantsAssumption
<1>3. LinksOK'
  <2>1. ASSUME NEW l \in Links
        PROVE  IF apply_links'[l].state = "present" THEN apply_links'[l].exam \in Exams
               ELSE apply_links'[l].exam = None /\ ~apply_links'[l].is_active
    <3>1. CASE apply_links'[l] = apply_links[l]
      BY <3>1 DEF Rows, TablesOK, LinksOK
    <3>2. CASE apply_links'[l].state = "present" /\ apply_links'[l].exam = e
      BY <3>2
    <3> QED BY <3>1, <3>2
  <2>2. ASSUME NEW x \in Exams, NEW u \in Users, applicants'[x][u].link # None
        PROVE  Applied(x, u)' /\ apply_links'[applicants'[x][u].link].exam = x
    <3>1. CASE x = e
      BY <2>2, <3>1
    <3>2. CASE x # e
      <4>1. applicants'[x][u] = applicants[x][u]
        BY <3>2
      <4>2. Applied(x, u) /\ apply_links[applicants[x][u].link].exam = x
        BY <2>2, <4>1 DEF Rows, TablesOK, LinksOK
      <4>3. applicants[x][u].link \in Links
        BY <2>2, <4>1 DEF Rows, TablesOK, Applicant
      <4>4. Applied(x, u)'
        BY <4>1, <4>2 DEF Applied
      <4> QED BY <1>2, <4>1, <4>2, <4>3, <4>4
    <3> QED BY <3>1, <3>2
  <2> QED BY <2>1, <2>2 DEF LinksOK
<1>4. TablesOK'
  <2>1. ASSUME NEW x \in Exams, ~Exists(x)
        PROVE  /\ participants'[x] = {} /\ \A u \in Users : ~Applied(x, u)'
               /\ \A l \in Links : apply_links'[l].exam # x
    <3>1. x \in Exams \ {e}
      BY <2>1
    <3>2. /\ participants[x] = {} /\ \A u \in Users : ~Applied(x, u)
          /\ \A l \in Links : apply_links[l].exam # x
      BY <2>1 DEF Rows, TablesOK
    <3>3. \A u \in Users : ~Applied(x, u)'
      BY <3>1, <3>2 DEF Applied
    <3>4. participants'[x] = {}
      BY <3>1, <3>2
    <3>5. \A l \in Links : apply_links'[l].exam # x
      BY <3>1, <3>2
    <3> QED BY <3>3, <3>4, <3>5
  <2>2. \A x \in Exams : seated'[x] \subseteq participants'[x]
    <3> SUFFICES ASSUME NEW x \in Exams PROVE seated'[x] \subseteq participants'[x]
      OBVIOUS
    <3>1. CASE x = e
      BY <3>1
    <3>2. CASE x # e
      BY <3>2 DEF Rows, TablesOK
    <3> QED BY <3>1, <3>2
  <2> QED BY <1>1, <1>3, <2>1, <2>2 DEF Rows, TablesOK
<1> QED BY <1>1, <1>2, <1>4 DEF RowsAdvance

LEMMA PlaceSteps ==
  ASSUME Rows, NEW w \in Workers,
         \/ AddCommit(w)
         \/ \E e \in Exams, u \in Users : remove_participant(w, e, u)
  PROVE  Rows'
<1>1. ASSUME NEW e \in Exams, Exists(e), NEW P \in SUBSET Users, NEW S \in SUBSET P,
             participants' = [participants EXCEPT ![e] = P],
             seated' = [seated EXCEPT ![e] = S],
             UNCHANGED <<exams, apply_links, applicants>>
      PROVE  TablesOK' /\ RowsAdvance
  <2>1. /\ participants' \in [Exams -> SUBSET Users] /\ seated' \in [Exams -> SUBSET Users]
        /\ seated'[e] \subseteq participants'[e]
        /\ \A x \in Exams \ {e} : /\ participants'[x] = participants[x]
                                  /\ seated'[x] = seated[x]
    BY <1>1 DEF Rows, TablesOK
  <2>2. \A u \in Users : applicants'[e][u].link # None =>
             Applied(e, u)' /\ apply_links'[applicants'[e][u].link].exam = e
    BY <1>1 DEF Rows, TablesOK, LinksOK, Applied
  <2> QED BY <1>1, <2>1, <2>2, RowsOfOneExam DEF Rows, TablesOK
<1>2. ASSUME AddCommit(w) PROVE Rows'
  <2> DEFINE e == requests[w].exam
  <2>1. e \in Exams /\ Exists(e) /\ requests[w].user \in Users
    BY <1>2 DEF AddCommit, Serving, Rows, RequestsOK, RequestOK
  <2>2. participants[e] \cup {requests[w].user} \in SUBSET Users
        /\ seated[e] \in SUBSET (participants[e] \cup {requests[w].user})
    BY <2>1 DEF Rows, TablesOK
  <2>3. /\ participants' = [participants EXCEPT ![e] = participants[e] \cup {requests[w].user}]
        /\ seated' = [seated EXCEPT ![e] = seated[e]]
    BY <1>2, <2>1 DEF AddCommit, Rows, TablesOK
  <2>4. UNCHANGED <<exams, apply_links, applicants>>
    BY <1>2 DEF AddCommit
  <2>5. TablesOK' /\ RowsAdvance
    <3> HIDE DEF e
    <3> QED BY <1>1, <2>1, <2>2, <2>3, <2>4
  <2> QED BY <1>2, <2>5, WriteKeeps DEF AddCommit, Serving
<1>3. ASSUME NEW e \in Exams, NEW u \in Users, remove_participant(w, e, u) PROVE Rows'
  <2>1. Exists(e)
    BY <1>3 DEF remove_participant, Rows, TablesOK
  <2>2. participants[e] \ {u} \in SUBSET Users
        /\ seated[e] \ {u} \in SUBSET (participants[e] \ {u})
    BY DEF Rows, TablesOK
  <2>3. /\ participants' = [participants EXCEPT ![e] = participants[e] \ {u}]
        /\ seated' = [seated EXCEPT ![e] = seated[e] \ {u}]
        /\ UNCHANGED <<exams, apply_links, applicants>>
    BY <1>3 DEF remove_participant
  <2>4. TablesOK' /\ RowsAdvance
    BY <1>1, <2>1, <2>2, <2>3
  <2> QED BY <1>3, <2>4, WriteKeeps DEF remove_participant
<1> QED BY <1>2, <1>3

\* A link of an exam is inserted or updated.
LEMMA LinkStep ==
  ASSUME Rows, NEW w \in Workers, AtOnce(w), NEW l \in Links, NEW link \in ApplyLink,
         link.exam \in Exams, Exists(link.exam), link.state = "present",
         apply_links[l].exam \in {link.exam, None},
         apply_links' = [apply_links EXCEPT ![l] = link],
         UNCHANGED <<exams, applicants, participants, seated>>
  PROVE  Rows'
<1> DEFINE e == link.exam
<1>1. /\ apply_links' \in [Links -> ApplyLink] /\ apply_links'[l] = link
      /\ \A k \in Links \ {l} : apply_links'[k] = apply_links[k]
  BY DEF Rows, TablesOK
<1>2. ASSUME NEW u \in Users, applicants'[e][u].link # None
      PROVE  Applied(e, u)' /\ apply_links'[applicants'[e][u].link].exam = e
  <2>1. Applied(e, u) /\ apply_links[applicants[e][u].link].exam = e
    BY <1>2 DEF Rows, TablesOK, LinksOK
  <2>2. applicants[e][u].link \in Links
    BY <1>2 DEF Rows, TablesOK, Applicant
  <2> QED BY <1>1, <2>1, <2>2 DEF Applied
<1>3. TablesOK' /\ RowsAdvance
  <2> HIDE DEF e
  <2>1. e \in Exams /\ Exists(e)
    BY DEF e
  <2>2. \A k \in Links : \/ apply_links'[k] = apply_links[k]
                         \/ /\ apply_links'[k].state = "present" /\ apply_links'[k].exam = e
                            /\ apply_links[k].exam \in {e, None}
    BY <1>1 DEF e
  <2> QED BY <1>1, <1>2, <2>1, <2>2, RowsOfOneExam DEF Rows, TablesOK
<1> QED BY <1>3, WriteKeeps

LEMMA LinkSteps ==
  ASSUME Rows, NEW w \in Workers, NEW l \in Links,
         \/ \E e \in Exams : create_apply_link(w, e, l)
         \/ deactivate_apply_link(w, l)
  PROVE  Rows'
<1>1. ASSUME NEW e \in Exams, create_apply_link(w, e, l) PROVE Rows'
  <2>1. PICK n \in UseLimits : apply_links' = [apply_links EXCEPT ![l] =
             [state |-> "present", exam |-> e, max_uses |-> n, use_count |-> 0,
              is_active |-> TRUE]]
    BY <1>1 DEF create_apply_link
  <2> DEFINE link == [state |-> "present", exam |-> e, max_uses |-> n, use_count |-> 0,
                      is_active |-> TRUE]
  <2>2. link \in ApplyLink /\ link.state = "present" /\ link.exam = e
    BY DEF ApplyLink
  <2>3. apply_links[l].exam = None
    BY <1>1 DEF create_apply_link, Rows, TablesOK, LinksOK
  <2>4. apply_links' = [apply_links EXCEPT ![l] = link]
    BY <2>1
  <2> HIDE DEF link
  <2> QED BY <1>1, <2>2, <2>3, <2>4, LinkStep DEF create_apply_link
<1>2. ASSUME deactivate_apply_link(w, l) PROVE Rows'
  <2> DEFINE link == [apply_links[l] EXCEPT !.is_active = FALSE]
  <2>1. apply_links[l] \in ApplyLink /\ apply_links[l].state = "present"
    BY <1>2 DEF deactivate_apply_link, Rows, TablesOK
  <2>2. apply_links[l].exam \in Exams
    BY <2>1 DEF Rows, TablesOK, LinksOK
  <2>3. Exists(apply_links[l].exam)
    BY <2>2 DEF Rows, TablesOK
  <2>4. link \in ApplyLink /\ link.state = "present" /\ link.exam = apply_links[l].exam
    BY ZenonT(30), <2>1 DEF ApplyLink
  <2>5. apply_links' = [apply_links EXCEPT ![l] = link]
    BY <1>2 DEF deactivate_apply_link, Rows, TablesOK
  <2> HIDE DEF link
  <2> QED BY <1>2, <2>2, <2>3, <2>4, <2>5, LinkStep DEF deactivate_apply_link
<1> QED BY <1>1, <1>2

LEMMA ApplyCommitStep ==
  ASSUME Rows, NEW w \in Workers, ApplyCommit(w)
  PROVE  Rows'
<1>0. PICK r : r = requests[w]
  OBVIOUS
<1> DEFINE e == r.exam
<1> DEFINE row == [status |-> "pending", link |-> r.link]
<1>1. /\ r \in Request /\ e \in Exams /\ r.user \in Users /\ Exists(e)
      /\ r.link # None => apply_links[r.link].exam = e
  BY <1>0 DEF ApplyCommit, Serving, Rows, RequestsOK, RequestOK
<1>2. row \in Applicant /\ row.status = "pending" /\ row.link = r.link /\ r.seen \in Nat
      /\ r.link \in Links \cup {None}
  BY <1>1 DEF Applicant, Request
<1>3. /\ applicants' = [applicants EXCEPT ![e][r.user] = row]
      /\ apply_links' = IF r.link = None THEN apply_links
                        ELSE [apply_links EXCEPT ![r.link] = UsedOnce(@, r.seen)]
      /\ UNCHANGED <<exams, participants, seated>>
      /\ Finish(w) /\ UNCHANGED <<served, overlapped>>
  BY <1>0 DEF ApplyCommit, Serving
<1> HIDE DEF row, e
<1>4. /\ applicants' \in [Exams -> [Users -> Applicant]]
      /\ \A x \in Exams \ {e} : applicants'[x] = applicants[x]
      /\ \A u \in Users : applicants'[e][u] = IF u = r.user THEN row ELSE applicants[e][u]
  BY <1>1, <1>2, <1>3 DEF Rows, TablesOK
<1>5. ASSUME NEW link \in ApplyLink, NEW n \in Nat
      PROVE  /\ UsedOnce(link, n) \in ApplyLink /\ UsedOnce(link, n).state = link.state
             /\ UsedOnce(link, n).exam = link.exam
  <2>1. (link.is_active /\ (link.max_uses = 0 \/ n + 1 < link.max_uses)) \in BOOLEAN
    BY ZenonT(30) DEF ApplyLink
  <2>2. n + 1 \in Nat
    OBVIOUS
  <2> DEFINE a == link.is_active /\ (link.max_uses = 0 \/ n + 1 < link.max_uses)
  <2> DEFINE m == n + 1
  <2> HIDE DEF a, m
  <2>3. [link EXCEPT !.use_count = m, !.is_active = a] \in ApplyLink
    BY ZenonT(30), <2>1, <2>2 DEF ApplyLink, a, m
  <2>4. UsedOnce(link, n) = [link EXCEPT !.use_count = m, !.is_active = a]
    BY ZenonT(30) DEF UsedOnce, ApplyLink, a, m
  <2>5. /\ [link EXCEPT !.use_count = m, !.is_active = a].state = link.state
        /\ [link EXCEPT !.use_count = m, !.is_active = a].exam = link.exam
    BY ZenonT(30) DEF ApplyLink
  <2> QED BY <2>3, <2>4, <2>5
<1>6. /\ apply_links' \in [Links -> ApplyLink]
      /\ \A l \in Links :
            \/ apply_links'[l] = apply_links[l]
            \/ /\ apply_links'[l].state = "present" /\ apply_links'[l].exam = e
               /\ apply_links[l].exam = e
  <2>1. CASE r.link = None
    BY <1>3, <2>1 DEF Rows, TablesOK
  <2>2. CASE r.link # None
    <3>1. r.link \in Links /\ apply_links[r.link] \in ApplyLink
          /\ apply_links[r.link].exam = e /\ apply_links[r.link].state = "present"
      BY <1>1, <1>2, <2>2, ConstantsAssumption DEF Rows, TablesOK, LinksOK
    <3> DEFINE used == UsedOnce(apply_links[r.link], r.seen)
    <3>2. used \in ApplyLink /\ used.state = "present" /\ used.exam = e
      BY <1>2, <1>5, <3>1
    <3>3. apply_links' = [apply_links EXCEPT ![r.link] = used]
      BY <1>3, <2>2, <3>1 DEF Rows, TablesOK
    <3> HIDE DEF used
    <3> QED BY <3>1, <3>2, <3>3 DEF Rows, TablesOK
  <2> QED BY <2>1, <2>2
<1>7. ASSUME NEW u \in Users, applicants'[e][u].link # None
      PROVE  Applied(e, u)' /\ apply_links'[applicants'[e][u].link].exam = e
  <2>1. CASE u = r.user
    <3>1. applicants'[e][u] = row /\ row.link \in Links /\ apply_links[row.link].exam = e
      BY <1>1, <1>2, <1>4, <1>7, <2>1
    <3>2. Applied(e, u)'
      BY <1>2, <3>1 DEF Applied
    <3> QED BY <1>6, <3>1, <3>2
  <2>2. CASE u # r.user
    <3>1. applicants'[e][u] = applicants[e][u]
      BY <1>4, <2>2
    <3>2. Applied(e, u) /\ apply_links[applicants[e][u].link].exam = e
      BY <1>1, <1>7, <3>1 DEF Rows, TablesOK, LinksOK
    <3>3. applicants[e][u].link \in Links
      BY <1>1, <1>7, <3>1 DEF Rows, TablesOK, Applicant
    <3>4. Applied(e, u)'
      BY <3>1, <3>2 DEF Applied
    <3> QED BY <1>6, <3>1, <3>2, <3>3, <3>4
  <2> QED BY <2>1, <2>2
<1>8. TablesOK' /\ RowsAdvance
  BY <1>1, <1>3, <1>4, <1>6, <1>7, RowsOfOneExam DEF Rows, TablesOK
<1> QED BY <1>3, <1>8, WriteKeeps

LEMMA ReviewCommitStep ==
  ASSUME Rows, NEW w \in Workers, ReviewCommit(w)
  PROVE  Rows'
<1>0. PICK r : r = requests[w]
  OBVIOUS
<1> DEFINE e == r.exam
<1> DEFINE new == IF r.to = "approved" THEN {r.user} \ participants[e] ELSE {}
<1> DEFINE next == IF r.todo = {} THEN Idle
                   ELSE [Idle EXCEPT !.op = "review", !.to = r.to, !.todo = r.todo]
<1>1. r \in Request /\ e \in Exams /\ r.user \in Users /\ Applied(e, r.user)
  BY <1>0 DEF ReviewCommit, Serving, Rows, RequestsOK, RequestOK
<1>2. /\ applicants' = [applicants EXCEPT ![e][r.user].status = r.to]
      /\ participants' = [participants EXCEPT ![e] = @ \cup new]
      /\ seated' = [seated EXCEPT ![e] = @ \cup new]
      /\ requests' = [requests EXCEPT ![w] = next]
      /\ UNCHANGED <<exams, apply_links, served, overlapped>>
  BY <1>0 DEF ReviewCommit, Serving
<1>3. new \in SUBSET Users
  BY <1>1
<1>4. next \in Request /\ RequestOK(next)
  <2>1. [Idle EXCEPT !.op = "review", !.to = r.to, !.todo = r.todo] \in Request
    BY ZenonT(30), <1>1 DEF Idle, Request
  <2>2. RequestOK([Idle EXCEPT !.op = "review", !.to = r.to, !.todo = r.todo])
    BY DEF RequestOK, Idle
  <2> QED BY <2>1, <2>2, IdleOK
<1>5. Exists(e)
  BY <1>1 DEF Rows, TablesOK
<1> DEFINE row == [applicants[e][r.user] EXCEPT !.status = r.to]
<1>6. /\ row \in Applicant /\ row.status = r.to /\ r.to # "none"
      /\ row.link = applicants[e][r.user].link
  <2>1. applicants[e][r.user] \in Applicant /\ r.to \in Decision
    BY <1>1 DEF Rows, TablesOK, Request
  <2> QED BY ZenonT(30), <2>1 DEF Applicant, Decision
<1>7. applicants' = [applicants EXCEPT ![e][r.user] = row]
  BY <1>1, <1>2 DEF Rows, TablesOK
<1> HIDE DEF row, next, new, e
<1>8. /\ applicants' \in [Exams -> [Users -> Applicant]]
      /\ \A x \in Exams \ {e} : applicants'[x] = applicants[x]
      /\ \A u \in Users : applicants'[e][u] = IF u = r.user THEN row ELSE applicants[e][u]
  BY <1>1, <1>6, <1>7 DEF Rows, TablesOK
<1>9. ASSUME NEW u \in Users, applicants'[e][u].link # None
      PROVE  Applied(e, u)' /\ apply_links'[applicants'[e][u].link].exam = e
  <2>1. applicants'[e][u].link = applicants[e][u].link
    BY <1>6, <1>8
  <2>2. Applied(e, u) /\ apply_links[applicants[e][u].link].exam = e
    BY <1>1, <1>9, <2>1 DEF Rows, TablesOK, LinksOK
  <2>3. Applied(e, u)'
    BY <1>6, <1>8, <2>2 DEF Applied
  <2> QED BY <1>2, <2>1, <2>2, <2>3
<1>10. /\ participants' \in [Exams -> SUBSET Users] /\ seated' \in [Exams -> SUBSET Users]
       /\ seated'[e] \subseteq participants'[e]
       /\ \A x \in Exams \ {e} : /\ participants'[x] = participants[x]
                                 /\ seated'[x] = seated[x]
  BY <1>1, <1>2, <1>3 DEF Rows, TablesOK
<1>11. TablesOK' /\ RowsAdvance
  BY <1>1, <1>2, <1>5, <1>8, <1>9, <1>10, RowsOfOneExam DEF Rows, TablesOK
<1>12. CountersOK'
  BY <1>2, CountersStep
<1> QED BY <1>2, <1>4, <1>11, <1>12, RequestSurvives, RowsStep

LEMMA ExamSteps ==
  ASSUME Rows, NEW w \in Workers,
         \/ CreateCommit(w) \/ PublishCommit(w)
         \/ \E e \in Exams : update_exam(w, e) \/ archive_exam(w, e) \/ delete_exam(w, e)
  PROVE  Rows'
<1>1. ASSUME CreateCommit(w) PROVE Rows'
  BY <1>1, ExamMoves, WriteKeeps DEF CreateCommit, Serving, ExamStatus
<1>2. ASSUME PublishCommit(w) PROVE Rows'
  <2>1. requests[w].exam \in Exams
    BY <1>2 DEF PublishCommit, Serving, Rows, RequestsOK, RequestOK
  <2> QED BY <1>2, <2>1, ExamMoves, WriteKeeps DEF PublishCommit, Serving, ExamStatus
<1>3. ASSUME NEW e \in Exams, update_exam(w, e) PROVE Rows'
  BY <1>3, ExamMoves, WriteKeeps DEF update_exam
<1>4. ASSUME NEW e \in Exams, archive_exam(w, e) PROVE Rows'
  BY <1>4, ExamMoves, WriteKeeps DEF archive_exam, ExamStatus
<1>5. ASSUME NEW e \in Exams, delete_exam(w, e) PROVE Rows'
  BY <1>5, DeleteStep, WriteKeeps DEF delete_exam
<1> QED BY <1>1, <1>2, <1>3, <1>4, <1>5

LEMMA NextKeepsRows == Rows /\ [Next]_vars => Rows'
<1> SUFFICES ASSUME Rows, [Next]_vars PROVE Rows'
  OBVIOUS
<1>1. ASSUME NEW w \in Workers, ExamRequest(w) PROVE Rows'
  BY <1>1, ReadsKeep, PlaceSteps, ExamSteps DEF ExamRequest
<1>2. ASSUME NEW w \in Workers, ApplyRequest(w) PROVE Rows'
  BY <1>2, ReadsKeep, LinkSteps DEF ApplyRequest
<1>3. ASSUME NEW w \in Workers, Commit(w) PROVE Rows'
  BY <1>3, ReadsKeep, PlaceSteps, ExamSteps, ApplyCommitStep, ReviewCommitStep DEF Commit
<1>4. ASSUME NEW w \in Workers, Abort(w) PROVE Rows'
  BY <1>4, ReadsKeep
<1>5. CASE UNCHANGED vars
  <2>1. TablesOK' /\ RowsAdvance
    BY <1>5, TablesKept DEF vars
  <2>2. CountersOK'
    BY <1>5 DEF vars, Rows, CountersOK
  <2> QED BY <1>5, <2>1, <2>2, IdleOK, ConstantsAssumption, RowsStep DEF vars
<1> QED BY <1>1, <1>2, <1>3, <1>4, <1>5 DEF Next

\* Rows is an inductive invariant.
LEMMA RowsInvariant == Spec => []Rows
<1>1. Init => Rows
  BY InitRows
<1>2. Rows /\ [Next]_vars => Rows'
  BY NextKeepsRows
<1> QED BY <1>1, <1>2, PTL DEF Spec

\* Rows are well formed whatever order the requests on an exam are served in; those of an
\* exam that is deleted go with it (exams/apply_models.py: ON DELETE CASCADE).
THEOREM TypeCorrect == Spec => []TypeOK
<1>1. Rows => TypeOK
  BY RowsType
<1> QED BY <1>1, RowsInvariant, PTL

-------------------------------------------------------------------------------
(* The limits of the plan.  A request that has counted and not inserted yet holds room, *)
(* and there is room for all of them but for those that began while others were served. *)

Creating == {w \in Workers : requests[w].op = "create"}

Adding(e) == {w \in Workers : requests[w].op = "add" /\ requests[w].exam = e}

\* The participants the limit is about.
Added(e) == participants[e] \ seated[e]

ExamRoom == Cardinality(Owned) + Cardinality(Creating) <= MaxExams + Overshoot

PlaceRoom == \A e \in Exams :
    Cardinality(Added(e)) + Cardinality(Adding(e)) <= MaxParticipants + Overshoot

Room == ExamRoom /\ PlaceRoom

LEMMA WorkersCount ==
  /\ Cardinality(Workers) \in Nat \ {0}
  /\ \A C \in SUBSET Workers : /\ IsFiniteSet(C) /\ Cardinality(C) \in Nat
                               /\ Cardinality(C) <= Cardinality(Workers)
  BY FS_EmptySet, FS_Subset, FS_CardinalityType, ConstantsAssumption

LEMMA OvershootGrows ==
  ASSUME Rows, overlapped => overlapped'
  PROVE  /\ Overshoot \in Nat /\ Overshoot' \in Nat /\ Overshoot <= Overshoot'
         /\ overlapped' => Overshoot' = Cardinality(Workers) - 1
<1>1. overlapped = TRUE \/ overlapped = FALSE
  BY DEF Rows, CountersOK
<1>2. overlapped = TRUE => overlapped'
  OBVIOUS
<1>3. Cardinality(Workers) - 1 \in Nat
  BY WorkersCount
<1> QED BY <1>1, <1>2, <1>3 DEF Overshoot

\* What room is left of N when the set A of rows becomes B and the set C of requests that
\* hold room becomes D: B has a row more and D a request less, or D a request more that
\* found room, alone or beside others.
LEMMA RoomLeft ==
  ASSUME NEW A, IsFiniteSet(A), NEW B, NEW C \in SUBSET Workers, NEW D \in SUBSET Workers,
         NEW N \in Nat, NEW k \in Nat, NEW m \in Nat, k <= m,
         Cardinality(A) + Cardinality(C) <= N + k,
         \/ B \subseteq A /\ D \subseteq C
         \/ \E x : \E w \in C : B \subseteq A \cup {x} /\ D \subseteq C \ {w}
         \/ \E w : /\ B \subseteq A /\ D \subseteq C \cup {w} /\ Cardinality(A) < N
                   /\ C = {} \/ m = Cardinality(Workers) - 1
  PROVE  Cardinality(B) + Cardinality(D) <= N + m
<1>1. /\ Cardinality(A) \in Nat /\ Cardinality(C) \in Nat /\ Cardinality(D) \in Nat
      /\ IsFiniteSet(C) /\ Cardinality(D) <= Cardinality(Workers)
      /\ Cardinality(Workers) \in Nat
  BY WorkersCount, FS_CardinalityType
<1>2. ASSUME B \subseteq A, D \subseteq C PROVE Cardinality(B) + Cardinality(D) <= N + m
  <2>1. Cardinality(B) <= Cardinality(A) /\ Cardinality(B) \in Nat
    BY <1>2, FS_Subset, FS_CardinalityType
  <2>2. Cardinality(D) <= Cardinality(C)
    BY <1>1, <1>2, FS_Subset
  <2> QED BY <1>1, <2>1, <2>2
<1>3. ASSUME NEW x, NEW w \in C, B \subseteq A \cup {x}, D \subseteq C \ {w}
      PROVE  Cardinality(B) + Cardinality(D) <= N + m
  <2>1. /\ IsFiniteSet(A \cup {x}) /\ Cardinality(A \cup {x}) <= Cardinality(A) + 1
        /\ IsFiniteSet(C \ {w}) /\ Cardinality(C \ {w}) = Cardinality(C) - 1
    <3>1. IsFiniteSet(A \cup {x}) /\ Cardinality(A \cup {x}) =
                                     IF x \in A THEN Cardinality(A) ELSE Cardinality(A) + 1
      BY FS_AddElement
    <3>2. IsFiniteSet(C \ {w}) /\ Cardinality(C \ {w}) = Cardinality(C) - 1
      BY <1>1, FS_RemoveElement
    <3> QED BY <1>1, <3>1, <3>2
  <2>2. /\ Cardinality(B) <= Cardinality(A \cup {x}) /\ Cardinality(B) \in Nat
        /\ Cardinality(A \cup {x}) \in Nat
    BY <1>3, <2>1, FS_Subset, FS_CardinalityType
  <2>3. Cardinality(D) <= Cardinality(C \ {w})
    BY <1>3, <2>1, FS_Subset
  <2> QED BY <1>1, <2>1, <2>2, <2>3
<1>4. ASSUME NEW w, B \subseteq A, D \subseteq C \cup {w}, Cardinality(A) < N,
             C = {} \/ m = Cardinality(Workers) - 1
      PROVE  Cardinality(B) + Cardinality(D) <= N + m
  <2>1. Cardinality(B) <= Cardinality(A) /\ Cardinality(B) \in Nat
    BY <1>4, FS_Subset, FS_CardinalityType
  <2>2. Cardinality(D) <= 1 + m
    <3>1. CASE C = {}
      <4>1. D \in SUBSET {w}
        BY <1>4, <3>1
      <4>2. IsFiniteSet({w}) /\ Cardinality({w}) = 1
        BY FS_Singleton
      <4>3. Cardinality(D) <= 1
        BY <4>1, <4>2, FS_Subset
      <4> QED BY <1>1, <4>3
    <3>2. CASE m = Cardinality(Workers) - 1
      BY <1>1, <3>2
    <3> QED BY <1>4, <3>1, <3>2
  <2> QED BY <1>1, <1>4, <2>1, <2>2
<1> QED BY <1>2, <1>3, <1>4

\* Rows of which there are no more, and a request that does not count.
LEMMA RoomKept ==
  ASSUME Rows, Room, overlapped => overlapped', Owned' \subseteq Owned,
         \A e \in Exams : Added(e)' \subseteq Added(e),
         NEW w \in Workers, NEW r, r.op \notin {"create", "add"},
         requests' = [requests EXCEPT ![w] = r] \/ UNCHANGED requests
  PROVE  Room'
<1>1. /\ Overshoot \in Nat /\ Overshoot' \in Nat /\ Overshoot <= Overshoot'
  BY OvershootGrows
<1>2. \A v \in Workers : requests'[v] = r \/ requests'[v] = requests[v]
  BY DEF Rows
<1>3. ExamRoom'
  <2>1. Creating' \subseteq Creating
    BY <1>2 DEF Creating
  <2>2. IsFiniteSet(Owned)
    BY FS_Subset, ConstantsAssumption DEF Owned
  <2>3. Creating \in SUBSET Workers /\ Creating' \in SUBSET Workers
    BY DEF Creating
  <2> QED BY <1>1, <2>1, <2>2, <2>3, RoomLeft, ConstantsAssumption DEF Room, ExamRoom
<1>4. PlaceRoom'
  <2> SUFFICES ASSUME NEW e \in Exams
               PROVE  Cardinality(Added(e)') + Cardinality(Adding(e)')
                        <= MaxParticipants + Overshoot'
    BY DEF PlaceRoom
  <2>1. Adding(e)' \subseteq Adding(e)
    BY <1>2 DEF Adding
  <2>2. IsFiniteSet(Added(e))
    BY FS_Subset, ConstantsAssumption DEF Rows, TablesOK, Added
  <2>3. Adding(e) \in SUBSET Workers /\ Adding(e)' \in SUBSET Workers
    BY DEF Adding
  <2>4. Cardinality(Added(e)) + Cardinality(Adding(e)) <= MaxParticipants + Overshoot
    BY DEF Room, PlaceRoom
  <2> QED BY <1>1, <2>1, <2>2, <2>3, <2>4, RoomLeft, ConstantsAssumption
<1> QED BY <1>3, <1>4 DEF Room

LEMMA InitRoom == Init => Room
<1> SUFFICES ASSUME Init PROVE Room
  OBVIOUS
<1>1. \A w \in Workers : requests[w].op = "idle"
  BY DEF Init, Idle
<1>2. Creating = {} /\ \A e \in Exams : Adding(e) = {}
  BY <1>1 DEF Creating, Adding
<1>3. Overshoot = 0 /\ Cardinality({}) = 0
  BY FS_EmptySet DEF Init, Overshoot
<1>4. Cardinality(Owned) = 1
  <2>1. PICK e \in Exams : exams = [x \in Exams |-> IF x = e THEN "active" ELSE "absent"]
    BY DEF Init
  <2>2. Owned = {e}
    BY <2>1 DEF Owned, Exists, ExamStatus
  <2> QED BY <2>2, FS_Singleton
<1>5. \A e \in Exams : Added(e) = {}
  BY DEF Init, Added
<1> QED BY <1>2, <1>3, <1>4, <1>5, ConstantsAssumption DEF Room, ExamRoom, PlaceRoom

\* A step that leaves the tables alone and begins nothing that counts.
LEMMA RoomUntouched ==
  ASSUME Rows, Room, overlapped => overlapped', UNCHANGED tables,
         NEW w \in Workers, NEW r, r.op \notin {"create", "add"},
         requests' = [requests EXCEPT ![w] = r] \/ UNCHANGED requests
  PROVE  Room'
<1>1. Owned' = Owned /\ \A e \in Exams : Added(e)' = Added(e)
  BY DEF tables, Owned, Exists, Added
<1> QED BY <1>1, RoomKept

\* A request that counts exams or participants.
LEMMA CountSteps ==
  ASSUME Rows, Room, NEW w \in Workers,
         \/ create_exam(w)
         \/ \E e \in Exams, u \in Users : add_participant(w, e, u)
  PROVE  Room'
<1>1. /\ overlapped => overlapped'
      /\ UNCHANGED tables /\ requests[w].op = "idle" /\ overlapped' = (overlapped \/ Busy)
  BY DEF create_exam, add_participant, Begin, Come
<1>2. Owned' = Owned /\ \A e \in Exams : Added(e)' = Added(e)
  BY <1>1 DEF tables, Owned, Exists, Added
<1>3. /\ Overshoot \in Nat /\ Overshoot' \in Nat /\ Overshoot <= Overshoot'
      /\ overlapped' => Overshoot' = Cardinality(Workers) - 1
  BY <1>1, OvershootGrows
<1>4. /\ \E v \in Workers : requests[v].op # "idle" => overlapped'
      /\ (\E v \in Workers : requests[v].op # "idle") =>
             Overshoot' = Cardinality(Workers) - 1
  BY <1>1, <1>3 DEF Busy
<1>5. IsFiniteSet(Owned) /\ \A e \in Exams : IsFiniteSet(Added(e))
  BY FS_Subset, ConstantsAssumption DEF Rows, TablesOK, Added, Owned
<1>6. /\ Creating \in SUBSET Workers /\ Creating' \in SUBSET Workers
      /\ \A e \in Exams : Adding(e) \in SUBSET Workers /\ Adding(e)' \in SUBSET Workers
  BY DEF Creating, Adding
<1>7. ASSUME create_exam(w) PROVE Room'
  <2>1. requests' = [requests EXCEPT ![w] = [Idle EXCEPT !.op = "create"]]
    BY <1>7 DEF create_exam, Begin
  <2>2. \A v \in Workers : v # w => requests'[v] = requests[v]
    BY <2>1
  <2>3. requests'[w].op = "create"
    BY <2>1 DEF Rows, Idle
  <2>4. Creating' \subseteq Creating \cup {w}
    BY <2>2 DEF Creating
  <2>5. \A e \in Exams : Adding(e)' \subseteq Adding(e)
    BY <2>2, <2>3 DEF Adding
  <2>6. Creating = {} \/ Overshoot' = Cardinality(Workers) - 1
    BY <1>4 DEF Creating
  <2>7. ExamRoom'
    <3>1. Cardinality(Owned) < MaxExams
      BY <1>7 DEF create_exam, CheckExamQuota
    <3> QED BY <1>2, <1>3, <1>5, <1>6, <2>4, <2>6, <3>1, RoomLeft, ConstantsAssumption
         DEF Room, ExamRoom
  <2>8. PlaceRoom'
    <3> SUFFICES ASSUME NEW e \in Exams
                 PROVE  Cardinality(Added(e)') + Cardinality(Adding(e)')
                          <= MaxParticipants + Overshoot'
      BY DEF PlaceRoom
    <3>1. Cardinality(Added(e)) + Cardinality(Adding(e)) <= MaxParticipants + Overshoot
      BY DEF Room, PlaceRoom
    <3> QED BY <1>2, <1>3, <1>5, <1>6, <2>5, <3>1, RoomLeft, ConstantsAssumption
  <2> QED BY <2>7, <2>8 DEF Room
<1>8. ASSUME NEW x \in Exams, NEW u \in Users, add_participant(w, x, u) PROVE Room'
  <2>1. requests' = [requests EXCEPT ![w] =
                        [Idle EXCEPT !.op = "add", !.exam = x, !.user = u]]
    BY <1>8 DEF add_participant, Begin
  <2>2. \A v \in Workers : v # w => requests'[v] = requests[v]
    BY <2>1
  <2>3. requests'[w].op = "add" /\ requests'[w].exam = x
    BY <2>1 DEF Rows, Idle
  <2>4. Creating' \subseteq Creating
    BY <2>2, <2>3 DEF Creating
  <2>5. \A e \in Exams : Adding(e)' \subseteq IF e = x THEN Adding(e) \cup {w} ELSE Adding(e)
    BY <2>2, <2>3 DEF Adding
  <2>6. Adding(x) = {} \/ Overshoot' = Cardinality(Workers) - 1
    BY <1>4 DEF Adding
  <2>7. ExamRoom'
    BY <1>2, <1>3, <1>5, <1>6, <2>4, RoomLeft, ConstantsAssumption DEF Room, ExamRoom
  <2>8. PlaceRoom'
    <3> SUFFICES ASSUME NEW e \in Exams
                 PROVE  Cardinality(Added(e)') + Cardinality(Adding(e)')
                          <= MaxParticipants + Overshoot'
      BY DEF PlaceRoom
    <3>1. Cardinality(Added(e)) + Cardinality(Adding(e)) <= MaxParticipants + Overshoot
      BY DEF Room, PlaceRoom
    <3>2. CASE e # x
      BY <1>2, <1>3, <1>5, <1>6, <2>5, <3>1, <3>2, RoomLeft, ConstantsAssumption
    <3>3. CASE e = x
      <4>1. Cardinality(Added(x)) < MaxParticipants
        <5>1. Cardinality(participants[x]) < MaxParticipants
          BY <1>8 DEF add_participant, CheckParticipantQuota
        <5>2. IsFiniteSet(participants[x]) /\ Added(x) \in SUBSET participants[x]
          BY FS_Subset, ConstantsAssumption DEF Rows, TablesOK, Added
        <5>3. /\ Cardinality(Added(x)) <= Cardinality(participants[x])
              /\ Cardinality(Added(x)) \in Nat /\ Cardinality(participants[x]) \in Nat
          BY <1>5, <5>2, FS_Subset, FS_CardinalityType
        <5> QED BY <5>1, <5>3, ConstantsAssumption
      <4>2. Adding(x)' \subseteq Adding(x) \cup {w}
        BY <2>5
      <4>3. \E v : /\ Added(x)' \subseteq Added(x) /\ Adding(x)' \subseteq Adding(x) \cup {v}
                   /\ Cardinality(Added(x)) < MaxParticipants
                   /\ Adding(x) = {} \/ Overshoot' = Cardinality(Workers) - 1
        BY <1>2, <2>6, <4>1, <4>2
      <4>4. MaxParticipants \in Nat
        BY ConstantsAssumption
      <4> QED BY <1>3, <1>5, <1>6, <3>1, <3>3, <4>3, <4>4, RoomLeft
    <3> QED BY <3>2, <3>3
  <2> QED BY <2>7, <2>8 DEF Room
<1> QED BY <1>7, <1>8

\* A request that inserts what it has counted.
LEMMA InsertSteps ==
  ASSUME Rows, Room, NEW w \in Workers, CreateCommit(w) \/ AddCommit(w)
  PROVE  Room'
<1>1. /\ overlapped' = overlapped /\ requests' = [requests EXCEPT ![w] = Idle]
  BY DEF CreateCommit, AddCommit, Serving, Finish
<1>2. \A v \in Workers : requests'[v] = IF v = w THEN Idle ELSE requests[v]
  BY <1>1 DEF Rows
<1>3. Overshoot \in Nat /\ Overshoot' \in Nat /\ Overshoot <= Overshoot'
  BY <1>1, OvershootGrows
<1>4. IsFiniteSet(Owned) /\ \A e \in Exams : IsFiniteSet(Added(e))
  BY FS_Subset, ConstantsAssumption DEF Rows, TablesOK, Added, Owned
<1>5. /\ Creating \in SUBSET Workers /\ Creating' \in SUBSET Workers
      /\ \A e \in Exams : Adding(e) \in SUBSET Workers /\ Adding(e)' \in SUBSET Workers
  BY DEF Creating, Adding
<1>6. /\ Creating' \subseteq Creating \ {w}
      /\ \A e \in Exams : Adding(e)' \subseteq Adding(e) \ {w}
  BY <1>2 DEF Creating, Adding, Idle
<1>7. ASSUME CreateCommit(w) PROVE Room'
  <2>1. PICK e \in Exams : exams' = [exams EXCEPT ![e] = "draft"]
    BY <1>7 DEF CreateCommit
  <2>2. Owned' \subseteq Owned \cup {e}
    BY <2>1 DEF Rows, TablesOK, Owned, Exists
  <2>3. w \in Creating
    BY <1>7 DEF CreateCommit, Serving, Creating
  <2>4. ExamRoom'
    <3>1. \E y : \E v \in Creating : /\ Owned' \subseteq Owned \cup {y}
                                /\ Creating' \subseteq Creating \ {v}
      BY <1>6, <2>2, <2>3
    <3>2. Cardinality(Owned) + Cardinality(Creating) <= MaxExams + Overshoot
      BY DEF Room, ExamRoom
    <3>3. MaxExams \in Nat
      BY ConstantsAssumption
    <3> QED BY <1>3, <1>4, <1>5, <3>1, <3>2, <3>3, RoomLeft DEF ExamRoom
  <2>5. PlaceRoom'
    <3> SUFFICES ASSUME NEW x \in Exams
                 PROVE  Cardinality(Added(x)') + Cardinality(Adding(x)')
                          <= MaxParticipants + Overshoot'
      BY DEF PlaceRoom
    <3>1. Cardinality(Added(x)) + Cardinality(Adding(x)) <= MaxParticipants + Overshoot
      BY DEF Room, PlaceRoom
    <3>2. Added(x)' = Added(x)
      BY <1>7 DEF CreateCommit, Added
    <3>3. Adding(x)' \subseteq Adding(x)
      BY <1>6
    <3> QED BY <1>3, <1>4, <1>5, <3>1, <3>2, <3>3, RoomLeft, ConstantsAssumption
  <2> QED BY <2>4, <2>5 DEF Room
<1>8. ASSUME AddCommit(w) PROVE Room'
  <2>1. PICK r : r = requests[w]
    OBVIOUS
  <2>2. /\ participants' = [participants EXCEPT ![r.exam] = @ \cup {r.user}]
        /\ UNCHANGED <<exams, seated>> /\ r.exam \in Exams /\ w \in Adding(r.exam)
    BY <1>8, <2>1 DEF AddCommit, Serving, Rows, RequestsOK, RequestOK, Adding
  <2>3. ExamRoom'
    <3>1. Owned' = Owned
      BY <2>2 DEF Owned, Exists
    <3>2. Creating' \subseteq Creating
      BY <1>6
    <3> QED BY <1>3, <1>4, <1>5, <3>1, <3>2, RoomLeft, ConstantsAssumption DEF Room, ExamRoom
  <2>4. PlaceRoom'
    <3> SUFFICES ASSUME NEW x \in Exams
                 PROVE  Cardinality(Added(x)') + Cardinality(Adding(x)')
                          <= MaxParticipants + Overshoot'
      BY DEF PlaceRoom
    <3>1. Cardinality(Added(x)) + Cardinality(Adding(x)) <= MaxParticipants + Overshoot
      BY DEF Room, PlaceRoom
    <3>2. CASE x # r.exam
      <4>1. Added(x)' = Added(x) /\ Adding(x)' \subseteq Adding(x)
        BY <1>6, <2>2, <3>2 DEF Rows, TablesOK, Added
      <4> QED BY <1>3, <1>4, <1>5, <3>1, <4>1, RoomLeft, ConstantsAssumption
    <3>3. CASE x = r.exam
      <4>1. Added(x)' \subseteq Added(x) \cup {r.user} /\ Adding(x)' \subseteq Adding(x) \ {w}
            /\ w \in Adding(x)
        BY <1>6, <2>2, <3>3 DEF Rows, TablesOK, Added
      <4>2. \E y : \E v \in Adding(x) : /\ Added(x)' \subseteq Added(x) \cup {y}
                                         /\ Adding(x)' \subseteq Adding(x) \ {v}
        BY <4>1
      <4> QED BY <1>3, <1>4, <1>5, <3>1, <4>2, RoomLeft, ConstantsAssumption
    <3> QED BY <3>2, <3>3
  <2> QED BY <2>3, <2>4 DEF Room
<1> QED BY <1>7, <1>8

\* Every other request of the router leaves as many exams and added participants, or less.
LEMMA OtherSteps ==
  ASSUME Rows, Room, NEW w \in Workers,
         \/ bulk_review(w) \/ ReviewRead(w) \/ ReviewSkip(w) \/ Abort(w)
         \/ PublishCommit(w) \/ ApplyCommit(w) \/ ReviewCommit(w)
         \/ \E e \in Exams :
               \/ publish_exam(w, e) \/ update_exam(w, e) \/ archive_exam(w, e)
               \/ delete_exam(w, e)
               \/ \E u \in Users : \/ remove_participant(w, e, u) \/ apply_direct(w, e, u)
                                   \/ review_applicant(w, e, u)
         \/ \E l \in Links : \/ deactivate_apply_link(w, l)
                             \/ \E e \in Exams : create_apply_link(w, e, l)
                             \/ \E u \in Users : apply_by_link(w, l, u)
  PROVE  Room'
<1>1. ASSUME NEW r, r.op \notin {"create", "add"}, Begin(w, r) PROVE Room'
  BY <1>1, RoomUntouched DEF Begin, Come
<1>2. Idle.op \notin {"create", "add"}
  BY DEF Idle
<1>3. ASSUME Abort(w) PROVE Room'
  BY <1>2, <1>3, RoomUntouched DEF Abort, Serving, Finish
<1>4. ASSUME ReviewRead(w) PROVE Room'
  <2>1. PICK p \in requests[w].todo :
          requests' = [requests EXCEPT ![w].op = "decide", ![w].exam = p[1],
                                       ![w].user = p[2], ![w].todo = @ \ {p}]
    BY <1>4 DEF ReviewRead
  <2> DEFINE r == [requests[w] EXCEPT !.op = "decide", !.exam = p[1], !.user = p[2],
                                      !.todo = @ \ {p}]
  <2>2. requests' = [requests EXCEPT ![w] = r] /\ r.op = "decide"
    BY <2>1 DEF Rows, Request
  <2>3. UNCHANGED tables /\ (overlapped => overlapped')
    BY <1>4 DEF ReviewRead, Serving
  <2> HIDE DEF r
  <2> QED BY <2>2, <2>3, RoomUntouched
<1>5. ASSUME ReviewSkip(w) PROVE Room'
  <2>1. PICK p \in requests[w].todo :
          \/ requests[w].todo = {p} /\ Finish(w)
          \/ requests' = [requests EXCEPT ![w].todo = @ \ {p}]
    BY <1>5 DEF ReviewSkip
  <2>2. UNCHANGED tables /\ (overlapped => overlapped') /\ requests[w].op = "review"
    BY <1>5 DEF ReviewSkip, Serving
  <2>3. CASE Finish(w)
    BY <1>2, <2>2, <2>3, RoomUntouched DEF Finish
  <2>4. CASE requests' = [requests EXCEPT ![w].todo = @ \ {p}]
    <3> DEFINE r == [requests[w] EXCEPT !.todo = @ \ {p}]
    <3>1. requests' = [requests EXCEPT ![w] = r] /\ r.op = "review"
      BY <2>2, <2>4 DEF Rows, Request
    <3> HIDE DEF r
    <3> QED BY <2>2, <3>1, RoomUntouched
  <2> QED BY <2>1, <2>3, <2>4
<1>6. ASSUME NEW e \in Exams, NEW s, Exists(e), exams' = [exams EXCEPT ![e] = s],
             UNCHANGED <<participants, seated, overlapped>> /\ Finish(w)
      PROVE  Room'
  <2>1. Owned' \subseteq Owned /\ \A x \in Exams : Added(x)' = Added(x)
    BY <1>6 DEF Owned, Exists, Rows, TablesOK, Added
  <2> QED BY <1>2, <1>6, <2>1, RoomKept DEF Finish
<1>7. ASSUME NEW e \in Exams, NEW s, Exists(e), exams' = [exams EXCEPT ![e] = s],
             UNCHANGED <<participants, seated>> /\ AtOnce(w)
      PROVE  Room'
  <2>1. Owned' \subseteq Owned /\ \A x \in Exams : Added(x)' = Added(x)
    BY <1>7 DEF Owned, Exists, Rows, TablesOK, Added
  <2>2. overlapped => overlapped'
    BY <1>7 DEF AtOnce, Come
  <2> QED BY <1>2, <1>7, <2>1, <2>2, RoomKept DEF AtOnce
<1>8. ASSUME NEW e \in Exams, delete_exam(w, e) PROVE Room'
  <2>1. Owned' \subseteq Owned
    BY <1>8 DEF delete_exam, Owned, Exists, Rows, TablesOK, ExamStatus
  <2>2. \A x \in Exams : Added(x)' \subseteq Added(x)
    BY <1>8 DEF delete_exam, Rows, TablesOK, Added
  <2>3. (overlapped => overlapped') /\ UNCHANGED requests
    BY <1>8 DEF delete_exam, AtOnce, Come
  <2> QED BY <1>2, <2>1, <2>2, <2>3, RoomKept
<1>9. ASSUME NEW e \in Exams, NEW u \in Users, remove_participant(w, e, u) PROVE Room'
  <2>1. Owned' = Owned /\ \A x \in Exams : Added(x)' \subseteq Added(x)
    BY <1>9 DEF remove_participant, Owned, Exists, Rows, TablesOK, Added
  <2>2. (overlapped => overlapped') /\ UNCHANGED requests
    BY <1>9 DEF remove_participant, AtOnce, Come
  <2> QED BY <1>2, <2>1, <2>2, RoomKept
<1>10. ASSUME UNCHANGED <<exams, participants, seated>>, overlapped => overlapped',
              Finish(w) \/ UNCHANGED requests
       PROVE  Room'
  <2>1. Owned' = Owned /\ \A x \in Exams : Added(x)' = Added(x)
    BY <1>10 DEF Owned, Exists, Added
  <2> QED BY <1>2, <1>10, <2>1, RoomKept DEF Finish
<1>11. ASSUME ReviewCommit(w) PROVE Room'
  <2>1. PICK new, r : /\ participants' = [participants EXCEPT ![requests[w].exam] = @ \cup new]
                      /\ seated' = [seated EXCEPT ![requests[w].exam] = @ \cup new]
                      /\ requests' = [requests EXCEPT ![w] = r]
                      /\ r = IF requests[w].todo = {} THEN Idle
                             ELSE [Idle EXCEPT !.op = "review", !.to = requests[w].to,
                                               !.todo = requests[w].todo]
    BY <1>11 DEF ReviewCommit
  <2>2. r.op \notin {"create", "add"}
    BY <2>1 DEF Idle
  <2>3. Owned' = Owned /\ (overlapped => overlapped')
    BY <1>11 DEF ReviewCommit, Serving, Owned, Exists
  <2>4. \A x \in Exams : Added(x)' \subseteq Added(x)
    BY <2>1 DEF Rows, TablesOK, Added
  <2> QED BY <2>1, <2>2, <2>3, <2>4, RoomKept
<1>12. ASSUME PublishCommit(w) PROVE Room'
  <2>1. PICK e : e = requests[w].exam
    OBVIOUS
  <2>2. e \in Exams
    BY <1>12, <2>1 DEF PublishCommit, Serving, Rows, RequestsOK, RequestOK
  <2> QED BY <1>6, <1>12, <2>1, <2>2 DEF PublishCommit, Serving
<1>13. ASSUME NEW e \in Exams, update_exam(w, e) \/ archive_exam(w, e) PROVE Room'
  BY <1>7, <1>13 DEF update_exam, archive_exam
<1>14. ASSUME ApplyCommit(w) PROVE Room'
  BY <1>10, <1>14 DEF ApplyCommit, Serving
<1>15. ASSUME NEW l \in Links,
              \/ deactivate_apply_link(w, l)
              \/ \E e \in Exams : create_apply_link(w, e, l)
       PROVE  Room'
  BY <1>10, <1>15 DEF deactivate_apply_link, create_apply_link, AtOnce, Come
<1>16. ASSUME \/ bulk_review(w)
              \/ \E e \in Exams, u \in Users : review_applicant(w, e, u)
       PROVE  Room'
  <2>1. PICK d, S : Begin(w, [Idle EXCEPT !.op = "review", !.to = d, !.todo = S])
    BY <1>16 DEF bulk_review, review_applicant
  <2>2. [Idle EXCEPT !.op = "review", !.to = d, !.todo = S].op = "review"
    BY DEF Idle
  <2> QED BY <1>1, <2>1, <2>2
<1>17. ASSUME NEW e \in Exams, publish_exam(w, e) PROVE Room'
  <2>1. [Idle EXCEPT !.op = "publish", !.exam = e].op = "publish"
    BY DEF Idle
  <2> QED BY <1>1, <1>17, <2>1 DEF publish_exam
<1>18. ASSUME NEW e \in Exams, NEW u \in Users, apply_direct(w, e, u) PROVE Room'
  <2>1. [Idle EXCEPT !.op = "apply", !.exam = e, !.user = u].op = "apply"
    BY DEF Idle
  <2> QED BY <1>1, <1>18, <2>1 DEF apply_direct
<1>19. ASSUME NEW l \in Links, NEW u \in Users, apply_by_link(w, l, u) PROVE Room'
  <2>1. PICK e, n : Begin(w, [Idle EXCEPT !.op = "apply", !.exam = e, !.user = u, !.link = l,
                                          !.seen = n])
    BY <1>19 DEF apply_by_link
  <2>2. [Idle EXCEPT !.op = "apply", !.exam = e, !.user = u, !.link = l, !.seen = n].op
            = "apply"
    BY DEF Idle
  <2> QED BY <1>1, <2>1, <2>2
<1> QED BY <1>3, <1>4, <1>5, <1>8, <1>9, <1>11, <1>12, <1>13, <1>14, <1>15, <1>16, <1>17,
           <1>18, <1>19

LEMMA NextKeepsRoom == Rows /\ Room /\ [Next]_vars => Room'
<1> SUFFICES ASSUME Rows, Room, [Next]_vars PROVE Room'
  OBVIOUS
<1>1. ASSUME NEW w \in Workers, ExamRequest(w) PROVE Room'
  BY <1>1, CountSteps, OtherSteps DEF ExamRequest, duplicate_exam
<1>2. ASSUME NEW w \in Workers, ApplyRequest(w) PROVE Room'
  BY <1>2, OtherSteps DEF ApplyRequest
<1>3. ASSUME NEW w \in Workers, Commit(w) \/ Abort(w) PROVE Room'
  BY <1>3, InsertSteps, OtherSteps DEF Commit
<1>4. CASE UNCHANGED vars
  <2>1. PICK w \in Workers : TRUE
    BY ConstantsAssumption
  <2>2. UNCHANGED tables /\ (overlapped => overlapped') /\ UNCHANGED requests
    BY <1>4 DEF vars
  <2>3. Idle.op = "idle"
    BY DEF Idle
  <2> QED BY <2>1, <2>2, <2>3, RoomUntouched
<1> QED BY <1>1, <1>2, <1>3, <1>4 DEF Next

LEMMA RoomWithinLimits == Rows /\ Room => PlanLimits
<1> SUFFICES ASSUME Rows, Room PROVE PlanLimits
  OBVIOUS
<1>1. Overshoot \in Nat
  <2>1. overlapped = TRUE \/ overlapped = FALSE
    BY DEF Rows, CountersOK
  <2> QED BY <2>1, WorkersCount DEF Overshoot
<1>2. Cardinality(Owned) <= MaxExams + Overshoot
  <2>1. IsFiniteSet(Owned) /\ Creating \in SUBSET Workers
    BY FS_Subset, ConstantsAssumption DEF Owned, Creating
  <2>2. Cardinality(Owned) \in Nat /\ Cardinality(Creating) \in Nat
    BY <2>1, WorkersCount, FS_CardinalityType
  <2> QED BY <1>1, <2>2, ConstantsAssumption DEF Room, ExamRoom
<1>3. ASSUME NEW e \in Exams
      PROVE  Cardinality(Added(e)) <= MaxParticipants + Overshoot
  <2>1. IsFiniteSet(Added(e)) /\ Adding(e) \in SUBSET Workers
    BY FS_Subset, ConstantsAssumption DEF Rows, TablesOK, Added, Adding
  <2>2. Cardinality(Added(e)) \in Nat /\ Cardinality(Adding(e)) \in Nat
    BY <2>1, WorkersCount, FS_CardinalityType
  <2> QED BY <1>1, <2>2, ConstantsAssumption DEF Room, PlaceRoom
<1> QED BY <1>2, <1>3 DEF PlanLimits, Added

\* An owner has no more exams than the plan allows, and an exam no more participants but
\* for those that came by a review, however many requests count at the same time: beyond
\* the limit there is at most one for every further worker, and none unless requests
\* overlapped (ExamService._check_exam_quota, _check_participant_quota).
THEOREM LimitsHold == Spec => []PlanLimits
<1>1. Init => Room
  BY InitRoom
<1>2. Rows /\ Room /\ [Next]_vars => Room'
  BY NextKeepsRoom
<1>3. Rows /\ Room => PlanLimits
  BY RoomWithinLimits
<1> QED BY <1>1, <1>2, <1>3, RowsInvariant, PTL DEF Spec

-------------------------------------------------------------------------------
(* The uses of a link, and what requests served one at a time may rely on. *)

\* What is recorded of a link: no more uses than there are applications, nor than allowed.
UseOK(l) ==
    apply_links[l].state = "present" =>
        /\ apply_links[l].use_count <= Cardinality(Uses(l))
        /\ apply_links[l].max_uses > 0 =>
              /\ apply_links[l].use_count <= apply_links[l].max_uses
              /\ apply_links[l].is_active => apply_links[l].use_count < apply_links[l].max_uses

\* What an application in flight has seen of its link.
SeenOK(r) ==
    r.op = "apply" /\ r.link # None /\ Exists(r.exam) =>
        /\ r.seen <= Cardinality(Uses(r.link))
        /\ apply_links[r.link].max_uses > 0 => r.seen < apply_links[r.link].max_uses

LinkRoom == (\A l \in Links : UseOK(l)) /\ \A w \in Workers : SeenOK(requests[w])

\* What a request that is served alone has checked and still holds.
Fresh(r) ==
    /\ r.op = "apply" =>
          /\ ~Applied(r.exam, r.user)
          /\ r.link # None => r.seen = apply_links[r.link].use_count
    /\ r.op = "decide" => Pending(r.exam, r.user)

Exact(l) ==
    apply_links[l].state = "present" =>
        /\ apply_links[l].use_count = Cardinality(Uses(l))
        /\ apply_links[l].use_count = apply_links[l].max_uses /\ apply_links[l].max_uses > 0 =>
               ~apply_links[l].is_active

Serial ==
    ~overlapped =>
        /\ \A v, w \in Workers : requests[v].op # "idle" /\ requests[w].op # "idle" => v = w
        /\ \A w \in Workers : Fresh(requests[w])
        /\ \A l \in Links : Exact(l)
        /\ \A e \in Exams, u \in Users :
              u \in seated[e] => applicants[e][u].status = "approved"

\* Before a step and after it.
LEMMA UsesCount ==
  ASSUME NEW l
  PROVE  /\ IsFiniteSet(Uses(l)) /\ Cardinality(Uses(l)) \in Nat
         /\ IsFiniteSet(Uses(l)') /\ Cardinality(Uses(l)') \in Nat
         /\ \A e \in Exams, u \in Users :
               /\ <<e, u>> \in Uses(l) <=> Applied(e, u) /\ applicants[e][u].link = l
               /\ <<e, u>> \in Uses(l)' <=> Applied(e, u)' /\ applicants'[e][u].link = l
<1>1. IsFiniteSet(Exams \X Users)
  BY FS_Product, ConstantsAssumption
<1>2. Uses(l) \in SUBSET (Exams \X Users) /\ Uses(l)' \in SUBSET (Exams \X Users)
  BY DEF Uses, Applications
<1>3. IsFiniteSet(Uses(l)) /\ IsFiniteSet(Uses(l)')
  BY <1>1, <1>2, FS_Subset
<1> QED BY <1>3, FS_CardinalityType DEF Uses, Applications

\* Applications change neither their number nor their link.
LEMMA SameUses ==
  ASSUME NEW l,
         \A e \in Exams, u \in Users :
             Applied(e, u)' /\ applicants'[e][u].link = l
                 <=> Applied(e, u) /\ applicants[e][u].link = l
  PROVE  Uses(l)' = Uses(l)
  BY DEF Uses, Applications

\* A link of an exam that is there keeps its limit and its uses.
LinksAdvance ==
    /\ \A e \in Exams : exams[e] # "absent" /\ Exists(e)' => Exists(e)
    /\ \A l \in Links, e \in Exams : apply_links[l].exam = e /\ Exists(e)' =>
           /\ apply_links'[l].max_uses = apply_links[l].max_uses
           /\ Uses(l) \subseteq Uses(l)'

LEMMA SeenSurvives ==
  ASSUME Rows, LinksAdvance, NEW r \in Request, RequestOK(r), SeenOK(r)
  PROVE  SeenOK(r)'
<1> SUFFICES ASSUME r.op = "apply", r.link # None, Exists(r.exam)'
             PROVE  /\ r.seen <= Cardinality(Uses(r.link)')
                    /\ apply_links'[r.link].max_uses > 0 =>
                           r.seen < apply_links'[r.link].max_uses
  BY DEF SeenOK
<1>1. r.exam \in Exams /\ r.link \in Links /\ r.seen \in Nat
  BY DEF RequestOK, Request
<1>2. Exists(r.exam)
  BY <1>1 DEF RequestOK, LinksAdvance
<1>3. /\ apply_links'[r.link].max_uses = apply_links[r.link].max_uses
      /\ Uses(r.link) \subseteq Uses(r.link)'
  BY <1>1, <1>2 DEF RequestOK, LinksAdvance
<1>4. /\ r.seen <= Cardinality(Uses(r.link))
      /\ apply_links[r.link].max_uses > 0 => r.seen < apply_links[r.link].max_uses
  BY <1>2 DEF SeenOK
<1>5. Cardinality(Uses(r.link)) <= Cardinality(Uses(r.link)')
      /\ Cardinality(Uses(r.link)) \in Nat /\ Cardinality(Uses(r.link)') \in Nat
  BY <1>3, UsesCount, FS_Subset
<1> QED BY <1>1, <1>3, <1>4, <1>5

\* The requests after a step of w.
LEMMA SeenStep ==
  ASSUME Rows, LinkRoom, LinksAdvance, NEW w \in Workers,
         \A v \in Workers \ {w} : requests'[v] = requests[v],
         requests'[w] = requests[w] \/ SeenOK(requests[w])'
  PROVE  \A v \in Workers : SeenOK(requests[v])'
<1> SUFFICES ASSUME NEW v \in Workers PROVE SeenOK(requests[v])'
  OBVIOUS
<1>1. CASE requests'[v] = requests[v]
  <2>1. PICK r : r = requests[v]
    OBVIOUS
  <2>2. r \in Request /\ RequestOK(r) /\ SeenOK(r)
    BY <2>1 DEF Rows, RequestsOK, LinkRoom
  <2>3. SeenOK(r)'
    BY <2>2, SeenSurvives
  <2> QED BY <1>1, <2>1, <2>3
<1>2. CASE SeenOK(requests[v])'
  BY <1>2
<1> QED BY <1>1, <1>2

\* One worker at a time: the others are idle before and after a step of w.
LEMMA OthersIdle ==
  ASSUME Rows, Serial, ~overlapped', NEW w \in Workers,
         \/ Come(w)
         \/ requests[w].op # "idle" /\ UNCHANGED overlapped,
         \A v \in Workers \ {w} : requests'[v] = requests[v]
  PROVE  /\ ~overlapped
         /\ \A v \in Workers \ {w} : requests[v].op = "idle" /\ requests'[v].op = "idle"
<1>1. ~overlapped
  BY DEF Come
<1>2. ASSUME NEW v \in Workers \ {w} PROVE requests[v].op = "idle"
  <2>1. CASE Come(w)
    BY <2>1 DEF Come, Busy
  <2>2. CASE requests[w].op # "idle"
    BY <1>1, <2>2 DEF Serial
  <2> QED BY <2>1, <2>2
<1> QED BY <1>1, <1>2

\* Serial after a step of w.
LEMMA SerialStep ==
  ASSUME Rows, Serial, NEW w \in Workers,
         \/ Come(w)
         \/ requests[w].op # "idle" /\ UNCHANGED overlapped,
         \A v \in Workers \ {w} : requests'[v] = requests[v],
         ~overlapped' =>
             /\ Fresh(requests[w])' /\ \A l \in Links : Exact(l)'
             /\ \A e \in Exams, u \in Users :
                   u \in seated'[e] => applicants'[e][u].status = "approved"
  PROVE  Serial'
<1> SUFFICES ASSUME ~overlapped'
             PROVE  /\ \A v, x \in Workers : requests'[v].op # "idle" /\ requests'[x].op # "idle"
                                                => v = x
                    /\ \A v \in Workers : Fresh(requests[v])'
  BY DEF Serial
<1>1. \A v \in Workers \ {w} : requests'[v].op = "idle"
  BY OthersIdle
<1>2. ASSUME NEW v \in Workers PROVE Fresh(requests[v])'
  <2>1. CASE v = w
    BY <2>1
  <2>2. CASE v # w
    BY <1>1, <2>2 DEF Fresh
  <2> QED BY <2>1, <2>2
<1> QED BY <1>1, <1>2

\* A step that touches neither links nor applications, nor begins to.
LEMMA QuietLinks ==
  ASSUME Rows, LinkRoom, Serial, NEW w \in Workers,
         \/ Come(w)
         \/ requests[w].op # "idle" /\ UNCHANGED overlapped,
         \A v \in Workers \ {w} : requests'[v] = requests[v],
         requests'[w] = requests[w] \/ requests'[w].op \notin {"apply", "decide"},
         UNCHANGED <<apply_links, applicants>>,
         \A e \in Exams : /\ exams[e] # "absent" /\ Exists(e)' => Exists(e)
                          /\ seated'[e] \subseteq seated[e]
  PROVE  LinkRoom' /\ Serial'
<1>1. \A l \in Links : Uses(l)' = Uses(l)
  BY DEF Uses, Applications, Applied
<1>2. LinksAdvance
  BY <1>1 DEF LinksAdvance
<1>3. SeenOK(requests[w])' \/ requests'[w] = requests[w]
  BY DEF SeenOK
<1>4. LinkRoom'
  <2>1. \A l \in Links : UseOK(l)'
    BY <1>1 DEF LinkRoom, UseOK
  <2> QED BY <1>2, <1>3, <2>1, SeenStep DEF LinkRoom
<1>5. Serial'
  <2> SUFFICES ASSUME ~overlapped'
               PROVE  /\ Fresh(requests[w])' /\ \A l \in Links : Exact(l)'
                      /\ \A e \in Exams, u \in Users :
                            u \in seated'[e] => applicants'[e][u].status = "approved"
    BY SerialStep
  <2>1. ~overlapped
    BY OthersIdle
  <2>2. \A l \in Links : Exact(l)'
    BY <1>1, <2>1 DEF Serial, Exact
  <2>3. Fresh(requests[w])'
    <3>1. CASE requests'[w] = requests[w]
      <4>1. PICK r : r = requests[w]
        OBVIOUS
      <4>2. Fresh(r)
        BY <2>1, <4>1 DEF Serial
      <4>3. Fresh(r)'
        BY <4>2 DEF Fresh, Applied, Pending
      <4> QED BY <3>1, <4>1, <4>3
    <3>2. CASE requests'[w].op \notin {"apply", "decide"}
      BY <3>2 DEF Fresh
    <3> QED BY <3>1, <3>2
  <2> QED BY <2>1, <2>2, <2>3 DEF Serial
<1> QED BY <1>4, <1>5

LEMMA QuietSteps ==
  ASSUME Rows, LinkRoom, Serial, NEW w \in Workers,
         \/ create_exam(w) \/ bulk_review(w) \/ ReviewSkip(w) \/ Abort(w)
         \/ CreateCommit(w) \/ PublishCommit(w) \/ AddCommit(w)
         \/ \E e \in Exams :
               \/ publish_exam(w, e) \/ update_exam(w, e) \/ archive_exam(w, e)
               \/ \E u \in Users : \/ add_participant(w, e, u) \/ remove_participant(w, e, u)
                                   \/ review_applicant(w, e, u)
  PROVE  LinkRoom' /\ Serial'
<1> DEFINE P == LinkRoom' /\ Serial'
<1> HIDE DEF P
<1>1. ASSUME NEW r, r.op \notin {"apply", "decide"}, Begin(w, r) PROVE P
  <2>1. /\ requests'[w] = r /\ \A v \in Workers \ {w} : requests'[v] = requests[v]
        /\ Come(w) /\ UNCHANGED <<apply_links, applicants, seated, exams>>
    BY <1>1 DEF Begin, Rows, tables
  <2> QED BY <1>1, <2>1, QuietLinks DEF Exists, P
<1>2. ASSUME AtOnce(w), UNCHANGED <<apply_links, applicants>>,
             \A e \in Exams : /\ exams[e] # "absent" /\ Exists(e)' => Exists(e)
                              /\ seated'[e] \subseteq seated[e]
      PROVE  P
  <2>1. Come(w) /\ \A v \in Workers : requests'[v] = requests[v]
    BY <1>2 DEF AtOnce
  <2> QED BY <1>2, <2>1, QuietLinks DEF P
<1>3. ASSUME requests[w].op # "idle", UNCHANGED overlapped, Finish(w),
             UNCHANGED <<apply_links, applicants, seated>>,
             \A e \in Exams : exams[e] # "absent" /\ Exists(e)' => Exists(e)
      PROVE  P
  <2>1. /\ \A v \in Workers \ {w} : requests'[v] = requests[v]
        /\ requests'[w].op \notin {"apply", "decide"}
    BY <1>3 DEF Finish, Rows, Idle
  <2> QED BY <1>3, <2>1, QuietLinks DEF P
<1>4. ASSUME create_exam(w) PROVE P
  <2>1. [Idle EXCEPT !.op = "create"].op = "create"
    BY DEF Idle
  <2> QED BY <1>1, <1>4, <2>1 DEF create_exam
<1>5. ASSUME bulk_review(w) \/ \E e \in Exams, u \in Users : review_applicant(w, e, u) PROVE P
  <2>1. PICK d, S : Begin(w, [Idle EXCEPT !.op = "review", !.to = d, !.todo = S])
    BY <1>5 DEF bulk_review, review_applicant
  <2>2. [Idle EXCEPT !.op = "review", !.to = d, !.todo = S].op = "review"
    BY DEF Idle
  <2> QED BY <1>1, <2>1, <2>2
<1>6. ASSUME ReviewSkip(w) PROVE P
  <2>1. PICK p \in requests[w].todo :
          \/ requests[w].todo = {p} /\ Finish(w)
          \/ requests' = [requests EXCEPT ![w].todo = @ \ {p}]
    BY <1>6 DEF ReviewSkip
  <2>2. UNCHANGED tables /\ UNCHANGED overlapped /\ requests[w].op = "review"
    BY <1>6 DEF ReviewSkip, Serving
  <2>3. UNCHANGED <<exams, apply_links, applicants, seated>>
    BY <2>2 DEF tables
  <2>4. CASE Finish(w)
    BY <1>3, <2>2, <2>3, <2>4 DEF Exists
  <2>5. CASE requests' = [requests EXCEPT ![w].todo = @ \ {p}]
    <3>1. /\ requests'[w].op = "review"
          /\ \A v \in Workers \ {w} : requests'[v] = requests[v]
      BY <2>2, <2>5 DEF Rows, Request
    <3> QED BY <2>2, <2>3, <3>1, QuietLinks DEF Exists, P
  <2> QED BY <2>1, <2>4, <2>5
<1>7. ASSUME Abort(w) PROVE P
  BY <1>3, <1>7 DEF Abort, Serving, tables, Exists
<1>8. ASSUME CreateCommit(w) PROVE P
  <2>1. PICK e \in Exams : exams[e] = "absent" /\ exams' = [exams EXCEPT ![e] = "draft"]
    BY <1>8 DEF CreateCommit
  <2>2. \A x \in Exams : exams[x] # "absent" /\ Exists(x)' => Exists(x)
    BY <2>1 DEF Rows, TablesOK, Exists
  <2> QED BY <1>3, <1>8, <2>2 DEF CreateCommit, Serving
<1>9. ASSUME NEW e \in Exams, Exists(e), NEW s, exams' = [exams EXCEPT ![e] = s]
      PROVE  \A x \in Exams : exams[x] # "absent" /\ Exists(x)' => Exists(x)
  BY <1>9 DEF Rows, TablesOK, Exists
<1>10. ASSUME PublishCommit(w) PROVE P
  <2>1. PICK e : e = requests[w].exam
    OBVIOUS
  <2>2. /\ e \in Exams /\ Exists(e) /\ exams' = [exams EXCEPT ![e] = "active"]
        /\ UNCHANGED <<apply_links, applicants, seated, overlapped>> /\ Finish(w)
        /\ requests[w].op # "idle"
    BY <1>10, <2>1 DEF PublishCommit, Serving, Rows, RequestsOK, RequestOK
  <2> QED BY <1>3, <1>9, <2>2
<1>11. ASSUME AddCommit(w) PROVE P
  BY <1>3, <1>11 DEF AddCommit, Serving, Exists
<1>12. ASSUME NEW e \in Exams, publish_exam(w, e) PROVE P
  <2>1. [Idle EXCEPT !.op = "publish", !.exam = e].op = "publish"
    BY DEF Idle
  <2> QED BY <1>1, <1>12, <2>1 DEF publish_exam
<1>13. ASSUME NEW e \in Exams, update_exam(w, e) \/ archive_exam(w, e) PROVE P
  <2>1. PICK s : exams' = [exams EXCEPT ![e] = s]
    BY <1>13 DEF update_exam, archive_exam
  <2>2. AtOnce(w) /\ Exists(e) /\ UNCHANGED <<apply_links, applicants, seated>>
    BY <1>13 DEF update_exam, archive_exam
  <2> QED BY <1>2, <1>9, <2>1, <2>2
<1>14. ASSUME NEW e \in Exams, NEW u \in Users, add_participant(w, e, u) PROVE P
  <2>1. [Idle EXCEPT !.op = "add", !.exam = e, !.user = u].op = "add"
    BY DEF Idle
  <2> QED BY <1>1, <1>14, <2>1 DEF add_participant
<1>15. ASSUME NEW e \in Exams, NEW u \in Users, remove_participant(w, e, u) PROVE P
  <2>1. \A x \in Exams : /\ Exists(x)' <=> Exists(x)
                         /\ seated'[x] \subseteq seated[x]
    BY <1>15 DEF remove_participant, Rows, TablesOK, Exists
  <2> QED BY <1>2, <1>15, <2>1 DEF remove_participant
<1> QED BY <1>4, <1>5, <1>6, <1>7, <1>8, <1>10, <1>11, <1>12, <1>13, <1>14, <1>15 DEF P

LEMMA DeleteKeepsLinks ==
  ASSUME Rows, LinkRoom, Serial, NEW w \in Workers, NEW e \in Exams, delete_exam(w, e)
  PROVE  LinkRoom' /\ Serial'
<1>1. /\ exams' = [exams EXCEPT ![e] = "deleted"]
      /\ seated' = [seated EXCEPT ![e] = {}]
      /\ applicants' = [applicants EXCEPT ![e] = [u \in Users |-> NoApplicant]]
      /\ apply_links' = [l \in Links |-> IF apply_links[l].exam = e
                             THEN [NoLink EXCEPT !.state = "deleted"] ELSE apply_links[l]]
      /\ Come(w) /\ UNCHANGED requests
  BY DEF delete_exam, AtOnce
<1>2. \A l \in Links : IF apply_links[l].exam = e THEN apply_links'[l].state = "deleted"
                       ELSE apply_links'[l] = apply_links[l]
  BY <1>1 DEF NoLink
<1>3. \A x \in Exams, u \in Users : IF x = e THEN applicants'[x][u] = NoApplicant
                                    ELSE applicants'[x][u] = applicants[x][u]
  BY <1>1 DEF Rows, TablesOK
<1>4. ASSUME NEW l \in Links, apply_links[l].exam # e PROVE Uses(l)' = Uses(l)
  <2>1. ASSUME NEW x \in Exams, NEW u \in Users
        PROVE  Applied(x, u)' /\ applicants'[x][u].link = l
                   <=> Applied(x, u) /\ applicants[x][u].link = l
    <3>1. CASE x # e
      BY <1>3, <3>1 DEF Applied
    <3>2. CASE x = e
      <4>1. applicants[x][u].link # l
        BY <1>4, <3>2, ConstantsAssumption DEF Rows, TablesOK, LinksOK
      <4>2. applicants'[x][u].status = "none"
        BY <1>3, <3>2 DEF NoApplicant
      <4> QED BY <4>1, <4>2 DEF Applied
    <3> QED BY <3>1, <3>2
  <2> QED BY <2>1, SameUses
<1>5. \A x \in Exams : Exists(x)' <=> x # e /\ Exists(x)
  BY <1>1 DEF Rows, TablesOK, Exists, ExamStatus
<1>6. LinksAdvance
  BY <1>2, <1>4, <1>5 DEF LinksAdvance
<1>7. LinkRoom'
  <2>1. ASSUME NEW l \in Links PROVE UseOK(l)'
    <3>1. CASE apply_links[l].exam = e
      BY <1>2, <3>1 DEF UseOK
    <3>2. CASE apply_links[l].exam # e
      BY <1>2, <1>4, <3>2 DEF LinkRoom, UseOK
    <3> QED BY <3>1, <3>2
  <2>2. \A v \in Workers : requests'[v] = requests[v]
    BY <1>1
  <2> QED BY <1>6, <2>1, <2>2, SeenStep DEF LinkRoom
<1>8. Serial'
  <2> SUFFICES ASSUME ~overlapped'
               PROVE  /\ Fresh(requests[w])' /\ \A l \in Links : Exact(l)'
                      /\ \A x \in Exams, u \in Users :
                            u \in seated'[x] => applicants'[x][u].status = "approved"
    BY <1>1, SerialStep
  <2>1. ~overlapped
    BY <1>1, OthersIdle
  <2>2. ASSUME NEW l \in Links PROVE Exact(l)'
    <3>1. CASE apply_links[l].exam = e
      BY <1>2, <3>1 DEF Exact
    <3>2. CASE apply_links[l].exam # e
      BY <1>2, <1>4, <2>1, <3>2 DEF Serial, Exact
    <3> QED BY <3>1, <3>2
  <2>3. Fresh(requests[w])'
    BY <1>1 DEF Fresh, Come
  <2>4. ASSUME NEW x \in Exams, NEW u \in Users, u \in seated'[x]
        PROVE  applicants'[x][u].status = "approved"
    <3>1. x # e /\ u \in seated[x]
      BY <1>1, <2>4 DEF Rows, TablesOK
    <3> QED BY <1>3, <2>1, <3>1 DEF Serial
  <2> QED BY <2>2, <2>3, <2>4
<1> QED BY <1>7, <1>8

\* A link is inserted without uses, or one stops to be active.
LEMMA LinkKeepsLinks ==
  ASSUME Rows, LinkRoom, Serial, NEW w \in Workers, NEW l \in Links,
         \/ \E e \in Exams : create_apply_link(w, e, l)
         \/ deactivate_apply_link(w, l)
  PROVE  LinkRoom' /\ Serial'
<1>1. /\ UNCHANGED <<exams, applicants, seated, requests>> /\ Come(w)
      /\ \A k \in Links \ {l} : apply_links'[k] = apply_links[k]
  BY DEF create_apply_link, deactivate_apply_link, AtOnce, Rows, TablesOK
<1>2. \A k \in Links : Uses(k)' = Uses(k)
  BY <1>1 DEF Uses, Applications, Applied
<1>3. \/ /\ apply_links[l].exam = None /\ Uses(l) = {}
         /\ apply_links'[l].use_count = 0 /\ apply_links'[l].max_uses \in Nat
      \/ /\ apply_links'[l].use_count = apply_links[l].use_count
         /\ apply_links'[l].max_uses = apply_links[l].max_uses
         /\ apply_links[l].state = "present" /\ apply_links'[l].is_active = FALSE
  <2>1. ASSUME NEW e \in Exams, create_apply_link(w, e, l)
        PROVE  /\ apply_links[l].exam = None /\ Uses(l) = {}
               /\ apply_links'[l].use_count = 0 /\ apply_links'[l].max_uses \in Nat
    <3>1. apply_links[l].exam = None
      BY <2>1 DEF create_apply_link, Rows, TablesOK, LinksOK
    <3>2. ASSUME NEW x \in Exams, NEW u \in Users PROVE applicants[x][u].link # l
      BY <3>1, ConstantsAssumption DEF Rows, TablesOK, LinksOK
    <3>3. Uses(l) = {}
      BY <3>2 DEF Uses, Applications
    <3>4. PICK n \in UseLimits : apply_links' = [apply_links EXCEPT ![l] =
              [state |-> "present", exam |-> e, max_uses |-> n, use_count |-> 0,
               is_active |-> TRUE]]
      BY <2>1 DEF create_apply_link
    <3> QED BY <3>1, <3>3, <3>4, ConstantsAssumption DEF Rows, TablesOK
  <2>2. ASSUME deactivate_apply_link(w, l)
        PROVE  /\ apply_links'[l].use_count = apply_links[l].use_count
               /\ apply_links'[l].max_uses = apply_links[l].max_uses
               /\ apply_links[l].state = "present" /\ apply_links'[l].is_active = FALSE
    BY <2>2 DEF deactivate_apply_link, Rows, TablesOK, ApplyLink
  <2> QED BY <2>1, <2>2
<1>4. LinksAdvance
  BY <1>1, <1>2, <1>3, ConstantsAssumption DEF LinksAdvance, Exists
<1>5. LinkRoom'
  <2>1. ASSUME NEW k \in Links PROVE UseOK(k)'
    <3>1. CASE k # l
      BY <1>1, <1>2, <3>1 DEF LinkRoom, UseOK
    <3>2. CASE k = l
      <4>1. CASE Uses(l) = {} /\ apply_links'[l].use_count = 0 /\ apply_links'[l].max_uses \in Nat
        BY <1>2, <3>2, <4>1, FS_EmptySet DEF UseOK
      <4>2. CASE /\ apply_links'[l].use_count = apply_links[l].use_count
                 /\ apply_links'[l].max_uses = apply_links[l].max_uses
                 /\ apply_links[l].state = "present" /\ apply_links'[l].is_active = FALSE
        BY <1>2, <3>2, <4>2 DEF LinkRoom, UseOK
      <4> QED BY <1>3, <4>1, <4>2
    <3> QED BY <3>1, <3>2
  <2> QED BY <1>1, <1>4, <2>1, SeenStep DEF LinkRoom
<1>6. Serial'
  <2> SUFFICES ASSUME ~overlapped'
               PROVE  /\ Fresh(requests[w])' /\ \A k \in Links : Exact(k)'
                      /\ \A x \in Exams, u \in Users :
                            u \in seated'[x] => applicants'[x][u].status = "approved"
    BY <1>1, SerialStep
  <2>1. ~overlapped
    BY <1>1, OthersIdle
  <2>2. ASSUME NEW k \in Links PROVE Exact(k)'
    <3>1. CASE k # l
      BY <1>1, <1>2, <2>1, <3>1 DEF Serial, Exact
    <3>2. CASE k = l
      <4>1. CASE Uses(l) = {} /\ apply_links'[l].use_count = 0 /\ apply_links'[l].max_uses \in Nat
        BY <1>2, <3>2, <4>1, FS_EmptySet DEF Exact
      <4>2. CASE /\ apply_links'[l].use_count = apply_links[l].use_count
                 /\ apply_links[l].state = "present" /\ apply_links'[l].is_active = FALSE
        BY <1>2, <2>1, <3>2, <4>2 DEF Serial, Exact
      <4> QED BY <1>3, <4>1, <4>2
    <3> QED BY <3>1, <3>2
  <2>3. Fresh(requests[w])'
    BY <1>1 DEF Fresh, Come
  <2> QED BY <1>1, <2>1, <2>2, <2>3 DEF Serial
<1> QED BY <1>5, <1>6

\* An application or a review begins, from rows as they are.
LEMMA BeginKeepsLinks ==
  ASSUME Rows, LinkRoom, Serial, NEW w \in Workers, UNCHANGED tables,
         Come(w) \/ (requests[w].op # "idle" /\ UNCHANGED overlapped),
         NEW r, requests' = [requests EXCEPT ![w] = r], SeenOK(r), Fresh(r)
  PROVE  LinkRoom' /\ Serial'
<1>1. /\ requests'[w] = r /\ \A v \in Workers \ {w} : requests'[v] = requests[v]
      /\ UNCHANGED <<exams, apply_links, applicants, participants, seated>>
  BY DEF Rows, tables
<1>2. \A l \in Links : Uses(l)' = Uses(l)
  BY <1>1 DEF Uses, Applications, Applied
<1>3. LinksAdvance
  BY <1>1, <1>2 DEF LinksAdvance, Exists
<1>4. SeenOK(r)'
  BY <1>1 DEF SeenOK, Exists, Uses, Applications, Applied
<1>5. LinkRoom'
  <2>1. \A l \in Links : UseOK(l)'
    BY <1>1, <1>2 DEF LinkRoom, UseOK
  <2> QED BY <1>1, <1>3, <1>4, <2>1, SeenStep DEF LinkRoom
<1>6. Serial'
  <2> SUFFICES ASSUME ~overlapped'
               PROVE  /\ Fresh(requests[w])' /\ \A k \in Links : Exact(k)'
                      /\ \A x \in Exams, u \in Users :
                            u \in seated'[x] => applicants'[x][u].status = "approved"
    BY <1>1, SerialStep
  <2>1. ~overlapped
    BY <1>1, OthersIdle
  <2>2. Fresh(r)'
    BY <1>1 DEF Fresh, Applied, Pending
  <2>3. \A k \in Links : Exact(k)'
    BY <1>1, <1>2, <2>1 DEF Serial, Exact
  <2> QED BY <1>1, <2>1, <2>2, <2>3 DEF Serial
<1> QED BY <1>5, <1>6

LEMMA CheckedSteps ==
  ASSUME Rows, LinkRoom, Serial, NEW w \in Workers,
         \/ ReviewRead(w)
         \/ \E e \in Exams, u \in Users : apply_direct(w, e, u)
         \/ \E l \in Links, u \in Users : apply_by_link(w, l, u)
  PROVE  LinkRoom' /\ Serial'
<1>1. ASSUME ReviewRead(w) PROVE LinkRoom' /\ Serial'
  <2>1. PICK p \in requests[w].todo :
          /\ Pending(p[1], p[2])
          /\ requests' = [requests EXCEPT ![w].op = "decide", ![w].exam = p[1],
                                          ![w].user = p[2], ![w].todo = @ \ {p}]
    BY <1>1 DEF ReviewRead
  <2> DEFINE r == [requests[w] EXCEPT !.op = "decide", !.exam = p[1], !.user = p[2],
                                      !.todo = @ \ {p}]
  <2>2. requests[w] \in Request
    BY DEF Rows
  <2>3. r.op = "decide" /\ r.exam = p[1] /\ r.user = p[2] /\ requests' = [requests EXCEPT ![w] = r]
    BY <2>1, <2>2 DEF Rows, Request
  <2>4. SeenOK(r) /\ Fresh(r)
    BY <2>1, <2>3 DEF SeenOK, Fresh
  <2>5. UNCHANGED tables /\ requests[w].op # "idle" /\ UNCHANGED overlapped
    BY <1>1 DEF ReviewRead, Serving
  <2> HIDE DEF r
  <2> QED BY <2>3, <2>4, <2>5, BeginKeepsLinks
<1>2. ASSUME NEW e \in Exams, NEW u \in Users, apply_direct(w, e, u)
      PROVE  LinkRoom' /\ Serial'
  <2> DEFINE r == [Idle EXCEPT !.op = "apply", !.exam = e, !.user = u]
  <2>1. r.op = "apply" /\ r.exam = e /\ r.user = u /\ r.link = None
    BY DEF Idle
  <2>2. SeenOK(r) /\ Fresh(r)
    BY <1>2, <2>1 DEF SeenOK, Fresh, apply_direct, CanApply
  <2> HIDE DEF r
  <2>3. Begin(w, r)
    BY <1>2 DEF apply_direct, r
  <2> QED BY <2>2, <2>3, BeginKeepsLinks DEF Begin
<1>3. ASSUME NEW l \in Links, NEW u \in Users, apply_by_link(w, l, u)
      PROVE  LinkRoom' /\ Serial'
  <2> DEFINE r == [Idle EXCEPT !.op = "apply", !.exam = apply_links[l].exam, !.user = u,
                               !.link = l, !.seen = apply_links[l].use_count]
  <2>1. /\ r.op = "apply" /\ r.exam = apply_links[l].exam /\ r.user = u /\ r.link = l
        /\ r.seen = apply_links[l].use_count
    BY DEF Idle
  <2>2. Begin(w, r)
    BY <1>3 DEF apply_by_link
  <2> HIDE DEF r
  <2>3. /\ apply_links[l].is_active
        /\ apply_links[l].max_uses = 0 \/ apply_links[l].use_count < apply_links[l].max_uses
    BY <1>3 DEF apply_by_link
  <2>4. apply_links[l].state = "present"
    BY <2>3 DEF Rows, TablesOK, LinksOK
  <2>5. SeenOK(r)
    BY <2>1, <2>3, <2>4 DEF SeenOK, LinkRoom, UseOK
  <2>6. Fresh(r)
    BY <1>3, <2>1 DEF Fresh, apply_by_link, CanApply
  <2> QED BY <2>2, <2>5, <2>6, BeginKeepsLinks DEF Begin
<1> QED BY <1>1, <1>2, <1>3

\* UsedOnce counts one more than was seen, and stops at the limit.
LEMMA UsedOnceRow ==
  ASSUME NEW link \in ApplyLink, NEW n \in Nat
  PROVE  /\ UsedOnce(link, n).state = link.state /\ UsedOnce(link, n).exam = link.exam
         /\ UsedOnce(link, n).max_uses = link.max_uses
         /\ UsedOnce(link, n).use_count = n + 1
         /\ UsedOnce(link, n).is_active =>
                link.max_uses = 0 \/ n + 1 < link.max_uses
<1>1. /\ UsedOnce(link, n).state = link.state /\ UsedOnce(link, n).exam = link.exam
      /\ UsedOnce(link, n).max_uses = link.max_uses
      /\ UsedOnce(link, n).use_count = n + 1
      /\ UsedOnce(link, n).is_active =
             (link.is_active /\ (link.max_uses = 0 \/ n + 1 < link.max_uses))
  BY ZenonT(30) DEF UsedOnce, ApplyLink
<1> QED BY <1>1

LEMMA ApplyKeepsLinks ==
  ASSUME Rows, LinkRoom, Serial, NEW w \in Workers, ApplyCommit(w)
  PROVE  LinkRoom' /\ Serial'
<1>1. PICK r : r = requests[w]
  OBVIOUS
<1>2. PICK e, u, k : e = r.exam /\ u = r.user /\ k = r.link
  OBVIOUS
<1>3. /\ r \in Request /\ r.op = "apply" /\ e \in Exams /\ u \in Users /\ Exists(e)
      /\ k # None => apply_links[k].exam = e
      /\ ~Applied(e, u) /\ SeenOK(r)
  BY <1>1, <1>2 DEF ApplyCommit, Serving, Rows, RequestsOK, RequestOK, LinkRoom
<1>4. r.seen \in Nat /\ k \in Links \cup {None}
  BY <1>2, <1>3 DEF Request
<1>5. /\ applicants' = [applicants EXCEPT ![e][u] = [status |-> "pending", link |-> k]]
      /\ apply_links' = IF k = None THEN apply_links
                        ELSE [apply_links EXCEPT ![k] = UsedOnce(@, r.seen)]
      /\ UNCHANGED <<exams, participants, seated, overlapped>>
      /\ requests' = [requests EXCEPT ![w] = Idle] /\ requests[w].op # "idle"
  BY <1>1, <1>2 DEF ApplyCommit, Serving, Finish
<1>6. /\ applicants'[e][u].status = "pending" /\ applicants'[e][u].link = k
      /\ \A x \in Exams, y \in Users : x # e \/ y # u => applicants'[x][y] = applicants[x][y]
  BY <1>3, <1>5 DEF Rows, TablesOK
<1>7. /\ requests'[w] = Idle /\ \A v \in Workers \ {w} : requests'[v] = requests[v]
      /\ SeenOK(requests[w])' /\ Fresh(requests[w])'
  BY <1>5 DEF Rows, Idle, SeenOK, Fresh
<1>8. ASSUME NEW l \in Links, l # k PROVE Uses(l)' = Uses(l) /\ apply_links'[l] = apply_links[l]
  <2>1. ASSUME NEW x \in Exams, NEW y \in Users
        PROVE  Applied(x, y)' /\ applicants'[x][y].link = l
                   <=> Applied(x, y) /\ applicants[x][y].link = l
    <3>1. CASE x = e /\ y = u
      BY <1>3, <1>6, <1>8, <3>1
    <3>2. CASE x # e \/ y # u
      BY <1>6, <3>2 DEF Applied
    <3> QED BY <3>1, <3>2
  <2>2. apply_links'[l] = apply_links[l]
    BY <1>4, <1>5, <1>8 DEF Rows, TablesOK
  <2> QED BY <2>1, <2>2, SameUses
<1>9. ASSUME k # None
      PROVE  /\ Uses(k) \subseteq Uses(k)'
             /\ Cardinality(Uses(k)') = Cardinality(Uses(k)) + 1
  <2>1. Uses(k)' = Uses(k) \cup {<<e, u>>} /\ <<e, u>> \notin Uses(k)
    <3>1. <<e, u>> \notin Uses(k) /\ <<e, u>> \in Uses(k)'
      BY <1>3, <1>6, UsesCount DEF Applied
    <3>2. \A p \in Exams \X Users : p # <<e, u>> => (p \in Uses(k)' <=> p \in Uses(k))
      <4>1. ASSUME NEW x \in Exams, NEW y \in Users, x # e \/ y # u
            PROVE  <<x, y>> \in Uses(k)' <=> <<x, y>> \in Uses(k)
        BY <1>6, <4>1, UsesCount DEF Applied
      <4> QED BY <4>1
    <3>3. Uses(k) \subseteq Exams \X Users /\ Uses(k)' \subseteq Exams \X Users
      BY DEF Uses, Applications
    <3> QED BY <3>1, <3>2, <3>3
  <2> QED BY <2>1, UsesCount, FS_AddElement
<1>10. ASSUME k # None
       PROVE  /\ apply_links[k].state = "present" /\ apply_links'[k].state = "present"
              /\ apply_links'[k].max_uses = apply_links[k].max_uses
              /\ apply_links'[k].use_count = r.seen + 1
              /\ apply_links'[k].is_active =>
                     apply_links[k].max_uses = 0 \/ r.seen + 1 < apply_links[k].max_uses
              /\ apply_links[k].max_uses \in Nat
              /\ r.seen <= Cardinality(Uses(k))
              /\ apply_links[k].max_uses > 0 => r.seen < apply_links[k].max_uses
  <2>1. k \in Links /\ apply_links[k] \in ApplyLink
    BY <1>4, <1>10 DEF Rows, TablesOK
  <2>2. apply_links[k].state = "present"
    BY <1>3, <1>10, <2>1, ConstantsAssumption DEF Rows, TablesOK, LinksOK
  <2>3. apply_links'[k] = UsedOnce(apply_links[k], r.seen)
    BY <1>5, <1>10, <2>1 DEF Rows, TablesOK
  <2>4. apply_links[k].max_uses \in Nat
    <3>1. apply_links[k].max_uses \in UseLimits \cup {0}
      BY <2>1 DEF ApplyLink
    <3>2. UseLimits \cup {0} \subseteq Nat
      BY ConstantsAssumption
    <3> QED BY <3>1, <3>2
  <2>5. /\ r.seen <= Cardinality(Uses(k))
        /\ apply_links[k].max_uses > 0 => r.seen < apply_links[k].max_uses
    BY <1>2, <1>3, <1>10 DEF SeenOK
  <2> QED BY <1>4, <2>1, <2>2, <2>3, <2>4, <2>5, UsedOnceRow
<1>11. LinksAdvance
  <2>1. ASSUME NEW l \in Links
        PROVE  apply_links'[l].max_uses = apply_links[l].max_uses /\ Uses(l) \subseteq Uses(l)'
    <3>1. CASE l = k
      BY <1>9, <1>10, <3>1, ConstantsAssumption
    <3>2. CASE l # k
      BY <1>8, <3>2
    <3> QED BY <3>1, <3>2
  <2> QED BY <1>5, <2>1 DEF LinksAdvance, Exists
<1>12. LinkRoom'
  <2>1. ASSUME NEW l \in Links PROVE UseOK(l)'
    <3>1. CASE l = k
      BY <1>4, <1>9, <1>10, <3>1, UsesCount, ConstantsAssumption DEF UseOK
    <3>2. CASE l # k
      BY <1>8, <3>2 DEF LinkRoom, UseOK
    <3> QED BY <3>1, <3>2
  <2> QED BY <1>7, <1>11, <2>1, SeenStep DEF LinkRoom
<1>13. Serial'
  <2> SUFFICES ASSUME ~overlapped'
               PROVE  /\ Fresh(requests[w])' /\ \A l \in Links : Exact(l)'
                      /\ \A x \in Exams, y \in Users :
                            y \in seated'[x] => applicants'[x][y].status = "approved"
    BY <1>5, <1>7, SerialStep
  <2>1. ~overlapped /\ Fresh(r)
    BY <1>1, <1>5 DEF Serial
  <2>2. ASSUME NEW l \in Links PROVE Exact(l)'
    <3>1. CASE l = k
      <4>1. k # None
        BY <3>1, ConstantsAssumption
      <4>2. r.seen = Cardinality(Uses(k))
        BY <1>2, <1>3, <1>10, <2>1, <3>1, <4>1 DEF Fresh, Serial, Exact
      <4>3. apply_links'[k].use_count = Cardinality(Uses(k)')
        BY <1>9, <1>10, <4>1, <4>2
      <4>4. apply_links'[k].use_count = apply_links'[k].max_uses /\ apply_links'[k].max_uses > 0
               => ~apply_links'[k].is_active
        BY <1>4, <1>10, <4>1
      <4> QED BY <3>1, <4>3, <4>4 DEF Exact
    <3>2. CASE l # k
      BY <1>8, <2>1, <3>2 DEF Serial, Exact
    <3> QED BY <3>1, <3>2
  <2>3. ASSUME NEW x \in Exams, NEW y \in Users, y \in seated'[x]
        PROVE  applicants'[x][y].status = "approved"
    <3>1. applicants[x][y].status = "approved"
      BY <1>5, <2>1, <2>3 DEF Serial
    <3>2. x # e \/ y # u
      BY <1>3, <3>1 DEF Applied
    <3> QED BY <1>6, <3>1, <3>2
  <2> QED BY <1>7, <2>2, <2>3
<1> QED BY <1>12, <1>13

LEMMA ReviewKeepsLinks ==
  ASSUME Rows, LinkRoom, Serial, NEW w \in Workers, ReviewCommit(w)
  PROVE  /\ LinkRoom' /\ Serial'
         /\ ~overlapped' => Pending(requests[w].exam, requests[w].user)
<1>1. PICK r : r = requests[w]
  OBVIOUS
<1>2. PICK e, u, new, next :
         /\ e = r.exam /\ u = r.user
         /\ new = IF r.to = "approved" THEN {u} \ participants[e] ELSE {}
         /\ next = IF r.todo = {} THEN Idle
                   ELSE [Idle EXCEPT !.op = "review", !.to = r.to, !.todo = r.todo]
  OBVIOUS
<1>3. r \in Request /\ r.op = "decide" /\ e \in Exams /\ u \in Users /\ Applied(e, u)
      /\ r.to \in Decision
  BY <1>1, <1>2 DEF ReviewCommit, Serving, Rows, RequestsOK, RequestOK, Request
<1>4. /\ applicants' = [applicants EXCEPT ![e][u].status = r.to]
      /\ seated' = [seated EXCEPT ![e] = @ \cup new]
      /\ requests' = [requests EXCEPT ![w] = next]
      /\ UNCHANGED <<exams, apply_links, overlapped>> /\ requests[w].op # "idle"
  BY <1>1, <1>2 DEF ReviewCommit, Serving
<1>5. next.op \notin {"apply", "decide"}
  BY <1>2 DEF Idle
<1>6. /\ requests'[w] = next /\ \A v \in Workers \ {w} : requests'[v] = requests[v]
      /\ SeenOK(requests[w])' /\ Fresh(requests[w])'
  BY <1>4, <1>5 DEF Rows, SeenOK, Fresh
<1>7. /\ applicants'[e][u].status = r.to /\ applicants'[e][u].link = applicants[e][u].link
      /\ \A x \in Exams, y \in Users : x # e \/ y # u => applicants'[x][y] = applicants[x][y]
  <2>1. applicants[e][u] \in Applicant
    BY <1>3 DEF Rows, TablesOK
  <2> QED BY <1>3, <1>4, <2>1 DEF Rows, TablesOK, Applicant
<1>8. ASSUME NEW l PROVE Uses(l)' = Uses(l)
  <2>1. ASSUME NEW x \in Exams, NEW y \in Users
        PROVE  Applied(x, y)' /\ applicants'[x][y].link = l
                   <=> Applied(x, y) /\ applicants[x][y].link = l
    <3>1. CASE x = e /\ y = u
      BY <1>3, <1>7, <3>1 DEF Applied, Decision
    <3>2. CASE x # e \/ y # u
      BY <1>7, <3>2 DEF Applied
    <3> QED BY <3>1, <3>2
  <2> QED BY <2>1, SameUses
<1>9. LinkRoom'
  <2>1. LinksAdvance
    BY <1>4, <1>8 DEF LinksAdvance, Exists
  <2>2. \A l \in Links : UseOK(l)'
    BY <1>4, <1>8 DEF LinkRoom, UseOK
  <2> QED BY <1>6, <2>1, <2>2, SeenStep DEF LinkRoom
<1>10. ASSUME ~overlapped' PROVE ~overlapped /\ Pending(e, u)
  BY <1>1, <1>2, <1>3, <1>4, <1>10 DEF Serial, Fresh
<1>11. Serial'
  <2> SUFFICES ASSUME ~overlapped'
               PROVE  /\ Fresh(requests[w])' /\ \A l \in Links : Exact(l)'
                      /\ \A x \in Exams, y \in Users :
                            y \in seated'[x] => applicants'[x][y].status = "approved"
    BY <1>4, <1>6, SerialStep
  <2>1. \A l \in Links : Exact(l)'
    BY <1>4, <1>8, <1>10 DEF Serial, Exact
  <2>2. ASSUME NEW x \in Exams, NEW y \in Users, y \in seated'[x]
        PROVE  applicants'[x][y].status = "approved"
    <3>1. CASE y \in seated[x]
      <4>1. applicants[x][y].status = "approved"
        BY <1>10, <3>1 DEF Serial
      <4>2. x # e \/ y # u
        BY <1>10, <4>1 DEF Pending
      <4> QED BY <1>7, <4>1, <4>2
    <3>2. CASE y \notin seated[x]
      <4>1. x = e /\ y \in new
        BY <1>3, <1>4, <2>2, <3>2 DEF Rows, TablesOK
      <4>2. r.to = "approved" /\ y = u
        BY <1>2, <4>1
      <4> QED BY <1>7, <4>1, <4>2
    <3> QED BY <3>1, <3>2
  <2> QED BY <1>6, <2>1, <2>2
<1> QED BY <1>1, <1>2, <1>9, <1>10, <1>11

LEMMA InitLinks == Init => LinkRoom /\ Serial
<1> SUFFICES ASSUME Init PROVE LinkRoom /\ Serial
  OBVIOUS
<1>1. /\ \A w \in Workers : requests[w].op = "idle"
      /\ \A l \in Links : apply_links[l].state = "absent"
      /\ \A e \in Exams : seated[e] = {}
  BY DEF Init, Idle, NoLink
<1> QED BY <1>1 DEF LinkRoom, UseOK, SeenOK, Serial, Fresh, Exact

LEMMA NextKeepsLinks == Rows /\ LinkRoom /\ Serial /\ [Next]_vars => LinkRoom' /\ Serial'
<1> SUFFICES ASSUME Rows, LinkRoom, Serial, [Next]_vars PROVE LinkRoom' /\ Serial'
  OBVIOUS
<1>1. ASSUME NEW w \in Workers, ExamRequest(w) PROVE LinkRoom' /\ Serial'
  BY <1>1, QuietSteps, DeleteKeepsLinks DEF ExamRequest, duplicate_exam
<1>2. ASSUME NEW w \in Workers, ApplyRequest(w) PROVE LinkRoom' /\ Serial'
  BY <1>2, QuietSteps, CheckedSteps, LinkKeepsLinks DEF ApplyRequest
<1>3. ASSUME NEW w \in Workers, Commit(w) \/ Abort(w) PROVE LinkRoom' /\ Serial'
  BY <1>3, QuietSteps, CheckedSteps, ApplyKeepsLinks, ReviewKeepsLinks DEF Commit
<1>4. CASE UNCHANGED vars
  <2>1. UNCHANGED <<exams, apply_links, applicants, participants, seated, requests, overlapped>>
    BY <1>4 DEF vars, tables
  <2>2. \A l : Uses(l)' = Uses(l)
    BY <2>1 DEF Uses, Applications, Applied
  <2>3. LinkRoom'
    BY <2>1, <2>2 DEF LinkRoom, UseOK, SeenOK, Exists
  <2>4. Serial'
    BY <2>1, <2>2 DEF Serial, Fresh, Exact, Applied, Pending
  <2> QED BY <2>3, <2>4
<1> QED BY <1>1, <1>2, <1>3, <1>4 DEF Next

LEMMA LinksInvariant == Spec => [](Rows /\ LinkRoom /\ Serial)
<1> DEFINE Inv == Rows /\ LinkRoom /\ Serial
<1>1. Init => Inv
  BY InitRows, InitLinks
<1>2. Inv /\ [Next]_vars => Inv'
  BY NextKeepsRows, NextKeepsLinks
<1> QED BY <1>1, <1>2, PTL DEF Spec

\* However many applications come by a link at the same time, it never counts more uses
\* than it allows, nor more than were made; if requests are served one after the other it
\* counts them all, and is inactive once used up (ApplyLinkRepository.increment_use_count).
THEOREM LinksNotOverused == Spec => []LinkUses
<1>1. Rows /\ LinkRoom /\ Serial => LinkUses
  BY DEF LinkRoom, UseOK, Serial, Exact, LinkUses
<1> QED BY <1>1, LinksInvariant, PTL

\* What a step may do to an application while requests are served one after the other.
DecisionsStand ==
    ~overlapped' => \A e \in Exams, u \in Users :
        /\ applicants[e][u].status \in Decision /\ Exists(e)' =>
               applicants'[e][u] = applicants[e][u]
        /\ u \in seated'[e] => applicants'[e][u].status = "approved"

LEMMA StepsKeepDecisions ==
  ASSUME Rows, LinkRoom, Serial, Serial', [Next]_vars
  PROVE  DecisionsStand
<1> SUFFICES ASSUME ~overlapped', NEW e \in Exams, NEW u \in Users,
                    applicants[e][u].status \in Decision, Exists(e)'
             PROVE  applicants'[e][u] = applicants[e][u]
  BY DEF DecisionsStand, Serial
<1>1. ASSUME NEW w \in Workers, ApplyCommit(w) PROVE applicants'[e][u] = applicants[e][u]
  <2>1. ~Applied(requests[w].exam, requests[w].user)
        /\ requests[w].exam \in Exams /\ requests[w].user \in Users
    BY <1>1 DEF ApplyCommit, Serving, Rows, RequestsOK, RequestOK
  <2>2. requests[w].exam # e \/ requests[w].user # u
    BY <2>1 DEF Applied, Decision
  <2> QED BY <1>1, <2>1, <2>2 DEF ApplyCommit, Rows, TablesOK
<1>2. ASSUME NEW w \in Workers, ReviewCommit(w) PROVE applicants'[e][u] = applicants[e][u]
  <2>1. Pending(requests[w].exam, requests[w].user)
        /\ requests[w].exam \in Exams /\ requests[w].user \in Users
    BY <1>2, ReviewKeepsLinks DEF ReviewCommit, Serving, Rows, RequestsOK, RequestOK
  <2>2. requests[w].exam # e \/ requests[w].user # u
    BY <2>1 DEF Pending, Decision
  <2> QED BY <1>2, <2>1, <2>2 DEF ReviewCommit, Rows, TablesOK
<1>3. ASSUME NEW w \in Workers, NEW x \in Exams, delete_exam(w, x)
      PROVE  applicants'[e][u] = applicants[e][u]
  <2>1. x # e
    BY <1>3 DEF delete_exam, Rows, TablesOK, Exists, ExamStatus
  <2> QED BY <1>3, <2>1 DEF delete_exam, Rows, TablesOK
<1>4. ASSUME NEW w \in Workers, ExamRequest(w) PROVE applicants'[e][u] = applicants[e][u]
  BY <1>3, <1>4 DEF ExamRequest, duplicate_exam, create_exam, publish_exam, update_exam,
     archive_exam, add_participant, remove_participant, Begin, tables
<1>5. ASSUME NEW w \in Workers, ApplyRequest(w) PROVE applicants'[e][u] = applicants[e][u]
  BY <1>5 DEF ApplyRequest, bulk_review, apply_direct, review_applicant, apply_by_link,
     create_apply_link, deactivate_apply_link, Begin, tables
<1>6. ASSUME NEW w \in Workers, Commit(w) \/ Abort(w)
      PROVE  applicants'[e][u] = applicants[e][u]
  BY <1>1, <1>2, <1>6 DEF Commit, Abort, CreateCommit, PublishCommit, AddCommit, ReviewRead,
     ReviewSkip, tables
<1>7. CASE UNCHANGED vars
  BY <1>7 DEF vars, tables
<1> QED BY <1>4, <1>5, <1>6, <1>7 DEF Next

\* While the exam exists and requests are served one after the other, an application that
\* was decided is not decided again, and whoever got a place by a review is an approved
\* applicant ("Applicant has already been reviewed", exams/apply_service.py:228).
THEOREM DecisionsAreFinal == Spec => DecisionStands
<1>1. (Rows /\ LinkRoom /\ Serial) /\ (Rows /\ LinkRoom /\ Serial)' /\ [Next]_vars
          => [DecisionsStand]_vars
  BY StepsKeepDecisions
<1>2. [][DecisionsStand]_vars => DecisionStands
  BY PTL DEF DecisionStands, DecisionsStand
<1>3. Spec => [][DecisionsStand]_vars
  BY <1>1, LinksInvariant, PTL DEF Spec
<1> QED BY <1>2, <1>3, PTL
================================================================================
