------------------------------ MODULE Enrollment ------------------------------
(***************************************************************************)
(* The exams of one owner and who may sit them: ExamService                *)
(* (exams/service.py) for the exams and their participants, ApplyService   *)
(* (exams/apply_service.py) for apply links, applications and reviews.     *)
(*                                                                         *)
(* A handler that only writes rows it does not compute from what it read   *)
(* is one step; one that checks first and writes later is two, and others  *)
(* may come in between.  A bulk review is a series of reviews, each with a *)
(* transaction of its own.                                                 *)
(***************************************************************************)
EXTENDS Integers, FiniteSets

CONSTANTS Exams, Links, Users, Workers,
          MaxExams, MaxParticipants,    \* the limits of the owner's tier (core/plans.py)
          UseLimits,                    \* values of max_uses; 0: no limit
          MaxServed,                    \* bound on the requests
          None

VARIABLES exams,          \* exams.status per identifier
          apply_links,    \* table exam_apply_links
          applicants,     \* table exam_applicants, per exam and user
          participants,   \* table exam_participants: the users of each exam
          seated,         \* history: the participants that a review inserted
          requests,       \* the request each worker is serving
          served,         \* how many requests have started
          overlapped      \* history: some request has started beside another

tables == <<exams, apply_links, applicants, participants, seated>>

vars == <<tables, requests, served, overlapped>>

ASSUME ConstantsAssumption ==
    /\ MaxExams \in Nat \ {0}      \* every tier of core/plans.py allows ten at least
    /\ MaxParticipants \in Nat /\ MaxServed \in Nat
    /\ UseLimits \subseteq Nat
    /\ IsFiniteSet(Exams) /\ IsFiniteSet(Users)
    /\ IsFiniteSet(Workers) /\ Workers # {}
    /\ None \notin Exams \cup Links \cup Users

ExamStatus == {"draft", "active", "completed", "archived"}

ApplyLink == [state : {"absent", "present", "deleted"}, exam : Exams \cup {None},
              max_uses : UseLimits \cup {0}, use_count : Nat, is_active : BOOLEAN]

NoLink == [state |-> "absent", exam |-> None, max_uses |-> 0, use_count |-> 0,
           is_active |-> FALSE]

Decision == {"approved", "rejected"}

\* The status of an application and the link it came through, if any.
Applicant == [status : Decision \cup {"none", "pending"}, link : Links \cup {None}]

NoApplicant == [status |-> "none", link |-> None]

\* What a request keeps between its steps.
Request == [op : {"idle", "create", "publish", "add", "apply", "review", "decide"},
            exam : Exams \cup {None}, user : Users \cup {None}, link : Links \cup {None},
            seen : Nat,                       \* use_count, as loaded
            to : Decision,
            todo : SUBSET (Exams \X Users)]   \* the applications still to review

Idle == [op |-> "idle", exam |-> None, user |-> None, link |-> None, seen |-> 0,
         to |-> "rejected", todo |-> {}]

\* One published exam that nobody has applied to.
Init == /\ \E e \in Exams :
              exams = [x \in Exams |-> IF x = e THEN "active" ELSE "absent"]
        /\ apply_links = [l \in Links |-> NoLink]
        /\ applicants = [e \in Exams |-> [u \in Users |-> NoApplicant]]
        /\ participants = [e \in Exams |-> {}] /\ seated = [e \in Exams |-> {}]
        /\ requests = [w \in Workers |-> Idle]
        /\ served = 0 /\ overlapped = FALSE

-------------------------------------------------------------------------------
(* Queries and requests.                                                   *)

Exists(e) == exams[e] \in ExamStatus

\* count_by_owner
Owned == {e \in Exams : Exists(e)}

Applied(e, u) == applicants[e][u].status # "none"

Applications == {p \in Exams \X Users : Applied(p[1], p[2])}

\* Variant: one too many.
CheckExamQuotaLoose == Cardinality(Owned) <= MaxExams

\* _check_exam_quota
CheckExamQuota == Cardinality(Owned) < MaxExams

\* _check_participant_quota
CheckParticipantQuota(e) == Cardinality(participants[e]) < MaxParticipants

Busy == \E w \in Workers : requests[w].op # "idle"

Come(w) == /\ requests[w].op = "idle" /\ served < MaxServed
           /\ served' = served + 1
           /\ overlapped' = (overlapped \/ Busy)

\* The first step of a handler that writes later.
Begin(w, r) == Come(w) /\ requests' = [requests EXCEPT ![w] = r] /\ UNCHANGED tables

\* A handler in one step.
AtOnce(w) == Come(w) /\ UNCHANGED requests

Serving(w, op) == requests[w].op = op /\ UNCHANGED <<served, overlapped>>

Finish(w) == requests' = [requests EXCEPT ![w] = Idle]

\* An error, a constraint of the database or a restart: nothing more is committed.  A
\* notification that fails after a review ends a bulk review like this.
Abort(w) == /\ requests[w].op # "idle" /\ Serving(w, requests[w].op) /\ Finish(w)
            /\ UNCHANGED tables

-------------------------------------------------------------------------------
(* Exams.                                                                  *)

create_exam(w) == CheckExamQuota /\ Begin(w, [Idle EXCEPT !.op = "create"])

duplicate_exam(w, e) == Exists(e) /\ create_exam(w)

CreateCommit(w) ==
    /\ Serving(w, "create") /\ Finish(w)
    /\ \E e \in Exams : exams[e] = "absent" /\ exams' = [exams EXCEPT ![e] = "draft"]
    /\ UNCHANGED <<apply_links, applicants, participants, seated>>

publish_exam(w, e) ==
    exams[e] = "draft" /\ Begin(w, [Idle EXCEPT !.op = "publish", !.exam = e])

\* An UPDATE that meets no row fails (Abort).
PublishCommit(w) ==
    LET e == requests[w].exam IN
    /\ Serving(w, "publish") /\ Finish(w) /\ Exists(e)
    /\ exams' = [exams EXCEPT ![e] = "active"]
    /\ UNCHANGED <<apply_links, applicants, participants, seated>>

\* The PATCH accepts any status.
update_exam(w, e) == /\ AtOnce(w) /\ Exists(e)
                     /\ \E s \in ExamStatus : exams' = [exams EXCEPT ![e] = s]
                     /\ UNCHANGED <<apply_links, applicants, participants, seated>>

archive_exam(w, e) == /\ AtOnce(w) /\ Exists(e)
                      /\ exams' = [exams EXCEPT ![e] = "archived"]
                      /\ UNCHANGED <<apply_links, applicants, participants, seated>>

\* Links, applications and participants go with the exam.
delete_exam(w, e) ==
    /\ AtOnce(w) /\ Exists(e)
    /\ exams' = [exams EXCEPT ![e] = "deleted"]
    /\ apply_links' = [l \in Links |-> IF apply_links[l].exam = e
                           THEN [NoLink EXCEPT !.state = "deleted"] ELSE apply_links[l]]
    /\ applicants' = [applicants EXCEPT ![e] = [u \in Users |-> NoApplicant]]
    /\ participants' = [participants EXCEPT ![e] = {}]
    /\ seated' = [seated EXCEPT ![e] = {}]

-------------------------------------------------------------------------------
(* Participants.                                                           *)

add_participant(w, e, u) ==
    /\ Exists(e) /\ CheckParticipantQuota(e)
    /\ Begin(w, [Idle EXCEPT !.op = "add", !.exam = e, !.user = u])

\* Variant: without the foreign key.
AddCommitUnchecked(w) ==
    LET r == requests[w] IN
    /\ Serving(w, "add") /\ Finish(w) /\ r.user \notin participants[r.exam]
    /\ participants' = [participants EXCEPT ![r.exam] = @ \cup {r.user}]
    /\ UNCHANGED <<exams, apply_links, applicants, seated>>

\* A participant who is there already, or an exam that is gone, is an error (Abort).
AddCommit(w) ==
    LET r == requests[w] IN
    /\ Serving(w, "add") /\ Finish(w)
    /\ Exists(r.exam) /\ r.user \notin participants[r.exam]
    /\ participants' = [participants EXCEPT ![r.exam] = @ \cup {r.user}]
    /\ UNCHANGED <<exams, apply_links, applicants, seated>>

remove_participant(w, e, u) ==
    /\ AtOnce(w) /\ u \in participants[e]
    /\ participants' = [participants EXCEPT ![e] = @ \ {u}]
    /\ seated' = [seated EXCEPT ![e] = @ \ {u}]
    /\ UNCHANGED <<exams, apply_links, applicants>>

-------------------------------------------------------------------------------
(* Apply links and applications.                                           *)

create_apply_link(w, e, l) ==
    /\ AtOnce(w) /\ Exists(e) /\ apply_links[l].state = "absent"
    /\ \E n \in UseLimits : apply_links' = [apply_links EXCEPT ![l] =
           [state |-> "present", exam |-> e, max_uses |-> n, use_count |-> 0,
            is_active |-> TRUE]]
    /\ UNCHANGED <<exams, applicants, participants, seated>>

deactivate_apply_link(w, l) ==
    /\ AtOnce(w) /\ apply_links[l].state = "present"
    /\ apply_links' = [apply_links EXCEPT ![l].is_active = FALSE]
    /\ UNCHANGED <<exams, applicants, participants, seated>>

\* Neither has the user applied nor is a participant.
CanApply(e, u) == ~Applied(e, u) /\ u \notin participants[e]

\* The status of the exam is not looked at.  The expiry of a link refuses (no step).
apply_by_link(w, l, u) ==
    LET link == apply_links[l] IN
    /\ link.is_active /\ (link.max_uses = 0 \/ link.use_count < link.max_uses)
    /\ CanApply(link.exam, u)
    /\ Begin(w, [Idle EXCEPT !.op = "apply", !.exam = link.exam, !.user = u, !.link = l,
                             !.seen = link.use_count])

apply_direct(w, e, u) ==
    /\ exams[e] = "active" /\ CanApply(e, u)
    /\ Begin(w, [Idle EXCEPT !.op = "apply", !.exam = e, !.user = u])

\* Variant: a link that is used up stays active.
UsedForEver(link, seen) == [link EXCEPT !.use_count = seen + 1]

\* increment_use_count: from the row as it was loaded.
UsedOnce(link, seen) ==
    [link EXCEPT !.use_count = seen + 1,
                 !.is_active = @ /\ (link.max_uses = 0 \/ seen + 1 < link.max_uses)]

\* A second application, or one to an exam that is gone, is an error (Abort).
ApplyCommit(w) ==
    LET r == requests[w] IN
    /\ Serving(w, "apply") /\ Finish(w) /\ Exists(r.exam) /\ ~Applied(r.exam, r.user)
    /\ applicants' = [applicants EXCEPT ![r.exam][r.user] =
           [status |-> "pending", link |-> r.link]]
    /\ apply_links' = IF r.link = None THEN apply_links
                      ELSE [apply_links EXCEPT ![r.link] = UsedOnce(@, r.seen)]
    /\ UNCHANGED <<exams, participants, seated>>

-------------------------------------------------------------------------------
(* Reviews.                                                                *)

review_applicant(w, e, u) ==
    /\ Applied(e, u)
    /\ \E d \in Decision :
          Begin(w, [Idle EXCEPT !.op = "review", !.to = d, !.todo = {<<e, u>>}])

\* Any applications, in any order.
bulk_review(w) ==
    \E d \in Decision, S \in SUBSET Applications :
        /\ Cardinality(S) > 1
        /\ Begin(w, [Idle EXCEPT !.op = "review", !.to = d, !.todo = S])

\* Variant: what was decided is decided again.
PendingAlways(e, u) == Applied(e, u)

Pending(e, u) == applicants[e][u].status = "pending"

\* The row is loaded and checked.
ReviewRead(w) ==
    /\ Serving(w, "review")
    /\ \E p \in requests[w].todo :
          /\ Pending(p[1], p[2])
          /\ requests' = [requests EXCEPT ![w].op = "decide", ![w].exam = p[1],
                                          ![w].user = p[2], ![w].todo = @ \ {p}]
    /\ UNCHANGED tables

\* "Already reviewed", or no longer there: bulk_review goes on with the next.
ReviewSkip(w) ==
    /\ Serving(w, "review")
    /\ \E p \in requests[w].todo :
          /\ ~Pending(p[1], p[2])
          /\ \/ requests[w].todo = {p} /\ Finish(w)
             \/ /\ requests[w].todo # {p}
                /\ requests' = [requests EXCEPT ![w].todo = @ \ {p}]
    /\ UNCHANGED tables

\* The decision is written to the row whatever it says by now, and an approved applicant
\* who is no participant becomes one, without a look at the quota.  A row that is gone is
\* an error (Abort).
ReviewCommit(w) ==
    LET r == requests[w]
        e == r.exam
        new == IF r.to = "approved" THEN {r.user} \ participants[e] ELSE {}
    IN /\ Serving(w, "decide") /\ Applied(e, r.user)
       /\ applicants' = [applicants EXCEPT ![e][r.user].status = r.to]
       /\ participants' = [participants EXCEPT ![e] = @ \cup new]
       /\ seated' = [seated EXCEPT ![e] = @ \cup new]
       /\ requests' = [requests EXCEPT ![w] =
              IF r.todo = {} THEN Idle
              ELSE [Idle EXCEPT !.op = "review", !.to = r.to, !.todo = r.todo]]
       /\ UNCHANGED <<exams, apply_links>>

-------------------------------------------------------------------------------
\* exams/router.py
ExamRequest(w) ==
    \/ create_exam(w)
    \/ \E e \in Exams :
          \/ duplicate_exam(w, e) \/ publish_exam(w, e) \/ update_exam(w, e)
          \/ archive_exam(w, e) \/ delete_exam(w, e)
          \/ \E u \in Users : add_participant(w, e, u) \/ remove_participant(w, e, u)

\* exams/apply_router.py
ApplyRequest(w) ==
    \/ bulk_review(w)
    \/ \E e \in Exams, u \in Users : apply_direct(w, e, u) \/ review_applicant(w, e, u)
    \/ \E l \in Links : \/ deactivate_apply_link(w, l)
                        \/ \E e \in Exams : create_apply_link(w, e, l)
                        \/ \E u \in Users : apply_by_link(w, l, u)

Commit(w) == \/ CreateCommit(w) \/ PublishCommit(w) \/ AddCommit(w) \/ ApplyCommit(w)
             \/ ReviewRead(w) \/ ReviewSkip(w) \/ ReviewCommit(w)

Next == \E w \in Workers : ExamRequest(w) \/ ApplyRequest(w) \/ Commit(w) \/ Abort(w)

Spec == Init /\ [][Next]_vars

-------------------------------------------------------------------------------
(* Properties.                                                             *)

\* Rows are well formed, and those of an exam that is gone are gone with it
\* (exams/apply_models.py, exams/models.py: ON DELETE CASCADE).
TypeOK ==
    /\ exams \in [Exams -> ExamStatus \cup {"absent", "deleted"}]
    /\ apply_links \in [Links -> ApplyLink]
    /\ applicants \in [Exams -> [Users -> Applicant]]
    /\ participants \in [Exams -> SUBSET Users] /\ seated \in [Exams -> SUBSET Users]
    /\ \A e \in Exams : seated[e] \subseteq participants[e]
    /\ requests \in [Workers -> Request]
    /\ served \in 0..MaxServed /\ overlapped \in BOOLEAN
    /\ \A e \in Exams : ~Exists(e) =>
          /\ participants[e] = {} /\ \A u \in Users : ~Applied(e, u)
          /\ \A l \in Links : apply_links[l].exam # e

\* How far requests that overlap may go beyond a limit: they count before they insert.
Overshoot == IF overlapped THEN Cardinality(Workers) - 1 ELSE 0

\* The limits of the plan (ExamService._check_exam_quota, _check_participant_quota): an
\* owner has no more exams than the plan allows, and an exam no more participants but for
\* those that came by a review, which does not look at the limit.
PlanLimits ==
    /\ Cardinality(Owned) <= MaxExams + Overshoot
    /\ \A e \in Exams :
          Cardinality(participants[e] \ seated[e]) <= MaxParticipants + Overshoot

\* The applications that came through a link.
Uses(l) == {p \in Applications : applicants[p[1]][p[2]].link = l}

\* max_uses (ApplyService.apply_by_link, ApplyLinkRepository.increment_use_count):
\* use_count never exceeds it nor the applications made through the link, and unless
\* requests overlapped it is their number, and a link that is used up is inactive.
LinkUses ==
    \A l \in Links :
        LET link == apply_links[l] IN
        link.state = "present" =>
            /\ link.use_count <= Cardinality(Uses(l))
            /\ link.max_uses > 0 => link.use_count <= link.max_uses
            /\ ~overlapped => /\ link.use_count = Cardinality(Uses(l))
                              /\ link.use_count = link.max_uses /\ link.max_uses > 0 =>
                                     ~link.is_active

\* "Applicant has already been reviewed" (exams/apply_service.py:228): unless requests
\* overlapped, a decision stands while the exam exists, and who got a place by a review
\* is an approved applicant.
DecisionStands ==
    [][~overlapped' => \A e \in Exams, u \in Users :
          /\ applicants[e][u].status \in Decision /\ Exists(e)' =>
                 applicants'[e][u] = applicants[e][u]
          /\ u \in seated'[e] => applicants'[e][u].status = "approved"]_vars

===============================================================================
