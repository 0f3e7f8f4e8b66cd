-------------------------------- MODULE Billing --------------------------------
(***************************************************************************)
(* The billing core: BillingService and SubscriptionService                *)
(* (subscriptions/service.py), payment moderation by AdminService          *)
(* (admin/service.py) and the expiry sweeper of main.py; and the review of *)
(* a teacher purchase (billing/service.py) as far as it writes the tier.   *)
(*                                                                         *)
(* No row is locked and no row carries a version.  A request reads its     *)
(* rows, decides, and writes and commits later: SELECTs take no lock, the  *)
(* first flush takes the write lock and the commit follows, so everything  *)
(* from the first flush to the commit is one step here, and what was read  *)
(* earlier may be stale by then.  The ORM writes the changed columns of a  *)
(* row by primary key: the last writer wins, column by column.             *)
(*                                                                         *)
(* A request is the record requests[w] of the worker that serves it.  Each *)
(* operation is a Read action, which carries the guards of the code, and a *)
(* Commit action; the activation of a plan also reads the active           *)
(* subscription in between (Resolve).                                      *)
(***************************************************************************)
EXTENDS Integers, Sequences, FiniteSets

CONSTANTS Users, Plans, Payments, Subs,
          Workers,      \* requests served at the same time
          PayUser, PayPlan,  \* the user and plan of a payment: written once, by its creation
          PlanTier,     \* the tier column of a plan
          FreePlans,    \* plans with price = 0
          LifetimePlans,\* plans whose interval is "lifetime"
          Refs,         \* what POST /subscriptions/subscribe may carry as payment_id: a
                        \* payment, None, or a string that is no payment
          Buyers,       \* users with a purchase of the teacher package to approve
          PageSize,     \* per_page of the duplicate check: 50 in the code
          MaxCrashes,   \* bound on the sweeps that stop half way
          Serialized,   \* TRUE: a request or a sweep starts only when nothing else runs
          None

VARIABLES payments,       \* table payments
          events,         \* table payment_events: the trail of each payment
          subscriptions,  \* table user_subscriptions
          tier,           \* users.subscription_tier
          requests,       \* the request each worker is serving
          sweep,          \* status the running sweep read for each payment it will expire
          crashes         \* sweeps that stopped half way so far

vars == <<payments, events, subscriptions, tier, requests, sweep, crashes>>

PaymentStatus == {"pending", "waiting_for_review", "approved", "rejected",
                  "expired", "cancelled"}

PAYMENT_ACTIVE_STATUSES == {"pending", "waiting_for_review"}

PAYMENT_TERMINAL_STATUSES == {"approved", "rejected", "expired", "cancelled"}

Tiers == {"FREE", "TEACHER", "PRO", "PREMIUM"}

\* A datetime column relative to now: no value, still ahead, or behind.
Deadline == {"none", "ahead", "behind"}

Payment == [status : PaymentStatus \cup {"absent"}, deadline : Deadline,
            receipt : BOOLEAN, subscription : Subs \cup {None}, nth : Nat]

PaymentEvent == [from : PaymentStatus \cup {"absent"}, to : PaymentStatus]

UserSubscription == [status : {"absent", "active", "cancelled", "expired"},
                     user : Users \cup {None}, plan : Plans \cup {None},
                     payment : Payments \cup Refs \cup {None}, expires : Deadline]

\* What a request keeps between its steps: the rows it loaded, by identifier,
\* and the columns it decided on.
Request == [op : {"idle", "initiate", "upload", "cancel", "approve", "reject",
                  "subscribe", "unsubscribe", "lookup", "grant"},
            user : Users \cup {None}, plan : Plans \cup {None},
            payment : Payments \cup Refs \cup {None},
            seen : PaymentStatus \cup {"absent"},    \* payment.status as loaded
            resolved : BOOLEAN,                       \* get_active_by_user has returned
            sub : Subs \cup {None},                   \* the subscription it returned or loaded
            mark : {"cancelled", "expired"},          \* what that subscription will become
            tier : Tiers]                             \* subscription_tier of the loaded user

ASSUME ConstantsAssumption ==
    /\ PayUser \in [Payments -> Users] /\ PayPlan \in [Payments -> Plans]
    /\ PlanTier \in [Plans -> Tiers]
    /\ FreePlans \subseteq Plans /\ LifetimePlans \subseteq Plans
    /\ Buyers \subseteq Users /\ IsFiniteSet(Payments)
    /\ PageSize \in Nat /\ MaxCrashes \in Nat /\ Serialized \in BOOLEAN
    /\ None \notin Users /\ None \notin Plans
    /\ None \notin Payments /\ None \notin Subs

Idle == [op |-> "idle", user |-> None, plan |-> None, payment |-> None,
         seen |-> "absent", resolved |-> FALSE, sub |-> None,
         mark |-> "cancelled", tier |-> "FREE"]

NoPayment == [status |-> "absent", deadline |-> "none", receipt |-> FALSE,
              subscription |-> None, nth |-> 0]

NoSubscription == [status |-> "absent", user |-> None, plan |-> None,
                   payment |-> None, expires |-> "none"]

Init == /\ payments = [p \in Payments |-> NoPayment]
        /\ events = [p \in Payments |-> <<>>]
        /\ subscriptions = [s \in Subs |-> NoSubscription]
        /\ tier = [u \in Users |-> "FREE"]
        /\ requests = [w \in Workers |-> Idle]
        /\ sweep = [p \in Payments |-> "absent"]
        /\ crashes = 0

Sweeping == \E p \in Payments : sweep[p] # "absent"

Quiet == (\A w \in Workers : requests[w].op = "idle") /\ ~Sweeping

-------------------------------------------------------------------------------
(* Queries of the repositories.                                            *)

Active(p) == payments[p].status \in PAYMENT_ACTIVE_STATUSES

\* PaymentRepository.list_by_user: the newest PageSize payments of the user.
list_by_user(u) ==
    LET mine == {p \in Payments : PayUser[p] = u /\ payments[p].status # "absent"}
    IN {p \in mine :
          Cardinality({q \in mine : payments[q].nth > payments[p].nth}) < PageSize}

\* PaymentRepository.list_expirable.
list_expirable == {p \in Payments : Active(p) /\ payments[p].deadline = "behind"}

ActiveSubs(u) == {s \in Subs : subscriptions[s].status = "active"
                               /\ subscriptions[s].user = u}

Created == {p \in Payments : payments[p].status # "absent"}

-------------------------------------------------------------------------------
(* The two halves of a request.                                            *)

Begin(w, r) == /\ requests[w].op = "idle"
               /\ Serialized => Quiet
               /\ requests' = [requests EXCEPT ![w] = r]
               /\ UNCHANGED <<payments, events, subscriptions, tier, sweep, crashes>>

Finish(w, op) == /\ requests[w].op = op
                 /\ requests' = [requests EXCEPT ![w] = Idle]
                 /\ UNCHANGED <<sweep, crashes>>

\* Variant: from and to swapped in the call (add() takes to_status first).
AddEventSwapped(p, from, to) ==
    events' = [events EXCEPT ![p] = Append(@, [from |-> to, to |-> from])]

\* PaymentEventRepository.add: the flush that also writes the payment row.
AddEvent(p, from, to) ==
    events' = [events EXCEPT ![p] = Append(@, [from |-> from, to |-> to])]

\* The request is dropped before its commit: an error, a lost connection, a
\* lock timeout or a restart; get_db rolls the session back.
Abort(w) == /\ requests[w].op # "idle"
            /\ requests' = [requests EXCEPT ![w] = Idle]
            /\ UNCHANGED <<payments, events, subscriptions, tier, sweep, crashes>>

-------------------------------------------------------------------------------
(* BillingService: the user's side of a payment.                           *)

InitiateRead(w, u, pl) ==
    /\ pl \notin FreePlans
    /\ ~\E p \in list_by_user(u) : PayPlan[p] = pl /\ Active(p)
    /\ Begin(w, [Idle EXCEPT !.op = "initiate", !.user = u, !.plan = pl])

InitiateCommit(w) ==
    \E p \in Payments :
        /\ payments[p].status = "absent"
        /\ PayUser[p] = requests[w].user /\ PayPlan[p] = requests[w].plan
        /\ Finish(w, "initiate")
        /\ payments' = [payments EXCEPT
               ![p] = [NoPayment EXCEPT !.status = "pending", !.deadline = "ahead",
                                        !.nth = Cardinality(Created) + 1]]
        /\ AddEvent(p, "absent", "pending")
        /\ UNCHANGED <<subscriptions, tier>>

UploadRead(w, p) ==
    /\ payments[p].status = "pending"
    /\ Begin(w, [Idle EXCEPT !.op = "upload", !.payment = p, !.seen = "pending"])

\* Variant: old_status is taken after the assignment.
UploadCommitLateOldStatus(w) ==
    LET p == requests[w].payment IN
    /\ Finish(w, "upload")
    /\ payments' = [payments EXCEPT ![p].status = "waiting_for_review",
                                    ![p].receipt = TRUE, ![p].deadline = "ahead"]
    /\ AddEvent(p, "waiting_for_review", "waiting_for_review")
    /\ UNCHANGED <<subscriptions, tier>>

\* Everything after `await file.read()`.
UploadCommit(w) ==
    LET p == requests[w].payment IN
    /\ Finish(w, "upload")
    /\ payments' = [payments EXCEPT ![p].status = "waiting_for_review",
                                    ![p].receipt = TRUE, ![p].deadline = "ahead"]
    /\ AddEvent(p, requests[w].seen, "waiting_for_review")
    /\ UNCHANGED <<subscriptions, tier>>

\* Variant: cancel_payment without its status check.
CancelReadUnguarded(w, p) ==
    /\ payments[p].status # "absent"
    /\ Begin(w, [Idle EXCEPT !.op = "cancel", !.payment = p,
                             !.seen = payments[p].status])

CancelRead(w, p) ==
    /\ Active(p)
    /\ Begin(w, [Idle EXCEPT !.op = "cancel", !.payment = p,
                             !.seen = payments[p].status])

CancelCommit(w) ==
    LET p == requests[w].payment IN
    /\ Finish(w, "cancel")
    /\ payments' = [payments EXCEPT ![p].status = "cancelled", ![p].deadline = "none"]
    /\ AddEvent(p, requests[w].seen, "cancelled")
    /\ UNCHANGED <<subscriptions, tier>>

-------------------------------------------------------------------------------
(* SubscriptionService: activation, cancellation, lazy expiry.             *)

\* The status get_active_by_user leaves on the row it loaded, or that
\* activate_or_renew gives it afterwards.
Retired(s) == IF subscriptions[s].expires = "behind" THEN "expired" ELSE "cancelled"

\* get_active_by_user inside activate_or_renew.
Resolve(w) ==
    LET mine == ActiveSubs(requests[w].user) IN
    /\ requests[w].op \in {"approve", "subscribe"} /\ ~requests[w].resolved
    /\ \/ /\ mine = {}
          /\ requests' = [requests EXCEPT ![w].resolved = TRUE]
       \/ \E s \in mine :
          /\ mine = {s}
          /\ requests' = [requests EXCEPT ![w].resolved = TRUE, ![w].sub = s,
                                          ![w].mark = Retired(s)]
    /\ UNCHANGED <<payments, events, subscriptions, tier, sweep, crashes>>

\* scalar_one_or_none raises MultipleResultsFound: the request ends with a 500.
ResolveFails(w) ==
    /\ requests[w].op \in {"approve", "subscribe"} /\ ~requests[w].resolved
    /\ Cardinality(ActiveSubs(requests[w].user)) > 1
    /\ Abort(w)

\* Variant: the subscription in force is not superseded.
ActivateBeside(w, s) ==
    LET r == requests[w]
        expires == IF r.plan \in LifetimePlans THEN "none" ELSE "ahead"
    IN /\ r.resolved
       /\ subscriptions[s].status = "absent"
       /\ subscriptions' = [subscriptions EXCEPT
              ![s] = [status |-> "active", user |-> r.user, plan |-> r.plan,
                      payment |-> r.payment, expires |-> expires]]

\* activate_or_renew: retire the loaded subscription, insert row s.
Activate(w, s) ==
    LET r == requests[w]
        expires == IF r.plan \in LifetimePlans THEN "none" ELSE "ahead"
    IN /\ r.resolved
       /\ subscriptions[s].status = "absent"
       /\ subscriptions' = [x \in Subs |->
              IF x = s THEN [status |-> "active", user |-> r.user, plan |-> r.plan,
                             payment |-> r.payment, expires |-> expires]
              ELSE IF x = r.sub THEN [subscriptions[x] EXCEPT !.status = r.mark]
              ELSE subscriptions[x]]

\* Variant: a new plan never lowers the tier the user already has.
SetTierOnlyFromFree(w, u, new) ==
    tier' = IF requests[w].tier = "FREE" THEN [tier EXCEPT ![u] = new] ELSE tier

\* The ORM leaves a column alone when the value assigned is the one loaded.
SetTier(w, u, new) ==
    tier' = IF requests[w].tier = new THEN tier ELSE [tier EXCEPT ![u] = new]

\* A price above 0 is let through when the body names a payment_id.
SubscribeRead(w, u, pl, ref) ==
    /\ pl \in FreePlans \/ ref # None
    /\ PlanTier[pl] # "TEACHER" /\ pl \notin LifetimePlans
    /\ Begin(w, [Idle EXCEPT !.op = "subscribe", !.user = u, !.plan = pl,
                             !.payment = ref, !.tier = tier[u]])

SubscribeCommit(w) ==
    \E s \in Subs :
        /\ Finish(w, "subscribe")
        /\ Activate(w, s)
        /\ SetTier(w, requests[w].user, PlanTier[requests[w].plan])
        /\ UNCHANGED <<payments, events>>

\* cancel_subscription.
UnsubscribeRead(w, s) ==
    LET u == subscriptions[s].user IN
    /\ subscriptions[s].status = "active"
    /\ Begin(w, [Idle EXCEPT !.op = "unsubscribe", !.user = u, !.sub = s,
                             !.tier = tier[u]])

UnsubscribeCommit(w) ==
    /\ Finish(w, "unsubscribe")
    /\ subscriptions' = [subscriptions EXCEPT ![requests[w].sub].status = "cancelled"]
    /\ SetTier(w, requests[w].user, "FREE")
    /\ UNCHANGED <<payments, events>>

\* get_user_subscription and the limit checks, when the row has lapsed: the
\* read request writes EXPIRED.
LookupRead(w, u) ==
    \E s \in Subs :
        /\ ActiveSubs(u) = {s}
        /\ subscriptions[s].expires = "behind"
        /\ Begin(w, [Idle EXCEPT !.op = "lookup", !.user = u, !.sub = s])

LookupCommit(w) ==
    /\ Finish(w, "lookup")
    /\ subscriptions' = [subscriptions EXCEPT ![requests[w].sub].status = "expired"]
    /\ UNCHANGED <<payments, events, tier>>

\* approve_teacher_purchase and the restored role, as far as the tier goes; whose
\* purchase is approved is TeacherPackage's.
GrantRead(w, u) == Begin(w, [Idle EXCEPT !.op = "grant", !.user = u, !.tier = tier[u]])

\* _grant_teacher_role: no paid tier is replaced.
GrantCommit(w) ==
    /\ Finish(w, "grant")
    /\ IF requests[w].tier = "FREE" THEN SetTier(w, requests[w].user, "TEACHER")
                                    ELSE UNCHANGED tier
    /\ UNCHANGED <<payments, events, subscriptions>>

-------------------------------------------------------------------------------
(* AdminService: review.                                                   *)

\* Variant: approval of a payment whose receipt has not come yet.
ApproveReadEarly(w, p) ==
    /\ Active(p)
    /\ Begin(w, [Idle EXCEPT !.op = "approve", !.payment = p,
                             !.seen = payments[p].status,
                             !.user = PayUser[p], !.plan = PayPlan[p]])

ApproveRead(w, p) ==
    /\ payments[p].status = "waiting_for_review"
    /\ Begin(w, [Idle EXCEPT !.op = "approve", !.payment = p,
                             !.seen = "waiting_for_review",
                             !.user = PayUser[p], !.plan = PayPlan[p]])

\* The commit is the one inside NotificationService.create.  The user row is
\* loaded after the first flush, so its tier is current (the reviewer is
\* another account).
ApproveCommit(w) ==
    LET r == requests[w] IN
    \E s \in Subs :
        /\ Finish(w, "approve")
        /\ Activate(w, s)
        /\ tier' = [tier EXCEPT ![r.user] = PlanTier[r.plan]]
        /\ payments' = [payments EXCEPT ![r.payment].status = "approved",
                                        ![r.payment].subscription = s,
                                        ![r.payment].deadline = "none"]
        /\ AddEvent(r.payment, r.seen, "approved")

RejectRead(w, p) ==
    /\ payments[p].status = "waiting_for_review"
    /\ Begin(w, [Idle EXCEPT !.op = "reject", !.payment = p,
                             !.seen = "waiting_for_review"])

RejectCommit(w) ==
    LET p == requests[w].payment IN
    /\ Finish(w, "reject")
    /\ payments' = [payments EXCEPT ![p].status = "rejected", ![p].deadline = "none"]
    /\ AddEvent(p, requests[w].seen, "rejected")
    /\ UNCHANGED <<subscriptions, tier>>

-------------------------------------------------------------------------------
(* The sweeper: one read of the overdue payments, then one commit for each *)
(* of them, made by NotificationService.create.                            *)

\* Variant: only payments without a receipt are swept.
SweepReadPendingOnly ==
    LET late == {p \in list_expirable : payments[p].status = "pending"} IN
    /\ ~Sweeping /\ late # {}
    /\ Serialized => Quiet
    /\ sweep' = [p \in Payments |->
                   IF p \in late THEN payments[p].status ELSE "absent"]
    /\ UNCHANGED <<payments, events, subscriptions, tier, requests, crashes>>

SweepRead ==
    /\ ~Sweeping /\ list_expirable # {}
    /\ Serialized => Quiet
    /\ sweep' = [p \in Payments |->
                   IF p \in list_expirable THEN payments[p].status ELSE "absent"]
    /\ UNCHANGED <<payments, events, subscriptions, tier, requests, crashes>>

\* Variant: the sweeper changes the status without writing history.
SweepOneSilently(p) ==
    /\ sweep[p] # "absent"
    /\ payments' = [payments EXCEPT ![p].status = "expired"]
    /\ sweep' = [sweep EXCEPT ![p] = "absent"]
    /\ UNCHANGED <<events, subscriptions, tier, requests, crashes>>

\* Only the status column changes: the deadline stays as it is.
SweepOne(p) ==
    /\ sweep[p] # "absent"
    /\ payments' = [payments EXCEPT ![p].status = "expired"]
    /\ AddEvent(p, sweep[p], "expired")
    /\ sweep' = [sweep EXCEPT ![p] = "absent"]
    /\ UNCHANGED <<subscriptions, tier, requests, crashes>>

\* A failed notification, a database error or a restart in the middle of the
\* loop: what was committed stays, the rest is forgotten.
SweepCrash ==
    /\ Sweeping /\ crashes < MaxCrashes
    /\ crashes' = crashes + 1
    /\ sweep' = [p \in Payments |-> "absent"]
    /\ UNCHANGED <<payments, events, subscriptions, tier, requests>>

-------------------------------------------------------------------------------
(* Time.                                                                   *)

DeadlinePasses(p) ==
    /\ payments[p].deadline = "ahead"
    /\ payments' = [payments EXCEPT ![p].deadline = "behind"]
    /\ UNCHANGED <<events, subscriptions, tier, requests, sweep, crashes>>

\* Nothing reads the expiry of a row that is no longer active.
SubscriptionLapses(s) ==
    /\ subscriptions[s].status = "active" /\ subscriptions[s].expires = "ahead"
    /\ subscriptions' = [subscriptions EXCEPT ![s].expires = "behind"]
    /\ UNCHANGED <<payments, events, tier, requests, sweep, crashes>>

RequestStep(w) ==
    \/ \E u \in Users, pl \in Plans : InitiateRead(w, u, pl)
    \/ \E p \in Payments : \/ UploadRead(w, p) \/ CancelRead(w, p)
                           \/ ApproveRead(w, p) \/ RejectRead(w, p)
    \/ \E u \in Users, pl \in Plans, ref \in Refs : SubscribeRead(w, u, pl, ref)
    \/ \E s \in Subs : UnsubscribeRead(w, s)
    \/ \E u \in Users : LookupRead(w, u)
    \/ \E u \in Buyers : GrantRead(w, u)
    \/ Resolve(w) \/ ResolveFails(w) \/ Abort(w)
    \/ InitiateCommit(w) \/ UploadCommit(w) \/ CancelCommit(w)
    \/ ApproveCommit(w) \/ RejectCommit(w)
    \/ SubscribeCommit(w) \/ UnsubscribeCommit(w) \/ LookupCommit(w) \/ GrantCommit(w)

Next == \/ \E w \in Workers : RequestStep(w)
        \/ SweepRead \/ SweepCrash
        \/ \E p \in Payments : SweepOne(p)
        \/ \E p \in Payments : DeadlinePasses(p)
        \/ \E s \in Subs : SubscriptionLapses(s)

Spec == Init /\ [][Next]_vars

\* The loop of main.py sleeps, sweeps and survives every exception, so the
\* sweeper keeps running; nothing makes a user, an admin or a request act.
FairSpec == /\ Spec
            /\ WF_vars(SweepRead)
            /\ \A p \in Payments : WF_vars(SweepOne(p))

-------------------------------------------------------------------------------
(* Invariants that hold however requests and sweeps interleave.            *)

\* Every variable stays within the rows and columns the tables allow.
TypeOK == /\ payments \in [Payments -> Payment]
          /\ events \in [Payments -> Seq(PaymentEvent)]
          /\ subscriptions \in [Subs -> UserSubscription]
          /\ tier \in [Users -> Tiers]
          /\ requests \in [Workers -> Request]
          /\ sweep \in [Payments -> PAYMENT_ACTIVE_STATUSES \cup {"absent"}]
          /\ crashes \in 0 .. MaxCrashes

\* A payment that can still move always has a deadline, so none can escape
\* the sweeper: list_expirable skips rows whose expires_at is NULL, and three
\* handlers write NULL while a fourth may be about to write a status.
ActiveHasDeadline == \A p \in Payments : Active(p) => payments[p].deadline # "none"

\* The trail ends with the status the row has, whoever wrote last: status and
\* event are flushed together by every handler and by the sweeper.
TrailEndsAtStatus ==
    \A p \in Payments :
        IF payments[p].status = "absent" THEN events[p] = <<>>
        ELSE events[p] # <<>> /\ events[p][Len(events[p])].to = payments[p].status

\* Nobody's review, however late it commits, precedes the receipt: an approval
\* or a rejection in the trail comes after a move to waiting_for_review.
ReviewedAfterReceipt ==
    \A p \in Payments : \A i \in 1 .. Len(events[p]) :
        events[p][i].to \in {"approved", "rejected"} =>
            payments[p].receipt /\ \E j \in 1 .. i - 1 :
                                      events[p][j].to = "waiting_for_review"

\* An approved payment points to a subscription row of its own user and plan
\* that names it: activation and approval are committed together or not at all.
ApprovedIsEntitled ==
    \A p \in Payments : payments[p].status = "approved" =>
        \E s \in Subs : /\ payments[p].subscription = s
                        /\ subscriptions[s].status # "absent"
                        /\ subscriptions[s].payment = p
                        /\ subscriptions[s].user = PayUser[p]
                        /\ subscriptions[s].plan = PayPlan[p]

\* What no race takes from a payment (BillingService, approve_payment, the sweeper): it
\* cannot escape the sweeper, its trail is up to date, no review precedes its receipt, and
\* once approved it has its subscription.
PaymentIsSound == /\ ActiveHasDeadline /\ TrailEndsAtStatus /\ ReviewedAfterReceipt
                  /\ ApprovedIsEntitled

\* A terminal payment moves only under a writer that had read it while it was
\* active: the guards leave no other way out of a terminal status.
OnlyStaleWritersLeaveTerminal ==
    [][\A p \in Payments :
         payments[p].status \in PAYMENT_TERMINAL_STATUSES
           /\ payments'[p].status # payments[p].status =>
             \/ sweep[p] \in PAYMENT_ACTIVE_STATUSES
             \/ \E w \in Workers : /\ requests[w].payment = p
                                   /\ requests[w].seen \in PAYMENT_ACTIVE_STATUSES
                                   /\ requests'[w] = Idle]_vars

\* A user gets a second active subscription only from an activation that read
\* the active one before it was there: renewal retires what it read.
OnlyStaleActivationsPileUp ==
    [][\A u \in Users :
         ActiveSubs(u)' \ ActiveSubs(u) # {} /\ Cardinality(ActiveSubs(u)') > 1 =>
             \E w \in Workers : /\ requests[w].user = u /\ requests[w].resolved
                                /\ requests'[w] = Idle
                                /\ ActiveSubs(u) \ {requests[w].sub} # {}]_vars

\* Nothing strands a payment: once its deadline has passed, the sweeper or
\* somebody else makes it terminal, or an upload gives it a new deadline.
OverdueIsSettled ==
    \A p \in Payments : (Active(p) /\ payments[p].deadline = "behind")
                         ~> ~(Active(p) /\ payments[p].deadline = "behind")

-------------------------------------------------------------------------------
(* What the comments of the code promise.  They hold when requests do not  *)
(* overlap; the races run shows which of them concurrency breaks.          *)

\* "exactly one active subscription": no user ever has two.
OneActiveSubscription == \A u \in Users : Cardinality(ActiveSubs(u)) <= 1

\* "Block piling up duplicate in-flight payments for the same plan."
NoDuplicateInFlight ==
    \A p, q \in Payments :
        Active(p) /\ Active(q) /\ PayUser[p] = PayUser[q] /\ PayPlan[p] = PayPlan[q]
          => p = q

\* What a user has at most one of (activate_or_renew, initiate_payment): an active
\* subscription, and a payment in flight for a plan.
NothingPilesUp == OneActiveSubscription /\ NoDuplicateInFlight

\* The trail is a history: each event starts from the status the one before
\* it left.
TrailIsAHistory ==
    \A p \in Payments : \A i \in 1 .. Len(events[p]) :
        events[p][i].from = IF i = 1 THEN "absent" ELSE events[p][i - 1].to

\* The tier the quotas are read from (activate_or_renew, cancel_subscription,
\* _grant_teacher_role) is that of the active subscription, or TEACHER where that is free;
\* and a tier that is sold with plans comes from a subscription nobody has cancelled.
TierFollowsSubscription ==
    /\ \A s \in Subs : subscriptions[s].status = "active" =>
          \/ tier[subscriptions[s].user] = PlanTier[subscriptions[s].plan]
          \/ /\ tier[subscriptions[s].user] = "TEACHER"
             /\ PlanTier[subscriptions[s].plan] = "FREE"
    /\ \A u \in Users : tier[u] \notin {"FREE", "TEACHER"} =>
          \E s \in Subs : /\ subscriptions[s].status \in {"active", "expired"}
                          /\ subscriptions[s].user = u
                          /\ PlanTier[subscriptions[s].plan] = tier[u]

\* "Only allowed for free (price == 0) plans [...] so there is always an auditable
\* Payment/PaymentEvent trail for paid plans" (subscribe): a subscription to a paid plan
\* comes with an approval in its payment's trail.
PaidPlansAreReviewed ==
    \A s \in Subs :
        subscriptions[s].status # "absent" /\ subscriptions[s].plan \notin FreePlans
          => \E p \in Payments : /\ subscriptions[s].payment = p
                                 /\ [from |-> "waiting_for_review", to |-> "approved"]
                                      \in {events[p][i] : i \in 1 .. Len(events[p])}

-------------------------------------------------------------------------------
\* The lifecycle this module implements, with the approvals counted in the trail.
Approvals(p) == Cardinality({i \in 1 .. Len(events[p]) : events[p][i].to = "approved"})

Lifecycle == INSTANCE PaymentLifecycle
                 WITH status <- [p \in Payments |-> payments[p].status],
                      grants <- [p \in Payments |-> Approvals(p)]

\* Without overlap every step of the code is a step of the documented lifecycle.
ImplementsLifecycle == Lifecycle!LifecycleSpec
===============================================================================
