---------------------------- MODULE Billing_proofs ----------------------------
(***************************************************************************)
(* Theorems about Billing, for every set of users, plans, payments,        *)
(* subscriptions and workers.                                              *)
(***************************************************************************)
EXTENDS Billing, FiniteSetTheorems, TLAPS

-------------------------------------------------------------------------------
(* The inductive invariant.                                                *)

\* A receipt has been uploaded, and the trail says so.
HasReceipt(p) == /\ payments[p].receipt
                 /\ \E j \in 1 .. Len(events[p]) : events[p][j].to = "waiting_for_review"

\* What a request in flight may rely on although its rows move underneath it.
RequestOK(r) ==
    /\ r.op \in {"upload", "cancel", "approve", "reject"} =>
          /\ r.payment \in Payments /\ r.seen \in PAYMENT_ACTIVE_STATUSES
          /\ payments[r.payment].status # "absent"
    /\ r.op \in {"approve", "reject"} =>
          r.seen = "waiting_for_review" /\ HasReceipt(r.payment)
    /\ r.op = "approve" => r.user = PayUser[r.payment] /\ r.plan = PayPlan[r.payment]
    /\ r.op \in {"initiate", "subscribe", "unsubscribe", "lookup", "grant"}
         => r.user \in Users
    /\ r.op \in {"initiate", "subscribe"} => r.plan \in Plans
    /\ r.op \in {"unsubscribe", "lookup"} => r.sub \in Subs
    /\ r.sub # None => subscriptions[r.sub].status # "absent"

RequestsOK == \A w \in Workers : RequestOK(requests[w])

SubscriptionsOK == \A s \in Subs : subscriptions[s].status # "absent" =>
                      subscriptions[s].user \in Users /\ subscriptions[s].plan \in Plans

SweepOK == \A p \in Payments : sweep[p] # "absent" => payments[p].status # "absent"

WaitingHasReceipt == \A p \in Payments :
                       payments[p].status = "waiting_for_review" => HasReceipt(p)

IndInv == /\ TypeOK
          /\ RequestsOK /\ SubscriptionsOK /\ SweepOK /\ WaitingHasReceipt
          /\ ActiveHasDeadline /\ TrailEndsAtStatus
          /\ ReviewedAfterReceipt /\ ApprovedIsEntitled

-------------------------------------------------------------------------------
(* Two facts every step respects: receipts and rows are never taken back.  *)

ReceiptsKept == \A p \in Payments :
    /\ payments[p].status # "absent" => payments'[p].status # "absent"
    /\ HasReceipt(p) => HasReceipt(p)'

SubscriptionsKept == \A s \in Subs : subscriptions[s].status # "absent" =>
    /\ subscriptions'[s].status # "absent"
    /\ subscriptions'[s].user = subscriptions[s].user
    /\ subscriptions'[s].plan = subscriptions[s].plan
    /\ subscriptions'[s].payment = subscriptions[s].payment

-------------------------------------------------------------------------------
(* The initial state.                                                      *)

LEMMA IdleType == Idle \in Request
  BY DEF Idle, Request, Tiers

LEMMA NoPaymentType == NoPayment \in Payment
  BY DEF NoPayment, Payment, Deadline

LEMMA NoSubscriptionType == NoSubscription \in UserSubscription
  BY DEF NoSubscription, UserSubscription, Deadline

LEMMA InitIndInv == Init => IndInv
<1> SUFFICES ASSUME Init PROVE IndInv
  OBVIOUS
<1> USE ConstantsAssumption
<1>1. TypeOK
  BY IdleType, NoPaymentType, NoSubscriptionType DEF Init, TypeOK, Tiers
<1>2. RequestsOK
  BY DEF Init, RequestsOK, RequestOK, Idle
<1>3. SubscriptionsOK /\ SweepOK /\ WaitingHasReceipt /\ ActiveHasDeadline
  BY DEF Init, SubscriptionsOK, SweepOK, WaitingHasReceipt, NoPayment, NoSubscription,
         ActiveHasDeadline, Active, PAYMENT_ACTIVE_STATUSES
<1>4. TrailEndsAtStatus /\ ReviewedAfterReceipt /\ ApprovedIsEntitled
  BY DEF Init, NoPayment, TrailEndsAtStatus, ReviewedAfterReceipt, ApprovedIsEntitled
<1> QED
  BY <1>1, <1>2, <1>3, <1>4 DEF IndInv

-------------------------------------------------------------------------------
(* Requests in flight survive every step of the others.                    *)

LEMMA RequestsSurvive ==
  ASSUME IndInv, TypeOK', ReceiptsKept, SubscriptionsKept,
         \A w \in Workers : requests'[w] \in {requests[w], Idle}
  PROVE  RequestsOK'
<1> SUFFICES ASSUME NEW w \in Workers PROVE RequestOK(requests[w])'
  BY DEF RequestsOK
<1>1. CASE requests'[w] = requests[w]
  <2>1. requests[w] \in Request /\ RequestOK(requests[w])
    BY DEF IndInv, TypeOK, RequestsOK
  <2>2. RequestOK(requests[w])'
    BY <1>1, <2>1 DEF RequestOK, ReceiptsKept, SubscriptionsKept, Request
  <2> QED BY <2>2
<1>2. CASE requests'[w] = Idle
  BY <1>2 DEF RequestOK, Idle
<1> QED BY <1>1, <1>2

\* A step that only opens, advances or drops the request of worker w.
LEMMA RequestStepOnly ==
  ASSUME IndInv, NEW w \in Workers, NEW r \in Request, RequestOK(r),
         requests' = [requests EXCEPT ![w] = r],
         UNCHANGED <<payments, events, subscriptions, tier, sweep, crashes>>
  PROVE  IndInv'
<1>1. TypeOK'
  BY DEF IndInv, TypeOK
<1>2. RequestsOK'
  BY DEF IndInv, TypeOK, RequestsOK, RequestOK, HasReceipt
<1>3. SubscriptionsOK' /\ SweepOK' /\ WaitingHasReceipt'
  BY DEF IndInv, SubscriptionsOK, SweepOK, WaitingHasReceipt, HasReceipt
<1>4. ActiveHasDeadline' /\ TrailEndsAtStatus' /\ ReviewedAfterReceipt' /\ ApprovedIsEntitled'
  BY DEF IndInv, ActiveHasDeadline, Active, TrailEndsAtStatus, ReviewedAfterReceipt,
         ApprovedIsEntitled
<1> QED BY <1>1, <1>2, <1>3, <1>4 DEF IndInv

-------------------------------------------------------------------------------
(* Reads.                                                                  *)

LEMMA ReadSteps ==
  ASSUME IndInv, NEW w \in Workers,
         \/ \E u \in Users, pl \in Plans : InitiateRead(w, u, pl)
         \/ \E p \in Payments : \/ UploadRead(w, p) \/ CancelRead(w, p)
                                \/ ApproveRead(w, p) \/ RejectRead(w, p)
         \/ \E u \in Users, pl \in Plans, ref \in Refs : SubscribeRead(w, u, pl, ref)
         \/ \E s \in Subs : UnsubscribeRead(w, s)
         \/ \E u \in Users : LookupRead(w, u)
         \/ \E u \in Buyers : GrantRead(w, u)
  PROVE  IndInv'
<1> USE ConstantsAssumption, IdleType DEF Request
<1>1. ASSUME NEW r \in Request, RequestOK(r), Begin(w, r) PROVE IndInv'
  BY <1>1, RequestStepOnly DEF Begin
<1>2. ASSUME NEW u \in Users, NEW pl \in Plans, InitiateRead(w, u, pl) PROVE IndInv'
  <2> DEFINE r == [Idle EXCEPT !.op = "initiate", !.user = u, !.plan = pl]
  <2>1. r \in Request /\ RequestOK(r)
    BY DEF RequestOK, Idle, Tiers
  <2> QED BY <1>1, <1>2, <2>1 DEF InitiateRead
<1>3. ASSUME NEW p \in Payments, UploadRead(w, p) PROVE IndInv'
  <2> DEFINE r == [Idle EXCEPT !.op = "upload", !.payment = p, !.seen = "pending"]
  <2>1. r \in Request /\ RequestOK(r)
    BY <1>3 DEF RequestOK, Idle, UploadRead, PaymentStatus, PAYMENT_ACTIVE_STATUSES, Tiers
  <2> QED BY <1>1, <1>3, <2>1 DEF UploadRead
<1>4. ASSUME NEW p \in Payments, CancelRead(w, p) PROVE IndInv'
  <2> DEFINE r == [Idle EXCEPT !.op = "cancel", !.payment = p,
                               !.seen = payments[p].status]
  <2>1. r \in Request /\ RequestOK(r)
    BY ZenonT(60), <1>4 DEF RequestOK, Idle, CancelRead, Active, PaymentStatus,
                PAYMENT_ACTIVE_STATUSES, Tiers
  <2> QED BY <1>1, <1>4, <2>1 DEF CancelRead
<1>5. ASSUME NEW p \in Payments, ApproveRead(w, p) PROVE IndInv'
  <2> DEFINE r == [Idle EXCEPT !.op = "approve", !.payment = p,
                               !.seen = "waiting_for_review",
                               !.user = PayUser[p], !.plan = PayPlan[p]]
  <2>1. HasReceipt(p)
    BY <1>5 DEF ApproveRead, IndInv, WaitingHasReceipt
  <2>2. r \in Request /\ RequestOK(r)
    BY ZenonT(60), <1>5, <2>1 DEF RequestOK, Idle, ApproveRead, PaymentStatus,
                      PAYMENT_ACTIVE_STATUSES, Tiers
  <2> QED BY <1>1, <1>5, <2>2 DEF ApproveRead
<1>6. ASSUME NEW p \in Payments, RejectRead(w, p) PROVE IndInv'
  <2> DEFINE r == [Idle EXCEPT !.op = "reject", !.payment = p,
                               !.seen = "waiting_for_review"]
  <2>1. HasReceipt(p)
    BY <1>6 DEF RejectRead, IndInv, WaitingHasReceipt
  <2>2. r \in Request /\ RequestOK(r)
    BY ZenonT(60), <1>6, <2>1 DEF RequestOK, Idle, RejectRead, PaymentStatus,
                      PAYMENT_ACTIVE_STATUSES, Tiers
  <2> QED BY <1>1, <1>6, <2>2 DEF RejectRead
<1>7. ASSUME NEW u \in Users, NEW pl \in Plans, NEW ref \in Refs,
             SubscribeRead(w, u, pl, ref)
      PROVE  IndInv'
  <2> DEFINE r == [Idle EXCEPT !.op = "subscribe", !.user = u, !.plan = pl,
                               !.payment = ref, !.tier = tier[u]]
  <2>1. r \in Request /\ RequestOK(r)
    BY ZenonT(60) DEF RequestOK, Idle, Tiers, IndInv, TypeOK
  <2> QED BY <1>1, <1>7, <2>1 DEF SubscribeRead
<1>8. ASSUME NEW s \in Subs, UnsubscribeRead(w, s) PROVE IndInv'
  <2> DEFINE u == subscriptions[s].user
             r == [Idle EXCEPT !.op = "unsubscribe", !.user = u, !.sub = s,
                               !.tier = tier[u]]
  <2>1. u \in Users /\ subscriptions[s].status # "absent"
    BY <1>8 DEF UnsubscribeRead, IndInv, SubscriptionsOK
  <2>2. r \in Request /\ RequestOK(r)
    BY ZenonT(60), <2>1 DEF RequestOK, Idle, Tiers, IndInv, TypeOK
  <2> QED BY <1>1, <1>8, <2>2 DEF UnsubscribeRead
<1>9. ASSUME NEW u \in Users, LookupRead(w, u) PROVE IndInv'
  <2>1. PICK s \in Subs :
          /\ ActiveSubs(u) = {s}
          /\ Begin(w, [Idle EXCEPT !.op = "lookup", !.user = u, !.sub = s])
    BY <1>9 DEF LookupRead
  <2> DEFINE r == [Idle EXCEPT !.op = "lookup", !.user = u, !.sub = s]
  <2>2. subscriptions[s].status # "absent"
    BY <2>1 DEF ActiveSubs
  <2>3. r \in Request /\ RequestOK(r)
    BY <2>2 DEF RequestOK, Idle, Tiers
  <2> QED BY <1>1, <2>1, <2>3
<1>10. ASSUME NEW u \in Buyers, GrantRead(w, u) PROVE IndInv'
  <2> DEFINE r == [Idle EXCEPT !.op = "grant", !.user = u, !.tier = tier[u]]
  <2>1. r \in Request /\ RequestOK(r)
    BY ZenonT(60) DEF RequestOK, Idle, Tiers, IndInv, TypeOK
  <2> QED BY <1>1, <1>10, <2>1 DEF GrantRead
<1> QED
  BY <1>2, <1>3, <1>4, <1>5, <1>6, <1>7, <1>8, <1>9, <1>10

LEMMA ResolveSteps ==
  ASSUME IndInv, NEW w \in Workers, Resolve(w) \/ ResolveFails(w) \/ Abort(w)
  PROVE  IndInv'
<1>1. requests[w] \in Request /\ RequestOK(requests[w])
  BY DEF IndInv, TypeOK, RequestsOK
<1>2. CASE Abort(w) \/ ResolveFails(w)
  <2>1. RequestOK(Idle)
    BY DEF RequestOK, Idle
  <2> QED BY <1>2, <2>1, IdleType, RequestStepOnly DEF Abort, ResolveFails
<1>3. CASE Resolve(w)
  <2>1. CASE requests' = [requests EXCEPT ![w].resolved = TRUE]
    <3> DEFINE r == [requests[w] EXCEPT !.resolved = TRUE]
    <3>1. r \in Request /\ RequestOK(r)
      BY ZenonT(60), <1>1 DEF Request, RequestOK
    <3>2. requests' = [requests EXCEPT ![w] = r]
      BY <2>1 DEF IndInv, TypeOK
    <3> QED BY <1>3, <3>1, <3>2, RequestStepOnly DEF Resolve
  <2>2. ASSUME NEW s \in Subs, ActiveSubs(requests[w].user) = {s},
               requests' = [requests EXCEPT ![w].resolved = TRUE, ![w].sub = s,
                                            ![w].mark = Retired(s)]
        PROVE  IndInv'
    <3> DEFINE r == [requests[w] EXCEPT !.resolved = TRUE, !.sub = s,
                                        !.mark = Retired(s)]
    <3>1. subscriptions[s].status # "absent"
      BY <2>2 DEF ActiveSubs
    <3>2. r \in Request /\ RequestOK(r)
      BY ZenonT(60), <1>1, <1>3, <3>1 DEF Request, RequestOK, Retired, Resolve
    <3>3. requests' = [requests EXCEPT ![w] = r]
      BY <2>2 DEF IndInv, TypeOK
    <3> QED BY <1>3, <3>2, <3>3, RequestStepOnly DEF Resolve
  <2>3. ActiveSubs(requests[w].user) \subseteq Subs
    BY DEF ActiveSubs
  <2> QED BY <1>3, <2>1, <2>2, <2>3 DEF Resolve
<1> QED BY <1>2, <1>3

-------------------------------------------------------------------------------
(* Commits: the moves of one payment.                                      *)

\* Row p becomes row and its trail grows by one event: what every handler of a
\* payment has in common.  The hypotheses are what a handler must establish.
LEMMA MovePayment ==
  ASSUME IndInv, NEW p \in Payments, NEW row \in Payment,
         NEW from \in PaymentStatus \cup {"absent"},
         payments' = [payments EXCEPT ![p] = row],
         AddEvent(p, from, row.status),
         row.status \in PaymentStatus,
         row.status \in PAYMENT_ACTIVE_STATUSES => row.deadline # "none",
         HasReceipt(p) => row.receipt,
         row.status = "waiting_for_review" => row.receipt,
         row.status \in {"approved", "rejected"} => HasReceipt(p)
  PROVE  /\ payments' \in [Payments -> Payment]
         /\ events' \in [Payments -> Seq(PaymentEvent)]
         /\ ReceiptsKept /\ WaitingHasReceipt'
         /\ ActiveHasDeadline' /\ TrailEndsAtStatus' /\ ReviewedAfterReceipt'
<1> DEFINE e == [from |-> from, to |-> row.status]
<1> USE DEF IndInv
<1>1. /\ payments \in [Payments -> Payment]
      /\ events \in [Payments -> Seq(PaymentEvent)]
  BY DEF TypeOK
<1>2. e \in PaymentEvent
  BY DEF PaymentEvent
<1>3. /\ payments' \in [Payments -> Payment]
      /\ events' = [events EXCEPT ![p] = Append(events[p], e)]
      /\ events' \in [Payments -> Seq(PaymentEvent)]
  BY <1>1, <1>2 DEF AddEvent
<1>4. /\ Len(events'[p]) = Len(events[p]) + 1
      /\ Len(events[p]) \in Nat
      /\ events'[p][Len(events[p]) + 1] = e
      /\ \A i \in 1 .. Len(events[p]) : events'[p][i] = events[p][i]
  BY <1>1, <1>2, <1>3
<1>5. \A q \in Payments : q # p => payments'[q] = payments[q] /\ events'[q] = events[q]
  BY <1>1, <1>3
<1>6. payments'[p] = row /\ row.status # "absent"
  BY <1>1 DEF PaymentStatus
<1>7. ReceiptsKept
  <2> SUFFICES ASSUME NEW q \in Payments
               PROVE  /\ payments[q].status # "absent" => payments'[q].status # "absent"
                      /\ HasReceipt(q) => HasReceipt(q)'
    BY DEF ReceiptsKept
  <2>1. CASE q # p
    BY <1>5, <2>1 DEF HasReceipt
  <2>2. CASE q = p
    BY <1>4, <1>6, <2>2 DEF HasReceipt
  <2> QED BY <2>1, <2>2
<1>8. WaitingHasReceipt'
  <2> SUFFICES ASSUME NEW q \in Payments, payments'[q].status = "waiting_for_review"
               PROVE  HasReceipt(q)'
    BY DEF WaitingHasReceipt
  <2>1. CASE q # p
    BY <1>5, <1>7, <2>1 DEF WaitingHasReceipt, ReceiptsKept
  <2>2. CASE q = p
    <3>1. row.receipt /\ e.to = "waiting_for_review"
      BY <1>6, <2>2
    <3>2. Len(events[p]) + 1 \in 1 .. Len(events'[p])
      BY <1>4
    <3> QED BY <1>4, <1>6, <2>2, <3>1, <3>2 DEF HasReceipt
  <2> QED BY <2>1, <2>2
<1>9. ActiveHasDeadline'
  BY <1>5, <1>6 DEF ActiveHasDeadline, Active
<1>10. TrailEndsAtStatus'
  <2> SUFFICES ASSUME NEW q \in Payments
               PROVE  IF payments'[q].status = "absent" THEN events'[q] = <<>>
                      ELSE /\ events'[q] # <<>>
                           /\ events'[q][Len(events'[q])].to = payments'[q].status
    BY DEF TrailEndsAtStatus
  <2>1. CASE q # p
    BY <1>5, <2>1 DEF TrailEndsAtStatus
  <2>2. CASE q = p
    <3>1. events'[p] # <<>>
      BY <1>3, <1>4
    <3> QED BY <1>4, <1>6, <2>2, <3>1
  <2> QED BY <2>1, <2>2
<1>11. ReviewedAfterReceipt'
  <2> SUFFICES ASSUME NEW q \in Payments, NEW i \in 1 .. Len(events'[q]),
                      events'[q][i].to \in {"approved", "rejected"}
               PROVE  payments'[q].receipt /\ \E j \in 1 .. i - 1 :
                                                events'[q][j].to = "waiting_for_review"
    BY DEF ReviewedAfterReceipt
  <2>1. CASE q # p
    BY <1>5, <2>1 DEF ReviewedAfterReceipt
  <2>2. CASE q = p /\ i \in 1 .. Len(events[p])
    <3>1. payments[p].receipt /\ \E j \in 1 .. i - 1 :
                                   events[p][j].to = "waiting_for_review"
      BY <1>4, <2>2 DEF ReviewedAfterReceipt
    <3>2. HasReceipt(p)
      BY <1>4, <2>2, <3>1 DEF HasReceipt
    <3> QED BY <1>4, <1>6, <2>2, <3>1, <3>2
  <2>3. CASE q = p /\ i = Len(events[p]) + 1
    <3>1. HasReceipt(p)
      BY <1>4, <2>3
    <3> QED BY <1>4, <1>6, <2>3, <3>1 DEF HasReceipt
  <2> QED BY <1>4, <2>1, <2>2, <2>3
<1> QED BY <1>3, <1>7, <1>8, <1>9, <1>10, <1>11

\* An approved row is either the one that was approved before or, if p is the
\* payment approved now, points to the row inserted with it.
LEMMA EntitlementKept ==
  ASSUME IndInv, SubscriptionsKept,
         \A p \in Payments : payments'[p].status = "approved" =>
             /\ payments[p].status = "approved"
             /\ payments'[p].subscription = payments[p].subscription
  PROVE  ApprovedIsEntitled'
  BY DEF IndInv, ApprovedIsEntitled, SubscriptionsKept

\* Finish only drops a request, so the requests that remain are those before.
LEMMA FinishType ==
  ASSUME IndInv, NEW w \in Workers, NEW op, Finish(w, op)
  PROVE  /\ requests' \in [Workers -> Request]
         /\ \A v \in Workers : requests'[v] \in {requests[v], Idle}
         /\ sweep' = sweep /\ crashes' = crashes
         /\ requests[w] \in Request /\ RequestOK(requests[w])
         /\ requests[w].op = op
  BY IdleType DEF IndInv, TypeOK, RequestsOK, Finish

\* A handler that moves a payment to a status other than approved and touches
\* no subscription: upload, cancel, reject and the creation.
LEMMA PaymentCommit ==
  ASSUME IndInv, NEW w \in Workers, NEW op, Finish(w, op),
         NEW p \in Payments, NEW row \in Payment,
         NEW from \in PaymentStatus \cup {"absent"},
         payments' = [payments EXCEPT ![p] = row],
         AddEvent(p, from, row.status),
         row.status \in PaymentStatus \ {"approved"},
         row.status \in PAYMENT_ACTIVE_STATUSES => row.deadline # "none",
         HasReceipt(p) => row.receipt,
         row.status = "waiting_for_review" => row.receipt,
         row.status = "rejected" => HasReceipt(p),
         UNCHANGED <<subscriptions, tier>>
  PROVE  IndInv'
<1>1. /\ payments' \in [Payments -> Payment]
      /\ events' \in [Payments -> Seq(PaymentEvent)]
      /\ ReceiptsKept /\ WaitingHasReceipt'
      /\ ActiveHasDeadline' /\ TrailEndsAtStatus' /\ ReviewedAfterReceipt'
  BY MovePayment
<1>2. SubscriptionsKept /\ SubscriptionsOK'
  BY DEF IndInv, SubscriptionsKept, SubscriptionsOK
<1>3. TypeOK'
  BY <1>1, FinishType DEF TypeOK, IndInv
<1>4. RequestsOK'
  BY <1>1, <1>2, <1>3, FinishType, RequestsSurvive
<1>5. SweepOK'
  BY <1>1, FinishType DEF SweepOK, IndInv, ReceiptsKept
<1>6. \A q \in Payments : payments'[q].status = "approved" =>
                            payments'[q] = payments[q]
  BY DEF IndInv, TypeOK
<1>7. ApprovedIsEntitled'
  BY <1>2, <1>6, EntitlementKept
<1> QED BY <1>1, <1>2, <1>3, <1>4, <1>5, <1>7 DEF IndInv

LEMMA PaymentCommits ==
  ASSUME IndInv, NEW w \in Workers,
         InitiateCommit(w) \/ UploadCommit(w) \/ CancelCommit(w) \/ RejectCommit(w)
  PROVE  IndInv'
<1> DEFINE p == requests[w].payment
           seen == requests[w].seen
<1>1. payments \in [Payments -> Payment]
  BY DEF IndInv, TypeOK
<1>2. CASE InitiateCommit(w)
  <2>1. PICK q \in Payments :
          /\ payments[q].status = "absent"
          /\ Finish(w, "initiate")
          /\ payments' = [payments EXCEPT
                 ![q] = [NoPayment EXCEPT !.status = "pending", !.deadline = "ahead",
                                          !.nth = Cardinality(Created) + 1]]
          /\ AddEvent(q, "absent", "pending")
          /\ UNCHANGED <<subscriptions, tier>>
    BY <1>2 DEF InitiateCommit
  <2> DEFINE row == [NoPayment EXCEPT !.status = "pending", !.deadline = "ahead",
                                      !.nth = Cardinality(Created) + 1]
  <2>2. Cardinality(Created) \in Nat
    BY ConstantsAssumption, FS_Subset, FS_CardinalityType DEF Created
  <2>3. row \in Payment
    <3>1. \A n \in Nat : [NoPayment EXCEPT !.status = "pending", !.deadline = "ahead",
                                         !.nth = n] \in Payment
      BY NoPaymentType DEF Payment, Deadline, PaymentStatus
    <3>2. Cardinality(Created) + 1 \in Nat
      BY <2>2
    <3> QED BY <3>1, <3>2
  <2>6. row.status = "pending" /\ row.deadline = "ahead"
    BY DEF NoPayment
  <2>4. ~HasReceipt(q)
    BY <2>1 DEF IndInv, TrailEndsAtStatus, HasReceipt
  <2>5. /\ payments' = [payments EXCEPT ![q] = row]
        /\ AddEvent(q, "absent", row.status)
    BY <2>1, <2>6
  <2> HIDE DEF row
  <2> QED
    BY <2>1, <2>3, <2>4, <2>5, <2>6, PaymentCommit DEF PaymentStatus, PAYMENT_ACTIVE_STATUSES
<1>4. CASE UploadCommit(w)
  <2> DEFINE row == [payments[p] EXCEPT !.status = "waiting_for_review",
                                        !.receipt = TRUE, !.deadline = "ahead"]
  <2>1. p \in Payments
    BY <1>4, FinishType DEF UploadCommit, RequestOK
  <2>2. seen \in PaymentStatus
    BY <1>4, FinishType DEF UploadCommit, RequestOK, PaymentStatus, PAYMENT_ACTIVE_STATUSES
  <2>3. row \in Payment
    BY ZenonT(60), <1>1, <2>1 DEF Payment, PaymentStatus, Deadline
  <2>4. row.status = "waiting_for_review" /\ row.deadline = "ahead"
    BY <1>1, <2>1 DEF Payment
  <2>5. row.receipt
    BY <1>1, <2>1 DEF Payment
  <2>6. payments' = [payments EXCEPT ![p] = row]
    BY <1>1, <1>4, <2>1 DEF UploadCommit
  <2>7. /\ Finish(w, "upload") /\ AddEvent(p, seen, row.status)
        /\ UNCHANGED <<subscriptions, tier>>
    BY <1>4, <2>4 DEF UploadCommit
  <2> HIDE DEF p, seen, row
  <2> QED
    BY <2>1, <2>2, <2>3, <2>4, <2>5, <2>6, <2>7, PaymentCommit
       DEF PaymentStatus, PAYMENT_ACTIVE_STATUSES
<1>5. CASE CancelCommit(w)
  <2> DEFINE row == [payments[p] EXCEPT !.status = "cancelled", !.deadline = "none"]
  <2>1. p \in Payments
    BY <1>5, FinishType DEF CancelCommit, RequestOK
  <2>2. seen \in PaymentStatus
    BY <1>5, FinishType DEF CancelCommit, RequestOK, PaymentStatus, PAYMENT_ACTIVE_STATUSES
  <2>3. row \in Payment
    BY ZenonT(60), <1>1, <2>1 DEF Payment, PaymentStatus, Deadline
  <2>4. row.status = "cancelled" /\ row.deadline = "none"
    BY <1>1, <2>1 DEF Payment
  <2>5. HasReceipt(p) => row.receipt
    BY <1>1, <2>1 DEF Payment, HasReceipt
  <2>6. payments' = [payments EXCEPT ![p] = row]
    BY <1>1, <1>5, <2>1 DEF CancelCommit
  <2>7. /\ Finish(w, "cancel") /\ AddEvent(p, seen, row.status)
        /\ UNCHANGED <<subscriptions, tier>>
    BY <1>5, <2>4 DEF CancelCommit
  <2> HIDE DEF p, seen, row
  <2> QED
    BY <2>1, <2>2, <2>3, <2>4, <2>5, <2>6, <2>7, PaymentCommit
       DEF PaymentStatus, PAYMENT_ACTIVE_STATUSES
<1>6. CASE RejectCommit(w)
  <2> DEFINE row == [payments[p] EXCEPT !.status = "rejected", !.deadline = "none"]
  <2>1. p \in Payments
    BY <1>6, FinishType DEF RejectCommit, RequestOK
  <2>2. seen \in PaymentStatus /\ HasReceipt(p)
    BY <1>6, FinishType DEF RejectCommit, RequestOK, PaymentStatus, PAYMENT_ACTIVE_STATUSES
  <2>3. row \in Payment
    BY ZenonT(60), <1>1, <2>1 DEF Payment, PaymentStatus, Deadline
  <2>4. row.status = "rejected" /\ row.deadline = "none"
    BY <1>1, <2>1 DEF Payment
  <2>5. HasReceipt(p) => row.receipt
    BY <1>1, <2>1 DEF Payment, HasReceipt
  <2>6. payments' = [payments EXCEPT ![p] = row]
    BY <1>1, <1>6, <2>1 DEF RejectCommit
  <2>7. /\ Finish(w, "reject") /\ AddEvent(p, seen, row.status)
        /\ UNCHANGED <<subscriptions, tier>>
    BY <1>6, <2>4 DEF RejectCommit
  <2> HIDE DEF p, seen, row
  <2> QED
    BY <2>1, <2>2, <2>3, <2>4, <2>5, <2>6, <2>7, PaymentCommit
       DEF PaymentStatus, PAYMENT_ACTIVE_STATUSES
<1> QED BY <1>2, <1>4, <1>5, <1>6

-------------------------------------------------------------------------------
(* Commits: the moves of subscriptions.                                    *)

\* An activation inserts a row for the user and the plan of the request and
\* changes nothing but the status of the rows that were there.
LEMMA ActivationKeepsRows ==
  ASSUME IndInv, NEW w \in Workers, NEW s \in Subs, Activate(w, s),
         requests[w].op \in {"approve", "subscribe"}, requests[w].plan \in Plans,
         requests[w].user \in Users
  PROVE  /\ subscriptions' \in [Subs -> UserSubscription]
         /\ SubscriptionsKept /\ SubscriptionsOK'
         /\ subscriptions'[s].status = "active"
         /\ subscriptions'[s].user = requests[w].user
         /\ subscriptions'[s].plan = requests[w].plan
         /\ subscriptions'[s].payment = requests[w].payment
<1> DEFINE r == requests[w]
           expires == IF r.plan \in LifetimePlans THEN "none" ELSE "ahead"
           new == [status |-> "active", user |-> r.user, plan |-> r.plan,
                   payment |-> r.payment, expires |-> expires]
<1>1. /\ subscriptions \in [Subs -> UserSubscription]
      /\ r \in Request /\ RequestOK(r)
  BY DEF IndInv, TypeOK, RequestsOK
<1>2. /\ subscriptions[s].status = "absent"
      /\ subscriptions' = [x \in Subs |->
             IF x = s THEN new
             ELSE IF x = r.sub THEN [subscriptions[x] EXCEPT !.status = r.mark]
             ELSE subscriptions[x]]
  BY DEF Activate
<1>3. r.payment \in Payments \cup Refs \cup {None} /\ r.mark \in {"cancelled", "expired"}
  BY <1>1 DEF Request
<1>4. new \in UserSubscription
  BY <1>3 DEF UserSubscription, Deadline
<1>5. \A x \in Subs : x # s /\ x = r.sub =>
          /\ subscriptions'[x] \in UserSubscription
          /\ subscriptions'[x].status # "absent"
          /\ subscriptions[x].status # "absent"
          /\ subscriptions'[x].user = subscriptions[x].user
          /\ subscriptions'[x].plan = subscriptions[x].plan
          /\ subscriptions'[x].payment = subscriptions[x].payment
  <2> SUFFICES ASSUME NEW x \in Subs, x # s, x = r.sub
               PROVE  /\ subscriptions'[x] \in UserSubscription
                      /\ subscriptions'[x].status # "absent"
                      /\ subscriptions[x].status # "absent"
                      /\ subscriptions'[x].user = subscriptions[x].user
                      /\ subscriptions'[x].plan = subscriptions[x].plan
                      /\ subscriptions'[x].payment = subscriptions[x].payment
    OBVIOUS
  <2>1. subscriptions'[x] = [subscriptions[x] EXCEPT !.status = r.mark]
    BY <1>2
  <2>2. subscriptions[x].status # "absent"
    BY <1>1, ConstantsAssumption DEF RequestOK
  <2> QED BY <1>1, <1>3, <2>1, <2>2 DEF UserSubscription
<1>6. \A x \in Subs : x # s /\ x # r.sub => subscriptions'[x] = subscriptions[x]
  BY <1>2
<1>7. subscriptions'[s] = new
  BY <1>2
<1> HIDE DEF new
<1>8. subscriptions' \in [Subs -> UserSubscription]
  BY <1>1, <1>2, <1>4, <1>5, <1>6, <1>7
<1>9. SubscriptionsKept
  BY <1>2, <1>5, <1>6 DEF SubscriptionsKept
<1>10. SubscriptionsOK'
  BY <1>5, <1>6, <1>7 DEF SubscriptionsOK, IndInv, new
<1> QED BY <1>7, <1>8, <1>9, <1>10 DEF new

\* A step that ends a request and leaves payments and their trails alone.
LEMMA SubscriptionCommit ==
  ASSUME IndInv, NEW w \in Workers, NEW op, Finish(w, op),
         UNCHANGED <<payments, events>>,
         subscriptions' \in [Subs -> UserSubscription], tier' \in [Users -> Tiers],
         SubscriptionsKept, SubscriptionsOK'
  PROVE  IndInv'
<1>1. TypeOK'
  BY FinishType DEF TypeOK, IndInv
<1>2. ReceiptsKept
  BY DEF ReceiptsKept, HasReceipt
<1>3. RequestsOK'
  BY <1>1, <1>2, FinishType, RequestsSurvive
<1>4. SweepOK' /\ WaitingHasReceipt'
  BY FinishType DEF SweepOK, WaitingHasReceipt, HasReceipt, IndInv
<1>5. ActiveHasDeadline' /\ TrailEndsAtStatus' /\ ReviewedAfterReceipt'
  BY DEF IndInv, ActiveHasDeadline, Active, TrailEndsAtStatus, ReviewedAfterReceipt
<1>6. ApprovedIsEntitled'
  BY EntitlementKept
<1> QED BY <1>1, <1>3, <1>4, <1>5, <1>6 DEF IndInv

LEMMA SubscriptionCommits ==
  ASSUME IndInv, NEW w \in Workers,
         SubscribeCommit(w) \/ UnsubscribeCommit(w) \/ LookupCommit(w) \/ GrantCommit(w)
  PROVE  IndInv'
<1>1. /\ subscriptions \in [Subs -> UserSubscription] /\ tier \in [Users -> Tiers]
      /\ requests[w] \in Request /\ RequestOK(requests[w]) /\ SubscriptionsOK
  BY DEF IndInv, TypeOK, RequestsOK
<1>2. ASSUME NEW u \in Users, NEW new \in Tiers, SetTier(w, u, new)
      PROVE  tier' \in [Users -> Tiers]
  BY <1>1, <1>2 DEF SetTier
<1>3. ASSUME NEW s \in Subs, subscriptions[s].status # "absent",
             NEW status \in {"cancelled", "expired"},
             subscriptions' = [subscriptions EXCEPT ![s].status = status]
      PROVE  /\ subscriptions' \in [Subs -> UserSubscription]
             /\ SubscriptionsKept /\ SubscriptionsOK'
  <2>1. subscriptions' \in [Subs -> UserSubscription]
    BY <1>1, <1>3 DEF UserSubscription
  <2>2. SubscriptionsKept
    BY <1>1, <1>3 DEF SubscriptionsKept, UserSubscription
  <2>3. SubscriptionsOK'
    BY <1>1, <1>3 DEF SubscriptionsOK, UserSubscription
  <2> QED BY <2>1, <2>2, <2>3
<1>4. CASE SubscribeCommit(w)
  <2>1. PICK s \in Subs : /\ Finish(w, "subscribe") /\ Activate(w, s)
                          /\ SetTier(w, requests[w].user, PlanTier[requests[w].plan])
                          /\ UNCHANGED <<payments, events>>
    BY <1>4 DEF SubscribeCommit
  <2>2. requests[w].op = "subscribe" /\ requests[w].user \in Users /\ requests[w].plan \in Plans
    BY <1>1, <2>1 DEF Finish, RequestOK
  <2>3. tier' \in [Users -> Tiers]
    BY <1>2, <2>1, <2>2, ConstantsAssumption
  <2> QED BY <2>1, <2>2, <2>3, ActivationKeepsRows, SubscriptionCommit
<1>5. CASE UnsubscribeCommit(w)
  <2>1. /\ requests[w].user \in Users /\ requests[w].sub \in Subs
        /\ subscriptions[requests[w].sub].status # "absent"
    BY <1>1, <1>5, ConstantsAssumption DEF UnsubscribeCommit, Finish, RequestOK
  <2>2. tier' \in [Users -> Tiers]
    BY <1>2, <1>5, <2>1 DEF UnsubscribeCommit, Tiers
  <2> QED BY <1>3, <1>5, <2>1, <2>2, SubscriptionCommit DEF UnsubscribeCommit
<1>6. CASE LookupCommit(w)
  <2>1. /\ requests[w].sub \in Subs
        /\ subscriptions[requests[w].sub].status # "absent"
    BY <1>1, <1>6, ConstantsAssumption DEF LookupCommit, Finish, RequestOK
  <2> QED BY <1>1, <1>3, <1>6, <2>1, SubscriptionCommit DEF LookupCommit
<1>7. CASE GrantCommit(w)
  <2>1. requests[w].user \in Users
    BY <1>1, <1>7 DEF GrantCommit, Finish, RequestOK
  <2>2. tier' \in [Users -> Tiers]
    BY <1>1, <1>2, <1>7, <2>1 DEF GrantCommit, Tiers
  <2>3. SubscriptionsKept /\ SubscriptionsOK'
    BY <1>1, <1>7 DEF GrantCommit, SubscriptionsKept, SubscriptionsOK
  <2> QED BY <1>1, <1>7, <2>2, <2>3, SubscriptionCommit DEF GrantCommit
<1> QED BY <1>4, <1>5, <1>6, <1>7

-------------------------------------------------------------------------------
(* The approval: a payment and a subscription move in one commit.          *)

LEMMA ApproveStep ==
  ASSUME IndInv, NEW w \in Workers, ApproveCommit(w)
  PROVE  IndInv'
<1> DEFINE p == requests[w].payment
           seen == requests[w].seen
<1>1. PICK s \in Subs :
        /\ Finish(w, "approve") /\ Activate(w, s)
        /\ tier' = [tier EXCEPT ![requests[w].user] = PlanTier[requests[w].plan]]
        /\ payments' = [payments EXCEPT ![p].status = "approved",
                                        ![p].subscription = s,
                                        ![p].deadline = "none"]
        /\ AddEvent(p, seen, "approved")
  BY DEF ApproveCommit
<1> DEFINE row == [payments[p] EXCEPT !.status = "approved", !.subscription = s,
                                      !.deadline = "none"]
<1>2. requests[w].op = "approve" /\ requests[w] \in Request /\ RequestOK(requests[w])
  BY <1>1, FinishType
<1>3. p \in Payments
  BY <1>2 DEF RequestOK
<1>4. seen \in PaymentStatus /\ HasReceipt(p)
  BY <1>2 DEF RequestOK, PaymentStatus, PAYMENT_ACTIVE_STATUSES
<1>5. requests[w].user = PayUser[p] /\ requests[w].plan = PayPlan[p]
  BY <1>2 DEF RequestOK
<1>6. requests[w].user \in Users /\ requests[w].plan \in Plans
  BY <1>3, <1>5, ConstantsAssumption
<1>7. payments \in [Payments -> Payment] /\ tier \in [Users -> Tiers]
  BY DEF IndInv, TypeOK
<1>8. row \in Payment
  BY ZenonT(60), <1>3, <1>7 DEF Payment, PaymentStatus, Deadline
<1>9. row.status = "approved"
  BY <1>3, <1>7 DEF Payment
<1>10. HasReceipt(p) => row.receipt
  BY <1>3, <1>7 DEF Payment, HasReceipt
<1>11. payments' = [payments EXCEPT ![p] = row]
  BY <1>1, <1>3, <1>7
<1>12. row.subscription = s
  BY <1>3, <1>7 DEF Payment
<1>13. AddEvent(p, seen, row.status)
  BY <1>1, <1>9
<1> HIDE DEF p, seen, row
<1>14. /\ payments' \in [Payments -> Payment]
       /\ events' \in [Payments -> Seq(PaymentEvent)]
       /\ ReceiptsKept /\ WaitingHasReceipt'
       /\ ActiveHasDeadline' /\ TrailEndsAtStatus' /\ ReviewedAfterReceipt'
  BY <1>3, <1>4, <1>8, <1>9, <1>10, <1>11, <1>13, MovePayment
     DEF PaymentStatus, PAYMENT_ACTIVE_STATUSES
<1>15. /\ subscriptions' \in [Subs -> UserSubscription]
       /\ SubscriptionsKept /\ SubscriptionsOK'
       /\ subscriptions'[s].status = "active"
       /\ subscriptions'[s].user = requests[w].user
       /\ subscriptions'[s].plan = requests[w].plan
       /\ subscriptions'[s].payment = p
  BY <1>1, <1>2, <1>6, ActivationKeepsRows DEF p
<1>16. TypeOK'
  <2>1. tier' \in [Users -> Tiers]
    BY <1>1, <1>6, <1>7, ConstantsAssumption
  <2> QED BY <1>1, <1>14, <1>15, <2>1, FinishType DEF TypeOK, IndInv
<1>17. RequestsOK'
  BY <1>1, <1>14, <1>15, <1>16, FinishType, RequestsSurvive
<1>18. SweepOK'
  BY <1>1, <1>14, FinishType DEF SweepOK, IndInv, ReceiptsKept
<1>19. ApprovedIsEntitled'
  <2> SUFFICES ASSUME NEW q \in Payments, payments'[q].status = "approved"
               PROVE  \E x \in Subs : /\ payments'[q].subscription = x
                                      /\ subscriptions'[x].status # "absent"
                                      /\ subscriptions'[x].payment = q
                                      /\ subscriptions'[x].user = PayUser[q]
                                      /\ subscriptions'[x].plan = PayPlan[q]
    BY DEF ApprovedIsEntitled
  <2>1. CASE q = p
    <3>1. payments'[q].subscription = s
      BY <1>3, <1>7, <1>11, <1>12, <2>1
    <3> QED BY <1>5, <1>15, <2>1, <3>1
  <2>2. CASE q # p
    <3>1. payments'[q] = payments[q]
      BY <1>7, <1>11, <2>2
    <3> QED BY <1>15, <3>1 DEF IndInv, ApprovedIsEntitled, SubscriptionsKept
  <2> QED BY <2>1, <2>2
<1> QED BY <1>14, <1>15, <1>16, <1>17, <1>18, <1>19 DEF IndInv

-------------------------------------------------------------------------------
(* The sweeper and time.                                                   *)

\* A step that leaves the tables alone: what the sweeper remembers changes.
LEMMA SweepMemory ==
  ASSUME IndInv, UNCHANGED <<payments, events, subscriptions, tier, requests>>,
         sweep' \in [Payments -> PAYMENT_ACTIVE_STATUSES \cup {"absent"}],
         \A p \in Payments : sweep'[p] # "absent" => payments[p].status # "absent",
         crashes' \in 0 .. MaxCrashes
  PROVE  IndInv'
<1>1. TypeOK'
  BY DEF IndInv, TypeOK
<1>2. RequestsOK'
  BY DEF IndInv, RequestsOK, RequestOK, HasReceipt
<1>3. SubscriptionsOK' /\ SweepOK' /\ WaitingHasReceipt'
  BY DEF IndInv, SubscriptionsOK, SweepOK, WaitingHasReceipt, HasReceipt
<1>4. ActiveHasDeadline' /\ TrailEndsAtStatus' /\ ReviewedAfterReceipt' /\ ApprovedIsEntitled'
  BY DEF IndInv, ActiveHasDeadline, Active, TrailEndsAtStatus, ReviewedAfterReceipt,
         ApprovedIsEntitled
<1> QED BY <1>1, <1>2, <1>3, <1>4 DEF IndInv

LEMMA SweepReadStep == ASSUME IndInv, SweepRead PROVE IndInv'
<1>1. list_expirable \subseteq Payments
      /\ \A p \in list_expirable : payments[p].status \in PAYMENT_ACTIVE_STATUSES
  BY DEF list_expirable, Active
<1>2. sweep' \in [Payments -> PAYMENT_ACTIVE_STATUSES \cup {"absent"}]
  BY <1>1 DEF SweepRead
<1>3. \A p \in Payments : sweep'[p] # "absent" => payments[p].status # "absent"
  BY <1>1 DEF SweepRead, PAYMENT_ACTIVE_STATUSES
<1>4. crashes' \in 0 .. MaxCrashes
  BY DEF SweepRead, IndInv, TypeOK
<1> QED BY <1>2, <1>3, <1>4, SweepMemory DEF SweepRead

LEMMA SweepCrashStep == ASSUME IndInv, SweepCrash PROVE IndInv'
<1>1. crashes' \in 0 .. MaxCrashes
  BY ConstantsAssumption DEF SweepCrash, IndInv, TypeOK
<1>2. /\ sweep' \in [Payments -> PAYMENT_ACTIVE_STATUSES \cup {"absent"}]
      /\ \A p \in Payments : sweep'[p] = "absent"
  BY DEF SweepCrash
<1> QED BY <1>1, <1>2, SweepMemory DEF SweepCrash

\* A step that writes payments while requests and subscriptions stay.
LEMMA PaymentsOnly ==
  ASSUME IndInv, UNCHANGED <<subscriptions, tier, requests, crashes>>,
         payments' \in [Payments -> Payment], events' \in [Payments -> Seq(PaymentEvent)],
         sweep' \in [Payments -> PAYMENT_ACTIVE_STATUSES \cup {"absent"}],
         \A p \in Payments : sweep'[p] \in {sweep[p], "absent"},
         ReceiptsKept, WaitingHasReceipt',
         ActiveHasDeadline', TrailEndsAtStatus', ReviewedAfterReceipt',
         \A p \in Payments : payments'[p].status = "approved" =>
             /\ payments[p].status = "approved"
             /\ payments'[p].subscription = payments[p].subscription
  PROVE  IndInv'
<1>1. TypeOK'
  BY DEF IndInv, TypeOK
<1>2. SubscriptionsKept /\ SubscriptionsOK'
  BY DEF IndInv, SubscriptionsKept, SubscriptionsOK
<1>3. RequestsOK'
  BY <1>1, <1>2, RequestsSurvive
<1>4. SweepOK'
  BY DEF IndInv, SweepOK, ReceiptsKept
<1>5. ApprovedIsEntitled'
  BY <1>2, EntitlementKept
<1> QED BY <1>1, <1>2, <1>3, <1>4, <1>5 DEF IndInv

LEMMA SweepOneStep == ASSUME IndInv, NEW p \in Payments, SweepOne(p) PROVE IndInv'
<1> DEFINE row == [payments[p] EXCEPT !.status = "expired"]
<1>1. /\ payments \in [Payments -> Payment]
      /\ sweep \in [Payments -> PAYMENT_ACTIVE_STATUSES \cup {"absent"}]
  BY DEF IndInv, TypeOK
<1>2. row \in Payment
  BY <1>1 DEF Payment, PaymentStatus
<1>3. row.status = "expired" /\ (HasReceipt(p) => row.receipt)
  BY <1>1 DEF Payment, HasReceipt
<1>4. payments' = [payments EXCEPT ![p] = row]
  BY <1>1 DEF SweepOne
<1>5. AddEvent(p, sweep[p], row.status)
  BY <1>3 DEF SweepOne
<1>6. sweep[p] \in PaymentStatus \cup {"absent"}
  BY <1>1 DEF PaymentStatus, PAYMENT_ACTIVE_STATUSES
<1>7. \A q \in Payments : payments'[q].status = "approved" => payments'[q] = payments[q]
  BY <1>1, <1>3, <1>4
<1> HIDE DEF row
<1>8. /\ payments' \in [Payments -> Payment]
      /\ events' \in [Payments -> Seq(PaymentEvent)]
      /\ ReceiptsKept /\ WaitingHasReceipt'
      /\ ActiveHasDeadline' /\ TrailEndsAtStatus' /\ ReviewedAfterReceipt'
  BY <1>2, <1>3, <1>4, <1>5, <1>6, MovePayment DEF PaymentStatus, PAYMENT_ACTIVE_STATUSES
<1>9. /\ sweep' \in [Payments -> PAYMENT_ACTIVE_STATUSES \cup {"absent"}]
      /\ \A q \in Payments : sweep'[q] \in {sweep[q], "absent"}
  BY <1>1 DEF SweepOne
<1> QED BY <1>7, <1>8, <1>9, PaymentsOnly DEF SweepOne

LEMMA TimeSteps ==
  ASSUME IndInv, \/ \E p \in Payments : DeadlinePasses(p)
                 \/ \E s \in Subs : SubscriptionLapses(s)
  PROVE  IndInv'
<1>1. ASSUME NEW p \in Payments, DeadlinePasses(p) PROVE IndInv'
  <2>1. payments \in [Payments -> Payment]
    BY DEF IndInv, TypeOK
  <2>2. payments' \in [Payments -> Payment]
    BY <1>1, <2>1 DEF DeadlinePasses, Payment, Deadline
  <2>3. \A q \in Payments : /\ payments'[q].status = payments[q].status
                            /\ payments'[q].receipt = payments[q].receipt
                            /\ payments'[q].subscription = payments[q].subscription
                            /\ payments'[q].deadline \in {payments[q].deadline, "behind"}
    BY <1>1, <2>1 DEF DeadlinePasses, Payment
  <2>4. events' = events /\ events' \in [Payments -> Seq(PaymentEvent)]
    BY <1>1 DEF DeadlinePasses, IndInv, TypeOK
  <2>5. ReceiptsKept /\ WaitingHasReceipt'
    BY <2>3, <2>4 DEF ReceiptsKept, WaitingHasReceipt, HasReceipt, IndInv
  <2>6. ActiveHasDeadline'
    BY <2>3 DEF ActiveHasDeadline, Active, IndInv
  <2>7. TrailEndsAtStatus' /\ ReviewedAfterReceipt'
    BY ZenonT(60), <2>3, <2>4 DEF TrailEndsAtStatus, ReviewedAfterReceipt, IndInv
  <2>8. /\ sweep' \in [Payments -> PAYMENT_ACTIVE_STATUSES \cup {"absent"}]
        /\ \A q \in Payments : sweep'[q] \in {sweep[q], "absent"}
    BY <1>1 DEF DeadlinePasses, IndInv, TypeOK
  <2> QED BY <1>1, <2>2, <2>3, <2>4, <2>5, <2>6, <2>7, <2>8, PaymentsOnly DEF DeadlinePasses
<1>2. ASSUME NEW s \in Subs, SubscriptionLapses(s) PROVE IndInv'
  <2>1. subscriptions \in [Subs -> UserSubscription]
    BY DEF IndInv, TypeOK
  <2>2. subscriptions' \in [Subs -> UserSubscription]
    BY <1>2, <2>1 DEF SubscriptionLapses, UserSubscription, Deadline
  <2>3. \A x \in Subs : /\ subscriptions'[x].status = subscriptions[x].status
                        /\ subscriptions'[x].user = subscriptions[x].user
                        /\ subscriptions'[x].plan = subscriptions[x].plan
                        /\ subscriptions'[x].payment = subscriptions[x].payment
    BY <1>2, <2>1 DEF SubscriptionLapses, UserSubscription
  <2>4. SubscriptionsKept /\ SubscriptionsOK'
    BY <2>3 DEF SubscriptionsKept, SubscriptionsOK, IndInv
  <2>5. TypeOK'
    BY <1>2, <2>2 DEF SubscriptionLapses, TypeOK, IndInv
  <2>6. ReceiptsKept /\ SweepOK' /\ WaitingHasReceipt'
    BY <1>2 DEF SubscriptionLapses, ReceiptsKept, SweepOK, WaitingHasReceipt, HasReceipt, IndInv
  <2>7. RequestsOK'
    BY <1>2, <2>4, <2>5, <2>6, RequestsSurvive DEF SubscriptionLapses
  <2>8. ActiveHasDeadline' /\ TrailEndsAtStatus' /\ ReviewedAfterReceipt'
    BY <1>2 DEF SubscriptionLapses, IndInv, ActiveHasDeadline, Active, TrailEndsAtStatus,
                ReviewedAfterReceipt
  <2>9. ApprovedIsEntitled'
    BY <1>2, <2>4, EntitlementKept DEF SubscriptionLapses
  <2> QED BY <2>4, <2>5, <2>6, <2>7, <2>8, <2>9 DEF IndInv
<1> QED BY <1>1, <1>2

-------------------------------------------------------------------------------
(* The invariant is inductive, and what follows from it.                   *)

LEMMA NextIndInv == IndInv /\ [Next]_vars => IndInv'
<1> SUFFICES ASSUME IndInv, [Next]_vars PROVE IndInv'
  OBVIOUS
<1>1. ASSUME NEW w \in Workers, RequestStep(w) PROVE IndInv'
  <2>1. CASE InitiateCommit(w) \/ UploadCommit(w) \/ CancelCommit(w) \/ RejectCommit(w)
    BY <2>1, PaymentCommits
  <2>2. CASE SubscribeCommit(w) \/ UnsubscribeCommit(w) \/ LookupCommit(w) \/ GrantCommit(w)
    BY <2>2, SubscriptionCommits
  <2>3. CASE Resolve(w) \/ ResolveFails(w) \/ Abort(w)
    BY <2>3, ResolveSteps
  <2>4. CASE ApproveCommit(w)
    BY <2>4, ApproveStep
  <2> QED BY <1>1, <2>1, <2>2, <2>3, <2>4, ReadSteps DEF RequestStep
<1>2. CASE UNCHANGED vars
  <2>1. TypeOK'
    BY <1>2 DEF IndInv, TypeOK, vars
  <2>2. RequestsOK'
    BY <1>2 DEF IndInv, RequestsOK, RequestOK, HasReceipt, vars
  <2>3. SubscriptionsOK' /\ SweepOK' /\ WaitingHasReceipt'
    BY <1>2 DEF IndInv, SubscriptionsOK, SweepOK, WaitingHasReceipt, HasReceipt, vars
  <2>4. /\ ActiveHasDeadline' /\ TrailEndsAtStatus'
        /\ ReviewedAfterReceipt' /\ ApprovedIsEntitled'
    BY <1>2 DEF IndInv, ActiveHasDeadline, Active, TrailEndsAtStatus, ReviewedAfterReceipt,
                ApprovedIsEntitled, vars
  <2> QED BY <2>1, <2>2, <2>3, <2>4 DEF IndInv
<1>3. CASE SweepRead \/ SweepCrash
  BY <1>3, SweepReadStep, SweepCrashStep
<1>4. CASE \E p \in Payments : SweepOne(p)
  BY <1>4, SweepOneStep
<1>5. CASE (\E p \in Payments : DeadlinePasses(p)) \/ (\E s \in Subs : SubscriptionLapses(s))
  BY <1>5, TimeSteps
<1> QED BY <1>1, <1>2, <1>3, <1>4, <1>5 DEF Next

\* The inductive invariant holds in every state of every behaviour, however
\* the requests, the reviews and the sweeps of the code interleave.
THEOREM IndInvHolds == Spec => []IndInv
  BY InitIndInv, NextIndInv, PTL DEF Spec

\* Every row, request and trail stays within its type.
THEOREM TypeCorrect == Spec => []TypeOK
  BY IndInvHolds, PTL DEF IndInv

\* No interleaving of initiate, upload, cancel, review and sweep leaves a
\* payment that can still move without a deadline the sweeper looks at.
THEOREM DeadlineSafety == Spec => []ActiveHasDeadline
  BY IndInvHolds, PTL DEF IndInv

\* The trail of a payment ends with the status the row has, whoever wrote last.
THEOREM TrailSafety == Spec => []TrailEndsAtStatus
  BY IndInvHolds, PTL DEF IndInv

\* No approval or rejection, however late it commits, precedes a receipt.
THEOREM ReviewSafety == Spec => []ReviewedAfterReceipt
  BY IndInvHolds, PTL DEF IndInv

\* An approved payment always points to a subscription row of its own user and
\* plan, although activations and cancellations race with the approval.
THEOREM EntitlementSafety == Spec => []ApprovedIsEntitled
  BY IndInvHolds, PTL DEF IndInv

\* Together: no race leaves a payment that the sweeper misses, a trail that is behind its
\* status, a review without a receipt, or an approval without a subscription.
THEOREM PaymentSafety == Spec => []PaymentIsSound
  BY DeadlineSafety, TrailSafety, ReviewSafety, EntitlementSafety, PTL DEF PaymentIsSound

-------------------------------------------------------------------------------
(* Action properties: what no step may do, given the invariant.            *)

\* The writer of a payment, when a step changes the status the row had.
StaleWriter(p) == \/ sweep[p] \in PAYMENT_ACTIVE_STATUSES
                  \/ \E w \in Workers : /\ requests[w].payment = p
                                        /\ requests[w].seen \in PAYMENT_ACTIVE_STATUSES
                                        /\ requests'[w] = Idle

LEMMA StatusWriters ==
  ASSUME IndInv, [Next]_vars, NEW p \in Payments,
         payments[p].status # "absent", payments'[p].status # payments[p].status
  PROVE  StaleWriter(p)
<1>1. payments \in [Payments -> Payment] /\ requests \in [Workers -> Request]
  BY DEF IndInv, TypeOK
<1>2. payments' # payments
  OBVIOUS
<1>3. ASSUME NEW w \in Workers, RequestStep(w) PROVE StaleWriter(p)
  <2> DEFINE q == requests[w].payment
  <2>1. CASE InitiateCommit(w)
    BY <1>1, <2>1 DEF InitiateCommit
  <2>2. ASSUME NEW op, Finish(w, op), op \in {"upload", "cancel", "approve", "reject"},
               \A x \in Payments : x # q => payments'[x] = payments[x]
        PROVE  StaleWriter(p)
    <3>1. requests[w].op = op /\ requests'[w] = Idle
      BY <1>1, <2>2 DEF Finish
    <3>2. RequestOK(requests[w])
      BY DEF IndInv, RequestsOK
    <3>3. q = p
      BY <2>2
    <3> QED BY <2>2, <3>1, <3>2, <3>3 DEF RequestOK, StaleWriter
  <2>3. CASE UploadCommit(w)
    <3>1. Finish(w, "upload") /\ \A x \in Payments : x # q => payments'[x] = payments[x]
      BY <1>1, <2>3 DEF UploadCommit
    <3> QED BY <2>2, <3>1
  <2>4. CASE CancelCommit(w)
    <3>1. Finish(w, "cancel") /\ \A x \in Payments : x # q => payments'[x] = payments[x]
      BY <1>1, <2>4 DEF CancelCommit
    <3> QED BY <2>2, <3>1
  <2>5. CASE RejectCommit(w)
    <3>1. Finish(w, "reject") /\ \A x \in Payments : x # q => payments'[x] = payments[x]
      BY <1>1, <2>5 DEF RejectCommit
    <3> QED BY <2>2, <3>1
  <2>6. CASE ApproveCommit(w)
    <3>1. Finish(w, "approve") /\ \A x \in Payments : x # q => payments'[x] = payments[x]
      BY <1>1, <2>6 DEF ApproveCommit
    <3> QED BY <2>2, <3>1
  <2>7. CASE SubscribeCommit(w) \/ UnsubscribeCommit(w) \/ LookupCommit(w) \/ GrantCommit(w)
    BY <1>2, <2>7 DEF SubscribeCommit, UnsubscribeCommit, LookupCommit, GrantCommit
  <2>8. CASE Resolve(w) \/ ResolveFails(w) \/ Abort(w)
    BY <1>2, <2>8 DEF Resolve, ResolveFails, Abort
  <2> QED
    BY <1>2, <1>3, <2>1, <2>3, <2>4, <2>5, <2>6, <2>7, <2>8
       DEF RequestStep, InitiateRead, UploadRead, CancelRead, ApproveRead, RejectRead,
           SubscribeRead, UnsubscribeRead, LookupRead, GrantRead, Begin
<1>4. ASSUME NEW q \in Payments, SweepOne(q) PROVE StaleWriter(p)
  <2>1. q = p
    BY <1>1, <1>4 DEF SweepOne
  <2> QED BY <1>4, <2>1 DEF SweepOne, StaleWriter, IndInv, TypeOK
<1>5. ASSUME NEW q \in Payments, DeadlinePasses(q) PROVE FALSE
  BY <1>1, <1>5 DEF DeadlinePasses, Payment
<1> QED
  BY <1>2, <1>3, <1>4, <1>5
     DEF Next, vars, SweepRead, SweepCrash, SubscriptionLapses

\* A terminal payment is moved only by a handler or a sweep that had read it
\* while it was active: the guards close every other way out.
THEOREM TerminalLeftOnlyByStaleWriters == Spec => OnlyStaleWritersLeaveTerminal
<1>1. IndInv /\ [Next]_vars =>
        [\A p \in Payments :
           payments[p].status \in PAYMENT_TERMINAL_STATUSES
             /\ payments'[p].status # payments[p].status =>
               \/ sweep[p] \in PAYMENT_ACTIVE_STATUSES
               \/ \E w \in Workers : /\ requests[w].payment = p
                                     /\ requests[w].seen \in PAYMENT_ACTIVE_STATUSES
                                     /\ requests'[w] = Idle]_vars
  BY StatusWriters DEF StaleWriter, PAYMENT_TERMINAL_STATUSES
<1> QED
  BY <1>1, IndInvHolds, PTL DEF Spec, OnlyStaleWritersLeaveTerminal

LEMMA ActivationPiles ==
  ASSUME IndInv, NEW w \in Workers, NEW s \in Subs, NEW u \in Users,
         Activate(w, s), requests'[w] = Idle, requests[w].user \in Users,
         ActiveSubs(u)' \ ActiveSubs(u) # {}, Cardinality(ActiveSubs(u)') > 1
  PROVE  /\ requests[w].user = u /\ requests[w].resolved
         /\ ActiveSubs(u) \ {requests[w].sub} # {}
<1> DEFINE r == requests[w]
<1>1. /\ subscriptions \in [Subs -> UserSubscription]
      /\ r.mark \in {"cancelled", "expired"}
  BY DEF IndInv, TypeOK, Request
<1>2. \A x \in Subs : x # s =>
        /\ x = r.sub => subscriptions'[x].status \in {"cancelled", "expired"}
        /\ x # r.sub => subscriptions'[x] = subscriptions[x]
  BY <1>1 DEF Activate, UserSubscription
<1>3. subscriptions'[s].user = r.user
  BY DEF Activate
<1>4. \A x \in ActiveSubs(u)' : x # s => x \in ActiveSubs(u) /\ x # r.sub
  BY <1>2 DEF ActiveSubs
<1>5. s \in ActiveSubs(u)' /\ r.user = u
  BY <1>3, <1>4 DEF ActiveSubs
<1>6. ActiveSubs(u)' # {s}
  <2>1. Cardinality({s}) = 1
    BY FS_Singleton
  <2> QED BY <2>1
<1>7. PICK x \in ActiveSubs(u)' : x # s
  BY <1>5, <1>6
<1> QED BY <1>4, <1>5, <1>7 DEF Activate

\* A user ends up with two active subscriptions only by an activation that
\* resolved the subscription to retire before another one was inserted.
THEOREM PileUpOnlyByStaleActivations == Spec => OnlyStaleActivationsPileUp
<1> DEFINE Piles(u) ==
      ActiveSubs(u)' \ ActiveSubs(u) # {} /\ Cardinality(ActiveSubs(u)') > 1 =>
          \E w \in Workers : /\ requests[w].user = u /\ requests[w].resolved
                             /\ requests'[w] = Idle
                             /\ ActiveSubs(u) \ {requests[w].sub} # {}
<1>1. ASSUME IndInv, Next, NEW u \in Users PROVE Piles(u)
  <2>1. /\ subscriptions \in [Subs -> UserSubscription]
        /\ requests \in [Workers -> Request]
    BY <1>1 DEF IndInv, TypeOK
  <2>2. ASSUME \A x \in Subs : subscriptions'[x].status = "active" =>
                  /\ subscriptions[x].status = "active"
                  /\ subscriptions'[x].user = subscriptions[x].user
        PROVE  Piles(u)
    BY <2>2 DEF ActiveSubs
  <2>3. ASSUME subscriptions' = subscriptions PROVE Piles(u)
    BY <2>2, <2>3
  <2>4. ASSUME NEW w \in Workers, NEW s \in Subs, NEW op \in {"approve", "subscribe"},
               Finish(w, op), Activate(w, s)
        PROVE  Piles(u)
    <3>1. requests'[w] = Idle /\ requests[w].op = op /\ RequestOK(requests[w])
      BY <1>1, <2>1, <2>4 DEF Finish, IndInv, RequestsOK
    <3>2. requests[w].user \in Users
      BY <3>1, ConstantsAssumption DEF RequestOK
    <3> QED BY <1>1, <2>4, <3>1, <3>2, ActivationPiles
  <2>5. ASSUME NEW w \in Workers, RequestStep(w) PROVE Piles(u)
    <3>1. CASE ApproveCommit(w)
      BY <2>4, <3>1 DEF ApproveCommit
    <3>2. CASE SubscribeCommit(w)
      BY <2>4, <3>2 DEF SubscribeCommit
    <3>3. CASE UnsubscribeCommit(w)
      BY <2>1, <2>2, <3>3 DEF UnsubscribeCommit, UserSubscription
    <3>4. CASE LookupCommit(w)
      BY <2>1, <2>2, <3>4 DEF LookupCommit, UserSubscription
    <3>7. CASE GrantCommit(w)
      BY <2>3, <3>7 DEF GrantCommit
    <3>5. CASE Resolve(w) \/ ResolveFails(w) \/ Abort(w)
      BY <2>3, <3>5 DEF Resolve, ResolveFails, Abort
    <3>6. CASE InitiateCommit(w) \/ UploadCommit(w) \/ CancelCommit(w) \/ RejectCommit(w)
      BY <2>3, <3>6 DEF InitiateCommit, UploadCommit, CancelCommit, RejectCommit
    <3> HIDE DEF Piles
    <3> QED
      BY <2>3, <2>5, <3>1, <3>2, <3>3, <3>4, <3>5, <3>6, <3>7
         DEF RequestStep, InitiateRead, UploadRead, CancelRead, ApproveRead, RejectRead,
             SubscribeRead, UnsubscribeRead, LookupRead, GrantRead, Begin
  <2>6. CASE \E s \in Subs : SubscriptionLapses(s)
    BY <2>1, <2>2, <2>6 DEF SubscriptionLapses, UserSubscription
  <2>7. CASE SweepRead \/ SweepCrash \/ \E p \in Payments : SweepOne(p) \/ DeadlinePasses(p)
    BY <2>3, <2>7 DEF SweepRead, SweepCrash, SweepOne, DeadlinePasses
  <2> HIDE DEF Piles
  <2> QED BY <1>1, <2>5, <2>6, <2>7 DEF Next
<1>2. IndInv /\ [Next]_vars => [\A u \in Users : Piles(u)]_vars
  BY <1>1
<1> QED
  BY <1>2, IndInvHolds, PTL DEF Spec, OnlyStaleActivationsPileUp

-------------------------------------------------------------------------------
(* Requests and sweeps that do not overlap.  What a request read is still  *)
(* true when it commits: only time moves while it runs.                    *)

\* One request or one sweep at a time.
Alone == /\ \A v, w \in Workers :
              requests[v].op # "idle" /\ requests[w].op # "idle" => v = w
         /\ Sweeping => \A w \in Workers : requests[w].op = "idle"

\* The payment is among those the duplicate check of its user looks at.
OnPage(p) == p \in list_by_user(PayUser[p])

\* What a request has read agrees with the tables.
Fresh(r) ==
    /\ r.op \in {"upload", "cancel", "approve", "reject"} =>
          r.seen = payments[r.payment].status
    /\ r.op = "upload" => r.seen = "pending"
    /\ r.op = "initiate" =>
          \A p \in Payments : PayUser[p] = r.user /\ PayPlan[p] = r.plan /\ Active(p)
                                => ~OnPage(p)
    /\ r.op \in {"approve", "subscribe"} /\ r.resolved =>
          \A s \in Subs : subscriptions[s].status = "active"
                          /\ subscriptions[s].user = r.user => s = r.sub
    /\ r.op \in {"approve", "subscribe"} =>
          \A s \in Subs : s = r.sub => subscriptions[s].user = r.user
    /\ r.op \in {"subscribe", "unsubscribe", "grant"} => r.tier = tier[r.user]
    /\ r.op = "unsubscribe" => /\ subscriptions[r.sub].status = "active"
                               /\ subscriptions[r.sub].user = r.user

AllFresh == \A w \in Workers : Fresh(requests[w])

SweepFresh == \A p \in Payments : sweep[p] # "absent" => sweep[p] = payments[p].status

Coherent == Alone /\ AllFresh /\ SweepFresh

\* No user has two active subscriptions.
OnlyOneActive ==
    \A s, t \in Subs :
        subscriptions[s].status = "active" /\ subscriptions[t].status = "active"
          /\ subscriptions[s].user = subscriptions[t].user => s = t

\* Two payments in flight for one plan: the duplicate check sees at most one.
DuplicatesOffPage ==
    \A p, q \in Payments :
        Active(p) /\ Active(q) /\ PayUser[p] = PayUser[q] /\ PayPlan[p] = PayPlan[q]
          => p = q \/ ~OnPage(p) \/ ~OnPage(q)

Books == /\ TrailIsAHistory /\ DuplicatesOffPage
         /\ OnlyOneActive /\ TierFollowsSubscription

-------------------------------------------------------------------------------
(* The duplicate check: a payment that left the page does not come back.   *)

\* Rows of payments stay, with their place in the order of creation.
PlacesKept == \A p \in Payments : payments[p].status # "absent" =>
                 /\ payments'[p].status # "absent"
                 /\ payments'[p].nth = payments[p].nth

LEMMA OffPageForGood ==
  ASSUME PlacesKept, NEW p \in Payments, payments[p].status # "absent", ~OnPage(p)
  PROVE  ~OnPage(p)'
<1> USE ConstantsAssumption
<1> DEFINE later == {q \in Payments : /\ PayUser[q] = PayUser[p]
                                      /\ payments[q].status # "absent"
                                      /\ payments[q].nth > payments[p].nth}
           laterNow == {q \in Payments : /\ PayUser[q] = PayUser[p]
                                         /\ payments'[q].status # "absent"
                                         /\ payments'[q].nth > payments'[p].nth}
<1>1. ~(Cardinality(later) < PageSize)
  <2>1. later = {q \in {x \in Payments : PayUser[x] = PayUser[p]
                                         /\ payments[x].status # "absent"} :
                   payments[q].nth > payments[p].nth}
    OBVIOUS
  <2> HIDE DEF later
  <2> QED BY <2>1 DEF OnPage, list_by_user
<1>2. later \subseteq laterNow
  BY DEF PlacesKept
<1>3. Cardinality(later) <= Cardinality(laterNow) /\ Cardinality(later) \in Nat
      /\ Cardinality(laterNow) \in Nat
  <2>1. IsFiniteSet(laterNow)
    <3>1. laterNow \subseteq Payments
      OBVIOUS
    <3> QED BY <3>1, FS_Subset
  <2> HIDE DEF later, laterNow
  <2> QED BY <1>2, <2>1, FS_Subset, FS_CardinalityType
<1>4. ~(Cardinality(laterNow) < PageSize)
  <2> HIDE DEF later, laterNow
  <2> QED BY <1>1, <1>3
<1>5. laterNow = {q \in {x \in Payments : PayUser[x] = PayUser[p]
                                         /\ payments'[x].status # "absent"} :
                   payments'[q].nth > payments'[p].nth}
  OBVIOUS
<1> HIDE DEF later, laterNow
<1> QED BY <1>4, <1>5 DEF OnPage, list_by_user

-------------------------------------------------------------------------------
(* What a step does to the status and the trail of the payments.           *)

Allowed(from, to) ==
    \/ from = "absent" /\ to = "pending"
    \/ from = "pending" /\ to = "waiting_for_review"
    \/ from = "waiting_for_review" /\ to \in {"approved", "rejected"}
    \/ from \in PAYMENT_ACTIVE_STATUSES /\ to \in {"cancelled", "expired"}

StatusMove(p, to) ==
    /\ \A q \in Payments : payments'[q].status = IF q = p THEN to ELSE payments[q].status
    /\ AddEvent(p, payments[p].status, to)
    /\ Allowed(payments[p].status, to)

StatusStays == /\ \A q \in Payments : payments'[q].status = payments[q].status
               /\ events' = events

LEMMA CommitMoves ==
  ASSUME IndInv, Coherent, NEW w \in Workers,
         \/ InitiateCommit(w) \/ UploadCommit(w) \/ CancelCommit(w)
         \/ RejectCommit(w) \/ ApproveCommit(w)
  PROVE  /\ \E p \in Payments, to \in PaymentStatus : StatusMove(p, to)
         /\ PlacesKept
<1> DEFINE r == requests[w]
<1>1. /\ payments \in [Payments -> Payment] /\ RequestOK(r) /\ Fresh(r)
      /\ requests \in [Workers -> Request]
  BY DEF IndInv, TypeOK, RequestsOK, Coherent, AllFresh
<1>2. CASE InitiateCommit(w)
  <2>1. PICK p \in Payments :
          /\ payments[p].status = "absent"
          /\ payments' = [payments EXCEPT
                 ![p] = [NoPayment EXCEPT !.status = "pending", !.deadline = "ahead",
                                          !.nth = Cardinality(Created) + 1]]
          /\ AddEvent(p, "absent", "pending")
    BY <1>2 DEF InitiateCommit
  <2>2. payments'[p].status = "pending"
    BY <1>1, <2>1 DEF NoPayment
  <2>3. \A q \in Payments : q # p => payments'[q] = payments[q]
    BY <1>1, <2>1
  <2>4. StatusMove(p, "pending")
    BY <2>1, <2>2, <2>3 DEF StatusMove, Allowed
  <2> QED BY <2>1, <2>3, <2>4 DEF PaymentStatus, PlacesKept
<1>3. CASE UploadCommit(w)
  <2>1. r.op = "upload" /\ r.payment \in Payments
    BY <1>1, <1>3 DEF UploadCommit, Finish, RequestOK
  <2>2. r.seen = payments[r.payment].status /\ r.seen = "pending"
    BY <1>1, <2>1 DEF Fresh
  <2>3. /\ \A q \in Payments : q # r.payment => payments'[q] = payments[q]
        /\ payments'[r.payment].status = "waiting_for_review"
        /\ payments'[r.payment].nth = payments[r.payment].nth
    BY <1>1, <1>3, <2>1 DEF UploadCommit, Payment
  <2>4. AddEvent(r.payment, r.seen, "waiting_for_review")
    BY <1>3 DEF UploadCommit
  <2>5. StatusMove(r.payment, "waiting_for_review")
    BY <2>2, <2>3, <2>4 DEF StatusMove, Allowed, AddEvent
  <2> QED BY <2>1, <2>3, <2>5 DEF PaymentStatus, PlacesKept
<1>4. CASE CancelCommit(w)
  <2>1. r.op = "cancel" /\ r.payment \in Payments /\ r.seen \in PAYMENT_ACTIVE_STATUSES
    BY <1>1, <1>4 DEF CancelCommit, Finish, RequestOK
  <2>2. r.seen = payments[r.payment].status
    BY <1>1, <2>1 DEF Fresh
  <2>3. /\ \A q \in Payments : q # r.payment => payments'[q] = payments[q]
        /\ payments'[r.payment].status = "cancelled"
        /\ payments'[r.payment].nth = payments[r.payment].nth
    BY <1>1, <1>4, <2>1 DEF CancelCommit, Payment
  <2>4. AddEvent(r.payment, r.seen, "cancelled")
    BY <1>4 DEF CancelCommit
  <2>5. StatusMove(r.payment, "cancelled")
    BY <2>1, <2>2, <2>3, <2>4 DEF StatusMove, Allowed, AddEvent
  <2> QED BY <2>1, <2>3, <2>5 DEF PaymentStatus, PlacesKept
<1>5. CASE RejectCommit(w)
  <2>1. r.op = "reject" /\ r.payment \in Payments /\ r.seen = "waiting_for_review"
    BY <1>1, <1>5 DEF RejectCommit, Finish, RequestOK
  <2>2. r.seen = payments[r.payment].status
    BY <1>1, <2>1 DEF Fresh
  <2>3. /\ \A q \in Payments : q # r.payment => payments'[q] = payments[q]
        /\ payments'[r.payment].status = "rejected"
        /\ payments'[r.payment].nth = payments[r.payment].nth
    BY <1>1, <1>5, <2>1 DEF RejectCommit, Payment
  <2>4. AddEvent(r.payment, r.seen, "rejected")
    BY <1>5 DEF RejectCommit
  <2>5. StatusMove(r.payment, "rejected")
    BY <2>1, <2>2, <2>3, <2>4 DEF StatusMove, Allowed, AddEvent
  <2> QED BY <2>1, <2>3, <2>5 DEF PaymentStatus, PlacesKept
<1>6. CASE ApproveCommit(w)
  <2>1. r.op = "approve" /\ r.payment \in Payments /\ r.seen = "waiting_for_review"
    BY <1>1, <1>6 DEF ApproveCommit, Finish, RequestOK
  <2>2. r.seen = payments[r.payment].status
    BY <1>1, <2>1 DEF Fresh
  <2>3. PICK s \in Subs :
          payments' = [payments EXCEPT ![r.payment].status = "approved",
                                       ![r.payment].subscription = s,
                                       ![r.payment].deadline = "none"]
    BY <1>6 DEF ApproveCommit
  <2>4. /\ \A q \in Payments : q # r.payment => payments'[q] = payments[q]
        /\ payments'[r.payment].status = "approved"
        /\ payments'[r.payment].nth = payments[r.payment].nth
    BY <1>1, <2>1, <2>3 DEF Payment
  <2>5. StatusMove(r.payment, "approved")
    BY <1>6, <2>1, <2>2, <2>4 DEF ApproveCommit, StatusMove, Allowed, AddEvent
  <2> QED BY <2>1, <2>4, <2>5 DEF PaymentStatus, PlacesKept
<1> QED BY <1>2, <1>3, <1>4, <1>5, <1>6

\* Every step is a move of the documented lifecycle or leaves status and trail alone.
LEMMA StatusSteps ==
  ASSUME IndInv, Coherent, [Next]_vars
  PROVE  /\ \/ \E p \in Payments, to \in PaymentStatus : StatusMove(p, to)
            \/ StatusStays
         /\ PlacesKept
<1>1. payments \in [Payments -> Payment]
  BY DEF IndInv, TypeOK
<1>2. ASSUME payments' = payments, events' = events PROVE StatusStays /\ PlacesKept
  BY <1>2 DEF StatusStays, PlacesKept
<1>3. ASSUME NEW w \in Workers, RequestStep(w)
      PROVE  /\ \/ \E p \in Payments, to \in PaymentStatus : StatusMove(p, to)
                \/ StatusStays
             /\ PlacesKept
  <2>1. CASE \/ InitiateCommit(w) \/ UploadCommit(w) \/ CancelCommit(w)
             \/ RejectCommit(w) \/ ApproveCommit(w)
    BY <2>1, CommitMoves
  <2>2. CASE ~(\/ InitiateCommit(w) \/ UploadCommit(w) \/ CancelCommit(w)
               \/ RejectCommit(w) \/ ApproveCommit(w))
    <3>1. payments' = payments /\ events' = events
      BY <1>3, <2>2
         DEF RequestStep, InitiateRead, UploadRead, CancelRead, ApproveRead, RejectRead,
             SubscribeRead, UnsubscribeRead, LookupRead, GrantRead, Begin, Resolve, ResolveFails,
             Abort, SubscribeCommit, UnsubscribeCommit, LookupCommit, GrantCommit
    <3> QED BY <1>2, <3>1
  <2> QED BY <2>1, <2>2
<1>4. ASSUME NEW p \in Payments, SweepOne(p)
      PROVE  StatusMove(p, "expired") /\ PlacesKept
  <2>1. sweep[p] \in PAYMENT_ACTIVE_STATUSES /\ sweep[p] = payments[p].status
    BY <1>4 DEF SweepOne, IndInv, TypeOK, Coherent, SweepFresh
  <2>2. /\ \A q \in Payments : q # p => payments'[q] = payments[q]
        /\ payments'[p].status = "expired" /\ payments'[p].nth = payments[p].nth
    BY <1>1, <1>4 DEF SweepOne, Payment
  <2> QED BY <1>4, <2>1, <2>2 DEF SweepOne, StatusMove, Allowed, PlacesKept
<1>5. ASSUME NEW p \in Payments, DeadlinePasses(p) PROVE StatusStays /\ PlacesKept
  <2>1. \A q \in Payments : /\ payments'[q].status = payments[q].status
                            /\ payments'[q].nth = payments[q].nth
    BY <1>1, <1>5 DEF DeadlinePasses, Payment
  <2> QED BY <1>5, <2>1 DEF DeadlinePasses, StatusStays, PlacesKept
<1>6. CASE UNCHANGED vars
  BY <1>2, <1>6 DEF vars
<1>7. CASE SweepRead \/ SweepCrash \/ \E s \in Subs : SubscriptionLapses(s)
  BY <1>2, <1>7 DEF SweepRead, SweepCrash, SubscriptionLapses
<1> QED BY <1>3, <1>4, <1>5, <1>6, <1>7 DEF Next, PaymentStatus

\* A payment row is created by initiate_payment only.
LEMMA Creation ==
  ASSUME IndInv, Next, NEW p \in Payments,
         payments[p].status = "absent", payments'[p].status # "absent"
  PROVE  \E w \in Workers : InitiateCommit(w)
<1>1. payments \in [Payments -> Payment] /\ RequestsOK /\ SweepOK
  BY DEF IndInv, TypeOK
<1>2. payments' # payments
  OBVIOUS
<1>3. ASSUME NEW w \in Workers, RequestStep(w), ~InitiateCommit(w) PROVE FALSE
  <2> DEFINE q == requests[w].payment
  <2>1. CASE UploadCommit(w) \/ CancelCommit(w) \/ RejectCommit(w) \/ ApproveCommit(w)
    <3>1. requests[w].op \in {"upload", "cancel", "approve", "reject"}
      BY <2>1 DEF UploadCommit, CancelCommit, RejectCommit, ApproveCommit, Finish
    <3>2. q # p
      BY <1>1, <3>1 DEF RequestsOK, RequestOK
    <3>3. payments'[p] = payments[p]
      BY <1>1, <2>1, <3>2 DEF UploadCommit, CancelCommit, RejectCommit, ApproveCommit
    <3> QED BY <3>3
  <2> QED
    BY <1>2, <1>3, <2>1
       DEF RequestStep, InitiateRead, UploadRead, CancelRead, ApproveRead, RejectRead,
           SubscribeRead, UnsubscribeRead, LookupRead, GrantRead, Begin, Resolve, ResolveFails,
           Abort, SubscribeCommit, UnsubscribeCommit, LookupCommit, GrantCommit
<1>4. ASSUME NEW q \in Payments, SweepOne(q) PROVE FALSE
  <2>1. q # p
    BY <1>1, <1>4 DEF SweepOne, SweepOK
  <2> QED BY <1>1, <1>4, <2>1 DEF SweepOne
<1>5. ASSUME NEW q \in Payments, DeadlinePasses(q) PROVE FALSE
  BY <1>1, <1>5 DEF DeadlinePasses, Payment
<1> QED
  BY <1>2, <1>3, <1>4, <1>5 DEF Next, SweepRead, SweepCrash, SubscriptionLapses

-------------------------------------------------------------------------------
(* The books of the payments: the trail and the duplicate check.           *)

LEMMA HistoryStep ==
  ASSUME IndInv, Coherent, TrailIsAHistory, [Next]_vars
  PROVE  TrailIsAHistory'
<1>1. events \in [Payments -> Seq(PaymentEvent)] /\ TrailEndsAtStatus
  BY DEF IndInv, TypeOK
<1>2. CASE StatusStays
  BY <1>2 DEF StatusStays, TrailIsAHistory
<1>3. ASSUME NEW p \in Payments, NEW to \in PaymentStatus, StatusMove(p, to)
      PROVE  TrailIsAHistory'
  <2>1. PICK from : from = payments[p].status
    OBVIOUS
  <2>2. from \in PaymentStatus \cup {"absent"}
    BY <2>1 DEF IndInv, TypeOK, Payment
  <2>3. PICK e : e = [from |-> from, to |-> to]
    OBVIOUS
  <2>4. e \in PaymentEvent /\ e.from = from
    BY <2>2, <2>3 DEF PaymentEvent
  <2>5. events' = [events EXCEPT ![p] = Append(events[p], e)]
    BY <1>1, <1>3, <2>1, <2>3 DEF StatusMove, AddEvent
  <2>6. PICK trail \in Seq(PaymentEvent) : trail = events[p]
    BY <1>1
  <2>7. /\ events'[p] = Append(trail, e)
        /\ \A q \in Payments : q # p => events'[q] = events[q]
    BY <1>1, <2>5, <2>6
  <2>8. /\ Len(Append(trail, e)) = Len(trail) + 1 /\ Len(trail) \in Nat
        /\ Append(trail, e)[Len(trail) + 1] = e
        /\ \A i \in 1 .. Len(trail) : Append(trail, e)[i] = trail[i]
    BY <2>4, <2>6
  <2>9. from = IF Len(trail) = 0 THEN "absent" ELSE trail[Len(trail)].to
    <3>1. IF from = "absent" THEN trail = <<>>
          ELSE trail # <<>> /\ trail[Len(trail)].to = from
      BY <1>1, <2>1, <2>6 DEF TrailEndsAtStatus
    <3> QED BY <2>6, <2>8, <3>1
  <2>10. ASSUME NEW i \in 1 .. Len(events'[p])
         PROVE  events'[p][i].from = IF i = 1 THEN "absent" ELSE events'[p][i - 1].to
    <3>1. CASE i \in 1 .. Len(trail)
      <4>1. trail[i].from = IF i = 1 THEN "absent" ELSE trail[i - 1].to
        BY <2>6, <3>1 DEF TrailIsAHistory
      <4>2. i # 1 => i - 1 \in 1 .. Len(trail)
        BY <2>8, <3>1
      <4> QED BY <2>7, <2>8, <3>1, <4>1, <4>2
    <3>2. CASE i = Len(trail) + 1
      BY <2>4, <2>7, <2>8, <2>9, <3>2
    <3> QED BY <2>7, <2>8, <3>1, <3>2
  <2>11. ASSUME NEW q \in Payments, q # p, NEW i \in 1 .. Len(events'[q])
         PROVE  events'[q][i].from = IF i = 1 THEN "absent" ELSE events'[q][i - 1].to
    BY <2>7, <2>11 DEF TrailIsAHistory
  <2> QED BY <2>10, <2>11 DEF TrailIsAHistory
<1> QED BY <1>2, <1>3, StatusSteps

LEMMA DuplicatesStep ==
  ASSUME IndInv, Coherent, DuplicatesOffPage, [Next]_vars
  PROVE  DuplicatesOffPage'
<1>1. /\ \/ \E p \in Payments, to \in PaymentStatus : StatusMove(p, to)
         \/ StatusStays
      /\ PlacesKept
  BY StatusSteps
<1>2. ASSUME NEW p \in Payments, Active(p), ~OnPage(p) PROVE ~OnPage(p)'
  BY <1>1, <1>2, OffPageForGood DEF Active, PAYMENT_ACTIVE_STATUSES
<1>3. CASE \A p \in Payments : Active(p)' => Active(p)
  BY <1>2, <1>3 DEF DuplicatesOffPage
<1>4. ASSUME NEW n \in Payments, Active(n)', ~Active(n)
      PROVE  DuplicatesOffPage'
  <2>1. payments[n].status = "absent" /\ payments'[n].status # "absent"
    BY <1>1, <1>4 DEF StatusMove, StatusStays, Allowed, Active, PAYMENT_ACTIVE_STATUSES
  <2>2. \A q \in Payments : q # n /\ Active(q)' => Active(q)
    BY <1>1, <1>4 DEF StatusMove, StatusStays, Active
  <2>3. PICK w \in Workers : InitiateCommit(w)
    <3>1. Next
      BY <2>1 DEF vars
    <3> QED BY <2>1, <3>1, Creation
  <2>4. PICK p \in Payments :
          /\ payments[p].status = "absent"
          /\ PayUser[p] = requests[w].user /\ PayPlan[p] = requests[w].plan
          /\ requests[w].op = "initiate"
          /\ \A q \in Payments : q # p => payments'[q] = payments[q]
    BY <2>3 DEF InitiateCommit, Finish, IndInv, TypeOK
  <2>5. p = n
    BY <2>1, <2>4
  <2>6. \A q \in Payments : PayUser[q] = PayUser[n] /\ PayPlan[q] = PayPlan[n] /\ Active(q)
                              => ~OnPage(q)
    BY <2>4, <2>5 DEF Coherent, AllFresh, Fresh
  <2> QED BY <1>2, <2>2, <2>6 DEF DuplicatesOffPage
<1> QED BY <1>3, <1>4

-------------------------------------------------------------------------------
(* The books of the subscriptions: one in force, and the tier it gives.    *)

SubscriptionBooks == OnlyOneActive /\ TierFollowsSubscription

\* No row becomes active or changes hands, and no tier changes.
LEMMA RowsRetire ==
  ASSUME SubscriptionBooks, SubscriptionsOK, tier' = tier,
         \A x \in Subs : subscriptions'[x].status = "active" =>
             /\ subscriptions[x].status = "active"
             /\ subscriptions'[x].user = subscriptions[x].user
             /\ subscriptions'[x].plan = subscriptions[x].plan,
         \A x \in Subs : subscriptions[x].status \in {"active", "expired"} =>
             /\ subscriptions'[x].status \in {"active", "expired"}
             /\ subscriptions'[x].user = subscriptions[x].user
             /\ subscriptions'[x].plan = subscriptions[x].plan
  PROVE  SubscriptionBooks'
<1>1. OnlyOneActive'
  BY DEF SubscriptionBooks, OnlyOneActive
<1>2. TierFollowsSubscription'
  BY DEF SubscriptionBooks, TierFollowsSubscription
<1> QED BY <1>1, <1>2 DEF SubscriptionBooks

\* A renewal that has read the row it retires: one row and its tier remain.
LEMMA RenewalKeepsBooks ==
  ASSUME IndInv, Coherent, SubscriptionBooks, NEW w \in Workers, NEW s \in Subs,
         Activate(w, s), requests[w].op \in {"approve", "subscribe"},
         requests[w].user \in Users, requests[w].plan \in Plans,
         tier' = [tier EXCEPT ![requests[w].user] = PlanTier[requests[w].plan]]
  PROVE  SubscriptionBooks'
<1> DEFINE r == requests[w]
<1>1. /\ subscriptions \in [Subs -> UserSubscription] /\ tier \in [Users -> Tiers]
      /\ r \in Request /\ RequestOK(r) /\ Fresh(r) /\ SubscriptionsOK
  BY DEF IndInv, TypeOK, RequestsOK, Coherent, AllFresh
<1>2. r.mark \in {"cancelled", "expired"} /\ r.resolved
  BY <1>1 DEF Request, Activate
<1>3. /\ subscriptions'[s].status = "active" /\ subscriptions'[s].user = r.user
      /\ subscriptions'[s].plan = r.plan
  BY ActivationKeepsRows
<1>4. \A x \in Subs : x # s /\ subscriptions'[x].status = "active" =>
          x # r.sub /\ subscriptions'[x] = subscriptions[x]
  BY <1>1, <1>2 DEF Activate, UserSubscription
<1>5. \A x \in Subs : x # s /\ subscriptions'[x].status = "active" =>
          subscriptions'[x].user # r.user
  BY <1>1, <1>2, <1>4 DEF Fresh
<1>6. /\ tier'[r.user] = PlanTier[r.plan]
      /\ \A u \in Users : u # r.user => tier'[u] = tier[u]
  BY <1>1
<1>7. OnlyOneActive'
  BY <1>3, <1>4, <1>5 DEF OnlyOneActive, SubscriptionBooks
<1>8. ASSUME NEW x \in Subs, subscriptions'[x].status = "active"
      PROVE  \/ tier'[subscriptions'[x].user] = PlanTier[subscriptions'[x].plan]
             \/ /\ tier'[subscriptions'[x].user] = "TEACHER"
                /\ PlanTier[subscriptions'[x].plan] = "FREE"
  <2>1. CASE x = s
    BY <1>3, <1>6, <2>1
  <2>2. CASE x # s
    <3>1. subscriptions'[x] = subscriptions[x] /\ subscriptions[x].status = "active"
      BY <1>4, <1>8, <2>2
    <3>2. subscriptions[x].user \in Users /\ subscriptions[x].user # r.user
      BY <1>1, <1>5, <1>8, <2>2, <3>1 DEF SubscriptionsOK
    <3> QED BY <1>6, <3>1, <3>2 DEF SubscriptionBooks, TierFollowsSubscription
  <2> QED BY <2>1, <2>2
<1>9. ASSUME NEW u \in Users, tier'[u] \notin {"FREE", "TEACHER"}
      PROVE  \E x \in Subs : /\ subscriptions'[x].status \in {"active", "expired"}
                             /\ subscriptions'[x].user = u
                             /\ PlanTier[subscriptions'[x].plan] = tier'[u]
  <2>1. CASE u = r.user
    BY <1>3, <1>6, <2>1
  <2>2. CASE u # r.user
    <3>1. PICK x \in Subs : /\ subscriptions[x].status \in {"active", "expired"}
                            /\ subscriptions[x].user = u
                            /\ PlanTier[subscriptions[x].plan] = tier[u]
      BY <1>6, <1>9, <2>2 DEF SubscriptionBooks, TierFollowsSubscription
    <3>2. x # r.sub
      BY <1>1, <2>2, <3>1 DEF Fresh
    <3>3. subscriptions'[x] = subscriptions[x]
      BY <3>1, <3>2 DEF Activate
    <3> QED BY <1>6, <2>2, <3>1, <3>3
  <2> QED BY <2>1, <2>2
<1> QED BY <1>7, <1>8, <1>9 DEF SubscriptionBooks, TierFollowsSubscription

LEMMA SubscriptionStep ==
  ASSUME IndInv, Coherent, SubscriptionBooks, [Next]_vars
  PROVE  SubscriptionBooks'
<1>1. /\ subscriptions \in [Subs -> UserSubscription] /\ tier \in [Users -> Tiers]
      /\ requests \in [Workers -> Request] /\ SubscriptionsOK
  BY DEF IndInv, TypeOK
<1>2. ASSUME subscriptions' = subscriptions, tier' = tier PROVE SubscriptionBooks'
  BY <1>1, <1>2, RowsRetire
<1>3. ASSUME NEW w \in Workers, ApproveCommit(w) PROVE SubscriptionBooks'
  <2>1. PICK s \in Subs :
          /\ Finish(w, "approve") /\ Activate(w, s)
          /\ tier' = [tier EXCEPT ![requests[w].user] = PlanTier[requests[w].plan]]
    BY <1>3 DEF ApproveCommit
  <2>2. requests[w].op = "approve" /\ RequestOK(requests[w])
    BY <2>1, FinishType
  <2>3. requests[w].user \in Users /\ requests[w].plan \in Plans
    BY <2>2, ConstantsAssumption DEF RequestOK
  <2> QED BY <2>1, <2>2, <2>3, RenewalKeepsBooks
<1>4. ASSUME NEW w \in Workers, SubscribeCommit(w) PROVE SubscriptionBooks'
  <2>1. PICK s \in Subs :
          /\ Finish(w, "subscribe") /\ Activate(w, s)
          /\ SetTier(w, requests[w].user, PlanTier[requests[w].plan])
    BY <1>4 DEF SubscribeCommit
  <2>2. requests[w].op = "subscribe" /\ RequestOK(requests[w]) /\ Fresh(requests[w])
    BY <2>1, FinishType DEF Coherent, AllFresh
  <2>3. requests[w].user \in Users /\ requests[w].plan \in Plans
    BY <2>2 DEF RequestOK
  <2>4. requests[w].tier = tier[requests[w].user]
    BY <2>2 DEF Fresh
  <2>5. tier' = [tier EXCEPT ![requests[w].user] = PlanTier[requests[w].plan]]
    BY <1>1, <2>1, <2>3, <2>4 DEF SetTier
  <2> QED BY <2>1, <2>2, <2>3, <2>5, RenewalKeepsBooks
<1>5. ASSUME NEW w \in Workers, UnsubscribeCommit(w) PROVE SubscriptionBooks'
  <2> DEFINE r == requests[w]
  <2>1. /\ r.op = "unsubscribe" /\ RequestOK(r) /\ Fresh(r)
        /\ subscriptions' = [subscriptions EXCEPT ![r.sub].status = "cancelled"]
        /\ SetTier(w, r.user, "FREE")
    BY <1>5, FinishType DEF UnsubscribeCommit, Coherent, AllFresh
  <2>2. r.user \in Users /\ r.sub \in Subs
    BY <2>1 DEF RequestOK
  <2>3. /\ subscriptions[r.sub].status = "active" /\ subscriptions[r.sub].user = r.user
        /\ r.tier = tier[r.user]
    BY <2>1 DEF Fresh
  <2>4. \A u \in Users : u # r.user => tier'[u] = tier[u]
    BY <1>1, <2>1, <2>2 DEF SetTier
  <2>5. \A x \in Subs : subscriptions'[x].status = "active" =>
           x # r.sub /\ subscriptions'[x] = subscriptions[x]
    BY <1>1, <2>1, <2>2 DEF UserSubscription
  <2>6. \A x \in Subs : subscriptions'[x].status = "active" =>
           /\ subscriptions[x].user \in Users /\ subscriptions[x].user # r.user
    BY <1>1, <2>2, <2>3, <2>5 DEF SubscriptionsOK, SubscriptionBooks, OnlyOneActive
  <2>7. OnlyOneActive'
    BY <2>5 DEF SubscriptionBooks, OnlyOneActive
  <2>8. ASSUME NEW x \in Subs, subscriptions'[x].status = "active"
        PROVE  \/ tier'[subscriptions'[x].user] = PlanTier[subscriptions'[x].plan]
               \/ /\ tier'[subscriptions'[x].user] = "TEACHER"
                  /\ PlanTier[subscriptions'[x].plan] = "FREE"
    BY <2>4, <2>5, <2>6, <2>8 DEF SubscriptionBooks, TierFollowsSubscription
  <2>9. tier'[r.user] = "FREE"
    BY <1>1, <2>1, <2>2, <2>3 DEF SetTier
  <2>10. ASSUME NEW u \in Users, tier'[u] \notin {"FREE", "TEACHER"}
         PROVE  \E x \in Subs : /\ subscriptions'[x].status \in {"active", "expired"}
                                /\ subscriptions'[x].user = u
                                /\ PlanTier[subscriptions'[x].plan] = tier'[u]
    <3>1. u # r.user
      BY <2>9, <2>10
    <3>2. PICK x \in Subs : /\ subscriptions[x].status \in {"active", "expired"}
                            /\ subscriptions[x].user = u
                            /\ PlanTier[subscriptions[x].plan] = tier[u]
      BY <2>4, <2>10, <3>1 DEF SubscriptionBooks, TierFollowsSubscription
    <3>3. subscriptions'[x] = subscriptions[x]
      BY <1>1, <2>1, <2>2, <2>3, <3>1, <3>2
    <3> QED BY <2>4, <3>1, <3>2, <3>3
  <2> QED BY <2>7, <2>8, <2>10 DEF SubscriptionBooks, TierFollowsSubscription
<1>6. ASSUME NEW w \in Workers, LookupCommit(w) PROVE SubscriptionBooks'
  BY <1>1, <1>6, RowsRetire DEF LookupCommit, UserSubscription
<1>7. ASSUME NEW s \in Subs, SubscriptionLapses(s) PROVE SubscriptionBooks'
  BY <1>1, <1>7, RowsRetire DEF SubscriptionLapses, UserSubscription
<1>9. ASSUME NEW w \in Workers, GrantCommit(w) PROVE SubscriptionBooks'
  <2> DEFINE r == requests[w]
  <2>1. /\ r.op = "grant" /\ RequestOK(r) /\ Fresh(r) /\ subscriptions' = subscriptions
        /\ IF r.tier = "FREE" THEN SetTier(w, r.user, "TEACHER") ELSE tier' = tier
    BY <1>9, FinishType DEF GrantCommit, Coherent, AllFresh
  <2>2. r.user \in Users /\ r.tier = tier[r.user]
    BY <2>1 DEF RequestOK, Fresh
  <2>3. CASE r.tier # "FREE"
    BY <1>2, <2>1, <2>3
  <2>4. CASE r.tier = "FREE"
    <3>1. tier' = [tier EXCEPT ![r.user] = "TEACHER"]
      BY <2>1, <2>4 DEF SetTier
    <3>2. /\ tier'[r.user] = "TEACHER" /\ tier[r.user] = "FREE"
          /\ \A u \in Users : u # r.user => tier'[u] = tier[u]
      BY <1>1, <2>2, <2>4, <3>1
    <3>3. \A x \in Subs : subscriptions[x].status = "active" => subscriptions[x].user \in Users
      BY <1>1 DEF SubscriptionsOK
    <3>4. TierFollowsSubscription'
      BY <2>1, <3>2, <3>3 DEF SubscriptionBooks, TierFollowsSubscription
    <3>5. OnlyOneActive'
      BY <2>1 DEF SubscriptionBooks, OnlyOneActive
    <3> QED BY <3>4, <3>5 DEF SubscriptionBooks
  <2> QED BY <2>3, <2>4
<1>8. ASSUME NEW w \in Workers, RequestStep(w) PROVE SubscriptionBooks'
  BY <1>2, <1>3, <1>4, <1>5, <1>6, <1>8, <1>9
     DEF RequestStep, InitiateRead, UploadRead, CancelRead, ApproveRead, RejectRead,
         SubscribeRead, UnsubscribeRead, LookupRead, GrantRead, Begin, Resolve, ResolveFails, Abort,
         InitiateCommit, UploadCommit, CancelCommit, RejectCommit
<1> QED
  BY <1>2, <1>7, <1>8 DEF Next, vars, SweepRead, SweepCrash, SweepOne, DeadlinePasses

-------------------------------------------------------------------------------
(* Nothing comes between the two halves of a request.                      *)

LEMMA IdleFresh == Fresh(Idle) /\ Fresh(Idle)'
  BY DEF Fresh, Idle

\* What a request has read survives a step that moves no row.
LEMMA StaysFresh ==
  ASSUME PlacesKept, NEW w \in Workers, Fresh(requests[w]), RequestOK(requests[w]),
         requests'[w] = requests[w], tier' = tier,
         \A p \in Payments : payments'[p].status = payments[p].status,
         \A s \in Subs : /\ subscriptions'[s].status = subscriptions[s].status
                         /\ subscriptions'[s].user = subscriptions[s].user
  PROVE  Fresh(requests[w])'
<1> DEFINE r == requests[w]
<1>1. \A p \in Payments : Active(p)' = Active(p)
  BY DEF Active
<1>2. \A p \in Payments : Active(p) /\ ~OnPage(p) => ~OnPage(p)'
  BY OffPageForGood DEF Active, PAYMENT_ACTIVE_STATUSES
<1>3. r.op = "initiate" =>
        \A p \in Payments : PayUser[p] = r.user /\ PayPlan[p] = r.plan /\ Active(p)'
                              => ~OnPage(p)'
  BY <1>1, <1>2 DEF Fresh
<1>4. r.op \in {"upload", "cancel", "approve", "reject"} =>
        r.seen = payments'[r.payment].status
  BY DEF Fresh, RequestOK
<1>5. r.op = "unsubscribe" => /\ subscriptions'[r.sub].status = "active"
                              /\ subscriptions'[r.sub].user = r.user
  BY DEF Fresh, RequestOK
<1>6. r.op \in {"approve", "subscribe"} /\ r.resolved =>
        \A s \in Subs : subscriptions'[s].status = "active"
                        /\ subscriptions'[s].user = r.user => s = r.sub
  BY DEF Fresh
<1>7. /\ r.op = "upload" => r.seen = "pending"
      /\ r.op \in {"subscribe", "unsubscribe", "grant"} => r.tier = tier'[r.user]
      /\ r.op \in {"approve", "subscribe"} =>
            \A s \in Subs : s = r.sub => subscriptions'[s].user = r.user
  BY DEF Fresh
<1> QED BY <1>3, <1>4, <1>5, <1>6, <1>7 DEF Fresh

\* A step that leaves the sweeper alone and starts a request only when all was quiet.
LEMMA OneMore ==
  ASSUME TypeOK, Coherent, NEW w \in Workers, NEW r, Quiet \/ requests[w].op # "idle",
         requests' = [requests EXCEPT ![w] = r], sweep' = sweep, Fresh(requests[w])'
  PROVE  Coherent'
<1>1. \A v \in Workers : v # w => /\ requests'[v] = requests[v]
                                  /\ requests[v].op = "idle"
  BY DEF TypeOK, Coherent, Alone, Quiet
<1>2. ~Sweeping
  BY DEF Coherent, Alone, Quiet
<1>3. \A p \in Payments : sweep'[p] = "absent"
  BY <1>2 DEF Sweeping
<1>4. Alone'
  BY <1>1, <1>3 DEF Alone, Sweeping
<1>5. AllFresh'
  BY <1>1 DEF AllFresh, Fresh
<1>6. SweepFresh'
  BY <1>3 DEF SweepFresh
<1> QED BY <1>4, <1>5, <1>6 DEF Coherent

\* A request that ends leaves nothing running.
LEMMA EndsCoherent ==
  ASSUME TypeOK, Coherent, NEW w \in Workers, requests[w].op # "idle",
         requests' = [requests EXCEPT ![w] = Idle], sweep' = sweep
  PROVE  Coherent'
<1>1. Fresh(requests[w])'
  BY IdleFresh DEF Fresh, TypeOK, Idle
<1> QED BY <1>1, OneMore

\* A request that starts has read the tables as they are.
LEMMA BeginCoherent ==
  ASSUME TypeOK, Coherent, Serialized, NEW w \in Workers, NEW r, Fresh(r), Begin(w, r)
  PROVE  Coherent'
<1>1. requests'[w] = r
  BY DEF Begin, TypeOK
<1>2. Fresh(requests[w])'
  BY <1>1 DEF Begin, Fresh, Active, OnPage, list_by_user
<1> QED BY <1>2, OneMore DEF Begin

LEMMA ReadsCoherent ==
  ASSUME IndInv, Coherent, Serialized, NEW w \in Workers,
         \/ \E u \in Users, pl \in Plans : InitiateRead(w, u, pl)
         \/ \E p \in Payments : \/ UploadRead(w, p) \/ CancelRead(w, p)
                                \/ ApproveRead(w, p) \/ RejectRead(w, p)
         \/ \E u \in Users, pl \in Plans, ref \in Refs : SubscribeRead(w, u, pl, ref)
         \/ \E s \in Subs : UnsubscribeRead(w, s)
         \/ \E u \in Users : LookupRead(w, u)
         \/ \E u \in Buyers : GrantRead(w, u)
  PROVE  Coherent'
<1> USE ConstantsAssumption
<1>1. ASSUME NEW r, Fresh(r), Begin(w, r) PROVE Coherent'
  BY <1>1, BeginCoherent DEF IndInv
<1>2. ASSUME NEW u \in Users, NEW pl \in Plans, InitiateRead(w, u, pl) PROVE Coherent'
  <2> DEFINE r == [Idle EXCEPT !.op = "initiate", !.user = u, !.plan = pl]
  <2>1. r.op = "initiate" /\ r.user = u /\ r.plan = pl
    BY DEF Idle
  <2>2. \A p \in Payments : PayUser[p] = u /\ PayPlan[p] = pl /\ Active(p) => ~OnPage(p)
    BY <1>2 DEF InitiateRead, OnPage
  <2>3. Fresh(r)
    BY <2>1, <2>2 DEF Fresh
  <2> QED BY <1>1, <1>2, <2>3 DEF InitiateRead
<1>3. ASSUME NEW p \in Payments, UploadRead(w, p) PROVE Coherent'
  <2> DEFINE r == [Idle EXCEPT !.op = "upload", !.payment = p, !.seen = "pending"]
  <2>1. Fresh(r)
    BY <1>3 DEF UploadRead, Fresh, Idle
  <2> QED BY <1>1, <1>3, <2>1 DEF UploadRead
<1>4. ASSUME NEW p \in Payments, CancelRead(w, p) PROVE Coherent'
  <2> DEFINE r == [Idle EXCEPT !.op = "cancel", !.payment = p,
                               !.seen = payments[p].status]
  <2>1. Fresh(r)
    BY DEF Fresh, Idle
  <2> QED BY <1>1, <1>4, <2>1 DEF CancelRead
<1>5. ASSUME NEW p \in Payments, ApproveRead(w, p) PROVE Coherent'
  <2> DEFINE r == [Idle EXCEPT !.op = "approve", !.payment = p,
                               !.seen = "waiting_for_review",
                               !.user = PayUser[p], !.plan = PayPlan[p]]
  <2>1. Fresh(r)
    BY <1>5 DEF ApproveRead, Fresh, Idle
  <2> QED BY <1>1, <1>5, <2>1 DEF ApproveRead
<1>6. ASSUME NEW p \in Payments, RejectRead(w, p) PROVE Coherent'
  <2> DEFINE r == [Idle EXCEPT !.op = "reject", !.payment = p,
                               !.seen = "waiting_for_review"]
  <2>1. Fresh(r)
    BY <1>6 DEF RejectRead, Fresh, Idle
  <2> QED BY <1>1, <1>6, <2>1 DEF RejectRead
<1>7. ASSUME NEW u \in Users, NEW pl \in Plans, NEW ref \in Refs,
             SubscribeRead(w, u, pl, ref)
      PROVE  Coherent'
  <2> DEFINE r == [Idle EXCEPT !.op = "subscribe", !.user = u, !.plan = pl,
                               !.payment = ref, !.tier = tier[u]]
  <2>1. Fresh(r)
    BY DEF Fresh, Idle
  <2> QED BY <1>1, <1>7, <2>1 DEF SubscribeRead
<1>8. ASSUME NEW s \in Subs, UnsubscribeRead(w, s) PROVE Coherent'
  <2> DEFINE u == subscriptions[s].user
             r == [Idle EXCEPT !.op = "unsubscribe", !.user = u, !.sub = s,
                               !.tier = tier[u]]
  <2>1. Fresh(r)
    BY <1>8 DEF UnsubscribeRead, Fresh, Idle
  <2> QED BY <1>1, <1>8, <2>1 DEF UnsubscribeRead
<1>9. ASSUME NEW u \in Users, LookupRead(w, u) PROVE Coherent'
  <2>1. PICK s \in Subs : Begin(w, [Idle EXCEPT !.op = "lookup", !.user = u, !.sub = s])
    BY <1>9 DEF LookupRead
  <2> DEFINE r == [Idle EXCEPT !.op = "lookup", !.user = u, !.sub = s]
  <2>2. Fresh(r)
    BY DEF Fresh, Idle
  <2> QED BY <1>1, <2>1, <2>2
<1>10. ASSUME NEW u \in Buyers, GrantRead(w, u) PROVE Coherent'
  <2> DEFINE r == [Idle EXCEPT !.op = "grant", !.user = u, !.tier = tier[u]]
  <2>1. Fresh(r)
    BY DEF Fresh, Idle
  <2> QED BY <1>1, <1>10, <2>1 DEF GrantRead
<1> QED
  BY <1>2, <1>3, <1>4, <1>5, <1>6, <1>7, <1>8, <1>9, <1>10

LEMMA ResolveCoherent ==
  ASSUME IndInv, Coherent, NEW w \in Workers, Resolve(w)
  PROVE  Coherent'
<1> DEFINE r == requests[w]
           mine == ActiveSubs(r.user)
<1>1. /\ requests \in [Workers -> Request] /\ r \in Request /\ Fresh(r) /\ RequestOK(r)
      /\ r.op \in {"approve", "subscribe"}
      /\ UNCHANGED <<payments, subscriptions, tier, sweep>>
  BY DEF IndInv, TypeOK, RequestsOK, Coherent, AllFresh, Resolve
<1>2. \E sub, mark :
        /\ requests' = [requests EXCEPT ![w].resolved = TRUE, ![w].sub = sub,
                                        ![w].mark = mark]
        /\ mine \subseteq {sub} /\ (sub \in mine \/ sub = r.sub)
  <2>1. CASE mine = {} /\ requests' = [requests EXCEPT ![w].resolved = TRUE]
    <3>1. [r EXCEPT !.resolved = TRUE]
            = [r EXCEPT !.resolved = TRUE, !.sub = r.sub, !.mark = r.mark]
      BY <1>1 DEF Request
    <3>2. requests' = [requests EXCEPT ![w].resolved = TRUE, ![w].sub = r.sub,
                                       ![w].mark = r.mark]
      BY <1>1, <2>1, <3>1
    <3> QED BY <2>1, <3>2
  <2>2. CASE \E s \in mine :
               /\ mine = {s}
               /\ requests' = [requests EXCEPT ![w].resolved = TRUE, ![w].sub = s,
                                               ![w].mark = Retired(s)]
    BY <2>2
  <2> QED BY <2>1, <2>2 DEF Resolve
<1>3. PICK sub, mark :
        /\ requests' = [requests EXCEPT ![w].resolved = TRUE, ![w].sub = sub,
                                        ![w].mark = mark]
        /\ mine \subseteq {sub} /\ (sub \in mine \/ sub = r.sub)
  BY <1>2
<1>4. /\ requests'[w].op = r.op /\ requests'[w].user = r.user /\ requests'[w].tier = r.tier
      /\ requests'[w].payment = r.payment /\ requests'[w].seen = r.seen
      /\ requests'[w].sub = sub
  BY <1>1, <1>3 DEF Request
<1>5. \A s \in Subs : subscriptions[s].status = "active"
                      /\ subscriptions[s].user = r.user => s = sub
  BY <1>3 DEF ActiveSubs
<1>8. \A s \in Subs : s = sub => subscriptions[s].user = r.user
  BY <1>1, <1>3 DEF ActiveSubs, Fresh
<1>6. Fresh(requests[w])'
  BY <1>1, <1>4, <1>5, <1>8 DEF Fresh
<1>7. \E q : requests' = [requests EXCEPT ![w] = q]
  BY <1>1, <1>3
<1> QED BY <1>1, <1>6, <1>7, OneMore DEF IndInv

LEMMA CommitsCoherent ==
  ASSUME IndInv, Coherent, NEW w \in Workers,
         \/ ResolveFails(w) \/ Abort(w)
         \/ InitiateCommit(w) \/ UploadCommit(w) \/ CancelCommit(w) \/ ApproveCommit(w)
         \/ RejectCommit(w) \/ SubscribeCommit(w) \/ UnsubscribeCommit(w)
         \/ LookupCommit(w) \/ GrantCommit(w)
  PROVE  Coherent'
<1>1. /\ requests[w].op # "idle" /\ requests' = [requests EXCEPT ![w] = Idle]
      /\ sweep' = sweep
  BY DEF ResolveFails, Abort, InitiateCommit, UploadCommit, CancelCommit, ApproveCommit,
         RejectCommit, SubscribeCommit, UnsubscribeCommit, LookupCommit, GrantCommit, Finish
<1> QED BY <1>1, EndsCoherent DEF IndInv

\* While a sweep runs nothing else does, so what it read stays true.
LEMMA SweepsCoherent ==
  ASSUME IndInv, Coherent, Serialized,
         SweepRead \/ SweepCrash \/ \E p \in Payments : SweepOne(p)
  PROVE  Coherent'
<1>1. payments \in [Payments -> Payment]
      /\ sweep \in [Payments -> PAYMENT_ACTIVE_STATUSES \cup {"absent"}]
  BY DEF IndInv, TypeOK
<1>2. (\A w \in Workers : requests[w].op = "idle") /\ requests' = requests
  BY DEF SweepRead, SweepCrash, SweepOne, Quiet, Sweeping, Coherent, Alone
<1>3. Alone'
  BY <1>2 DEF Alone
<1>4. AllFresh'
  BY <1>2 DEF AllFresh, Fresh
<1>5. SweepFresh'
  <2>1. CASE SweepRead
    BY <2>1 DEF SweepRead, SweepFresh
  <2>2. CASE SweepCrash
    BY <2>2 DEF SweepCrash, SweepFresh
  <2>3. ASSUME NEW p \in Payments, SweepOne(p) PROVE SweepFresh'
    <3>1. \A q \in Payments : q # p => /\ payments'[q] = payments[q]
                                       /\ sweep'[q] = sweep[q]
      BY <1>1, <2>3 DEF SweepOne
    <3>2. sweep'[p] = "absent"
      BY <1>1, <2>3 DEF SweepOne
    <3> QED BY <3>1, <3>2 DEF SweepFresh, Coherent
  <2> QED BY <2>1, <2>2, <2>3
<1> QED BY <1>3, <1>4, <1>5 DEF Coherent

\* Deadlines pass and subscriptions lapse while a request runs; it does not matter.
LEMMA TimeCoherent ==
  ASSUME IndInv, Coherent,
         \/ UNCHANGED vars
         \/ \E p \in Payments : DeadlinePasses(p)
         \/ \E s \in Subs : SubscriptionLapses(s)
  PROVE  Coherent'
<1>1. /\ payments \in [Payments -> Payment]
      /\ subscriptions \in [Subs -> UserSubscription]
  BY DEF IndInv, TypeOK
<1>2. tier' = tier /\ requests' = requests /\ sweep' = sweep
  BY DEF DeadlinePasses, SubscriptionLapses, vars
<1>3. \A p \in Payments : payments'[p].status = payments[p].status
                          /\ payments'[p].nth = payments[p].nth
  BY <1>1 DEF DeadlinePasses, SubscriptionLapses, vars, Payment
<1>4. \A s \in Subs : subscriptions'[s].status = subscriptions[s].status
                      /\ subscriptions'[s].user = subscriptions[s].user
  BY <1>1 DEF DeadlinePasses, SubscriptionLapses, vars, UserSubscription
<1>5. AllFresh'
  <2> SUFFICES ASSUME NEW w \in Workers PROVE Fresh(requests[w])'
    BY DEF AllFresh
  <2>1. Fresh(requests[w]) /\ RequestOK(requests[w]) /\ requests'[w] = requests[w]
    BY <1>2 DEF Coherent, AllFresh, IndInv, RequestsOK
  <2>2. PlacesKept
    BY <1>3 DEF PlacesKept
  <2> QED BY <1>2, <1>3, <1>4, <2>1, <2>2, StaysFresh
<1>6. Alone' /\ SweepFresh'
  BY <1>2, <1>3 DEF Alone, Sweeping, SweepFresh, Coherent
<1> QED BY <1>5, <1>6 DEF Coherent

-------------------------------------------------------------------------------
(* What holds when requests do not overlap.                                *)

Serial == IndInv /\ Coherent /\ Books

LEMMA InitSerial == Init => Serial
<1> SUFFICES ASSUME Init PROVE Serial
  OBVIOUS
<1>1. Coherent
  BY IdleFresh
     DEF Init, Coherent, Alone, AllFresh, SweepFresh, Sweeping, Idle
<1>2. DuplicatesOffPage
  BY DEF Init, DuplicatesOffPage, Active, PAYMENT_ACTIVE_STATUSES, NoPayment
<1>3. TrailIsAHistory
  BY DEF Init, TrailIsAHistory
<1>4. OnlyOneActive /\ TierFollowsSubscription
  BY DEF Init, OnlyOneActive, TierFollowsSubscription, NoSubscription
<1> QED BY <1>1, <1>2, <1>3, <1>4, InitIndInv DEF Serial, Books

LEMMA NextSerial ==
  ASSUME Serialized
  PROVE  Serial /\ [Next]_vars => Serial'
<1> SUFFICES ASSUME Serial, [Next]_vars PROVE Serial'
  OBVIOUS
<1>1. IndInv /\ Coherent /\ Books
  BY DEF Serial
<1>2. IndInv'
  BY <1>1, NextIndInv
<1>3. Coherent'
  <2>1. ASSUME NEW w \in Workers, RequestStep(w) PROVE Coherent'
    BY <1>1, <2>1, ReadsCoherent, ResolveCoherent, CommitsCoherent DEF RequestStep
  <2> QED BY <1>1, <2>1, SweepsCoherent, TimeCoherent DEF Next
<1>4. TrailIsAHistory' /\ DuplicatesOffPage'
  BY <1>1, HistoryStep, DuplicatesStep DEF Books
<1>5. SubscriptionBooks'
  BY <1>1, SubscriptionStep DEF Books, SubscriptionBooks
<1> QED BY <1>2, <1>3, <1>4, <1>5 DEF Serial, Books, SubscriptionBooks

LEMMA SerialInvariant ==
  ASSUME Serialized
  PROVE  Spec => []Serial
  BY InitSerial, NextSerial, PTL DEF Spec

\* Without overlap the trail of a payment is a history: every event starts from the
\* status the one before it left (old_status of the handlers and of the sweeper).
THEOREM TrailHistory ==
  ASSUME Serialized
  PROVE  Spec => []TrailIsAHistory
  BY SerialInvariant, PTL DEF Serial, Books

\* Without overlap initiate_payment leaves at most one payment in flight for a plan among
\* those it looks at: the newest page of the user's payments.
THEOREM NoDuplicateOnPage ==
  ASSUME Serialized
  PROVE  Spec => []DuplicatesOffPage
  BY SerialInvariant, PTL DEF Serial, Books

LEMMA OneRowAtMost == OnlyOneActive => OneActiveSubscription
<1> SUFFICES ASSUME OnlyOneActive, NEW u \in Users
             PROVE  Cardinality(ActiveSubs(u)) <= 1
  BY DEF OneActiveSubscription
<1>1. CASE ActiveSubs(u) = {}
  BY <1>1, FS_EmptySet
<1>2. ASSUME NEW s \in ActiveSubs(u) PROVE Cardinality(ActiveSubs(u)) <= 1
  <2>1. ActiveSubs(u) = {s}
    BY <1>2 DEF ActiveSubs, OnlyOneActive
  <2>2. Cardinality({s}) = 1
    BY FS_Singleton
  <2> QED BY <2>1, <2>2
<1> QED BY <1>1, <1>2

\* The payments of every user fit on the page the duplicate check reads.
PageIsEnough == \A u \in Users : Cardinality({p \in Payments : PayUser[p] = u}) <= PageSize

LEMMA EveryPaymentOnPage ==
  ASSUME PageIsEnough, NEW p \in Payments, payments[p].nth \in Nat,
         payments[p].status # "absent"
  PROVE  OnPage(p)
<1> USE ConstantsAssumption
<1> DEFINE u == PayUser[p]
           all == {q \in Payments : PayUser[q] = u}
           mine == {q \in Payments : PayUser[q] = u /\ payments[q].status # "absent"}
           later == {q \in mine : payments[q].nth > payments[p].nth}
<1>1. IsFiniteSet(all) /\ later \subseteq all /\ later # all
  <2>1. all \subseteq Payments /\ later \subseteq all
    OBVIOUS
  <2>2. p \in all /\ p \notin later
    OBVIOUS
  <2> QED BY <2>1, <2>2, FS_Subset
<1>2. /\ Cardinality(later) \in Nat /\ Cardinality(all) \in Nat
      /\ Cardinality(later) < Cardinality(all)
  <2> HIDE DEF later, all
  <2> QED BY <1>1, FS_Subset, FS_CardinalityType
<1>3. Cardinality(all) <= PageSize
  BY DEF PageIsEnough
<1>4. Cardinality(later) < PageSize
  <2> HIDE DEF later, all
  <2> QED BY <1>2, <1>3
<1> QED BY <1>4 DEF OnPage, list_by_user

\* Without overlap a user never has two active subscriptions and, as long as all of a
\* user's payments fit on that page, never two payments in flight for one plan.
THEOREM NoPileUp ==
  ASSUME Serialized, PageIsEnough
  PROVE  Spec => []NothingPilesUp
<1>1. Serial => NothingPilesUp
  <2> SUFFICES ASSUME Serial PROVE NothingPilesUp
    OBVIOUS
  <2>1. OneActiveSubscription
    BY OneRowAtMost DEF Serial, Books
  <2>2. \A p \in Payments : Active(p) => OnPage(p)
    <3> SUFFICES ASSUME NEW p \in Payments, Active(p) PROVE OnPage(p)
      OBVIOUS
    <3>1. payments[p].nth \in Nat
      BY DEF Serial, IndInv, TypeOK, Payment
    <3> QED BY <3>1, EveryPaymentOnPage DEF Active, PAYMENT_ACTIVE_STATUSES
  <2>3. NoDuplicateInFlight
    BY <2>2 DEF NoDuplicateInFlight, Serial, Books, DuplicatesOffPage
  <2> QED BY <2>1, <2>3 DEF NothingPilesUp
<1> QED BY <1>1, SerialInvariant, PTL

\* Without overlap the tier the quotas are read from is that of the active subscription,
\* or TEACHER beside a free one, and a sold tier comes from a subscription nobody
\* cancelled: no renewal, cancellation, review or granted role leaves the two apart.
THEOREM TierSafety ==
  ASSUME Serialized
  PROVE  Spec => []TierFollowsSubscription
  BY SerialInvariant, PTL DEF Serial, Books

-------------------------------------------------------------------------------
(* The lifecycle of a payment.                                             *)

\* The subscriptions a payment has paid for: its approvals in the trail.
LEMMA ApprovalsStep ==
  ASSUME IndInv, NEW p \in Payments, NEW from \in PaymentStatus \cup {"absent"},
         NEW to \in PaymentStatus, AddEvent(p, from, to)
  PROVE  /\ Approvals(p) \in Nat
         /\ Approvals(p)' = IF to = "approved" THEN Approvals(p) + 1 ELSE Approvals(p)
         /\ \A q \in Payments : q # p => Approvals(q)' = Approvals(q)
<1>1. events \in [Payments -> Seq(PaymentEvent)]
  BY DEF IndInv, TypeOK
<1>2. PICK e \in PaymentEvent : e = [from |-> from, to |-> to]
  BY DEF PaymentEvent
<1>3. PICK trail \in Seq(PaymentEvent) : trail = events[p]
  BY <1>1
<1>4. /\ events'[p] = Append(trail, e)
      /\ \A q \in Payments : q # p => events'[q] = events[q]
  BY <1>1, <1>2, <1>3 DEF AddEvent
<1>5. /\ Len(Append(trail, e)) = Len(trail) + 1 /\ Len(trail) \in Nat
      /\ Append(trail, e)[Len(trail) + 1] = e
      /\ \A i \in 1 .. Len(trail) : Append(trail, e)[i] = trail[i]
  OBVIOUS
<1>6. PICK old : old = {i \in 1 .. Len(trail) : trail[i].to = "approved"}
  OBVIOUS
<1>7. PICK new : new = {i \in 1 .. Len(Append(trail, e)) : Append(trail, e)[i].to = "approved"}
  OBVIOUS
<1>8. Approvals(p) = Cardinality(old) /\ Approvals(p)' = Cardinality(new)
  BY <1>3, <1>4, <1>6, <1>7 DEF Approvals
<1>9. IsFiniteSet(old) /\ Cardinality(old) \in Nat
  <2>1. IsFiniteSet(1 .. Len(trail))
    BY <1>5, FS_Interval
  <2>2. old \subseteq 1 .. Len(trail)
    BY <1>6
  <2> QED BY <2>1, <2>2, FS_Subset, FS_CardinalityType
<1>10. e.to = to
  BY <1>2
<1>11. CASE to = "approved"
  <2>1. new = old \cup {Len(trail) + 1} /\ Len(trail) + 1 \notin old
    BY <1>5, <1>6, <1>7, <1>10, <1>11
  <2>2. Cardinality(new) = Cardinality(old) + 1
    BY <1>9, <2>1, FS_AddElement
  <2> QED BY <1>4, <1>8, <1>9, <1>11, <2>2 DEF Approvals
<1>12. CASE to # "approved"
  <2>1. new = old
    BY <1>5, <1>6, <1>7, <1>10, <1>12
  <2> QED BY <1>4, <1>8, <1>9, <1>12, <2>1 DEF Approvals
<1> QED BY <1>11, <1>12

LEMMA StepImplements ==
  ASSUME Serial, [Next]_vars
  PROVE  [Lifecycle!LifecycleNext]_(Lifecycle!lifecycleVars)
<1> DEFINE status == [q \in Payments |-> payments[q].status]
           grants == [q \in Payments |-> Approvals(q)]
<1>1. CASE StatusStays
  <2>1. status' = status
    BY <1>1 DEF StatusStays
  <2>2. grants' = grants
    BY <1>1 DEF StatusStays, Approvals
  <2> QED BY <2>1, <2>2 DEF Lifecycle!lifecycleVars
<1>2. ASSUME NEW p \in Payments, NEW to \in PaymentStatus, StatusMove(p, to)
      PROVE  Lifecycle!LifecycleNext
  <2>1. PICK from : from = payments[p].status
    OBVIOUS
  <2>2. from \in PaymentStatus \cup {"absent"}
    BY <2>1 DEF Serial, IndInv, TypeOK, Payment
  <2>3. status' = [status EXCEPT ![p] = to] /\ status[p] = from
    BY <1>2, <2>1 DEF StatusMove
  <2>4. AddEvent(p, from, to) /\ Allowed(from, to)
    BY <1>2, <2>1 DEF StatusMove
  <2>5. /\ Approvals(p)' = IF to = "approved" THEN Approvals(p) + 1 ELSE Approvals(p)
        /\ \A q \in Payments : q # p => Approvals(q)' = Approvals(q)
    BY <2>2, <2>4, ApprovalsStep DEF Serial
  <2>6. grants' = IF to = "approved" THEN [grants EXCEPT ![p] = grants[p] + 1] ELSE grants
    BY <2>5
  <2> HIDE DEF status, grants
  <2>7. \/ from = "absent" /\ to = "pending"
        \/ from = "pending" /\ to = "waiting_for_review"
        \/ from = "waiting_for_review" /\ to \in {"approved", "rejected"}
        \/ from \in PAYMENT_ACTIVE_STATUSES /\ to \in {"cancelled", "expired"}
    BY <2>4 DEF Allowed
  <2> USE DEF Lifecycle!LifecycleNext, Lifecycle!Move, status, grants
  <2>8. CASE from = "absent" /\ to = "pending"
    BY <2>3, <2>6, <2>8 DEF Lifecycle!Open
  <2>9. CASE from = "pending" /\ to = "waiting_for_review"
    BY <2>3, <2>6, <2>9 DEF Lifecycle!SubmitReceipt
  <2>10. CASE from = "waiting_for_review" /\ to = "approved"
    BY <2>3, <2>6, <2>10 DEF Lifecycle!Approve
  <2>11. CASE from = "waiting_for_review" /\ to = "rejected"
    BY <2>3, <2>6, <2>11 DEF Lifecycle!Reject
  <2>12. CASE from \in PAYMENT_ACTIVE_STATUSES /\ to = "cancelled"
    BY <2>3, <2>6, <2>12
       DEF Lifecycle!Cancel, Lifecycle!PAYMENT_ACTIVE_STATUSES, PAYMENT_ACTIVE_STATUSES
  <2>13. CASE from \in PAYMENT_ACTIVE_STATUSES /\ to = "expired"
    BY <2>3, <2>6, <2>13
       DEF Lifecycle!Expire, Lifecycle!PAYMENT_ACTIVE_STATUSES, PAYMENT_ACTIVE_STATUSES
  <2> QED BY <2>7, <2>8, <2>9, <2>10, <2>11, <2>12, <2>13
<1> QED BY <1>1, <1>2, StatusSteps DEF Serial

\* Without overlap every step of the billing code is a step of the documented life of a
\* payment, and each approval grants one subscription.
THEOREM ImplementsPaymentLifecycle ==
  ASSUME Serialized
  PROVE  Spec => ImplementsLifecycle
<1>1. Init => Lifecycle!LifecycleInit
  <2> SUFFICES ASSUME Init PROVE Lifecycle!LifecycleInit
    OBVIOUS
  <2>1. \A p \in Payments : Approvals(p) = 0
    <3> SUFFICES ASSUME NEW p \in Payments PROVE Approvals(p) = 0
      OBVIOUS
    <3>1. {i \in 1 .. Len(events[p]) : events[p][i].to = "approved"} = {}
      BY DEF Init
    <3> QED BY <3>1, FS_EmptySet DEF Approvals
  <2>2. \A p \in Payments : payments[p].status = "absent"
    BY DEF Init, NoPayment
  <2> QED BY <2>1, <2>2 DEF Lifecycle!LifecycleInit
<1>2. Serial /\ [Next]_vars => [Lifecycle!LifecycleNext]_(Lifecycle!lifecycleVars)
  BY StepImplements
<1> QED
  BY <1>1, <1>2, SerialInvariant, PTL DEF Spec, ImplementsLifecycle, Lifecycle!LifecycleSpec
===============================================================================
