---------------------------- MODULE TeacherPackage ----------------------------
(***************************************************************************)
(* The teacher package: BillingService (billing/service.py), with the two  *)
(* other services that write the same user row: AdminService               *)
(* (update_user_roles) and SubscriptionService (the tier).                 *)
(*                                                                         *)
(* A request loads the user when it is authenticated and the other rows    *)
(* later; it writes at its commit.  The ORM writes a column, or a row of   *)
(* user_roles, only where the new value differs from the loaded one.       *)
(***************************************************************************)
EXTENDS Integers, FiniteSets

CONSTANTS Users, Purchases, Workers,
          Buyer,          \* teacher_purchases.user_id: written once, by the creation
          None

VARIABLES purchases,      \* table teacher_purchases, with the receipt file of each row
          users,          \* what the package grants, of tables users and user_roles
          package,        \* teacher_packages.is_active
          requests,       \* the request each worker is serving
          overlapped      \* some request has started while another was running

vars == <<purchases, users, package, requests, overlapped>>

ASSUME ConstantsAssumption ==
    Buyer \in [Purchases -> Users] /\ None \notin Users /\ None \notin Purchases

PurchaseStatus == {"pending", "waiting_for_review", "completed", "rejected", "cancelled"}

TeacherPurchase == [status : PurchaseStatus \cup {"absent"},
                    receipt : BOOLEAN,        \* receipt_image
                    file : BOOLEAN]           \* a file lies in teacher_purchase_receipts

Tiers == {"FREE", "TEACHER", "PRO"}

User == [teacher : BOOLEAN,        \* user_roles has the TEACHER role
         verified : BOOLEAN,       \* teacher_verified_at is set
         tier : Tiers,             \* subscription_tier
         subscribed : BOOLEAN]     \* an active subscription exists

\* What a request keeps between its steps.
Request == [op : {"idle", "purchase", "restore", "create", "upload", "store", "cancel",
                  "approve", "grant", "reject", "roles", "subscribe", "unsubscribe"},
            user : Users \cup {None}, purchase : Purchases \cup {None},
            loaded : User,                   \* the user row as it was loaded
            assigned : BOOLEAN]              \* roles: TEACHER is among the new roles

NoPurchase == [status |-> "absent", receipt |-> FALSE, file |-> FALSE]

NewUser == [teacher |-> FALSE, verified |-> FALSE, tier |-> "FREE", subscribed |-> FALSE]

Idle == [op |-> "idle", user |-> None, purchase |-> None, loaded |-> NewUser,
         assigned |-> FALSE]

Init == /\ purchases = [p \in Purchases |-> NoPurchase]
        /\ users = [u \in Users |-> NewUser]
        /\ package = TRUE
        /\ requests = [w \in Workers |-> Idle]
        /\ overlapped = FALSE

-------------------------------------------------------------------------------
(* Requests.                                                               *)

Open(p) == purchases[p].status \in {"pending", "waiting_for_review"}

OpenPurchases(u) == {p \in Purchases : Buyer[p] = u /\ Open(p)}

CompletedPurchases(u) == {p \in Purchases : Buyer[p] = u
                                            /\ purchases[p].status = "completed"}

Begin(w, r) == /\ requests[w].op = "idle"
               /\ requests' = [requests EXCEPT ![w] = r]
               /\ overlapped' = (overlapped \/ \E v \in Workers : requests[v].op # "idle")
               /\ UNCHANGED <<purchases, users, package>>

\* The request goes on to its next step.
Continue(w, r) == /\ requests' = [requests EXCEPT ![w] = r]
                  /\ UNCHANGED overlapped

Finish(w) == Continue(w, Idle)

\* An error or a restart before the commit: get_db rolls back.
Abort(w) == /\ requests[w].op # "idle"
            /\ Finish(w)
            /\ UNCHANGED <<purchases, users, package>>

\* The ORM assigns a status to the row it loaded, whatever the row holds now.
SetStatus(p, s) == purchases' = [purchases EXCEPT ![p].status = s]

-------------------------------------------------------------------------------
(* The buyer.                                                              *)

\* get_active_user loads the user; who has the role in that row is refused.
PurchaseRead(w, u) ==
    /\ package /\ ~users[u].teacher
    /\ Begin(w, [Idle EXCEPT !.op = "purchase", !.user = u, !.loaded = users[u]])

\* Variant: a completed purchase is not looked for.
PurchaseLookupForgetful(w) ==
    LET r == requests[w] IN
    /\ r.op = "purchase"
    /\ IF OpenPurchases(r.user) = {} THEN Continue(w, [r EXCEPT !.op = "create"])
                                    ELSE Finish(w)
    /\ UNCHANGED <<purchases, users, package>>

\* A completed purchase restores the role; an open one is returned as it is.
PurchaseLookup(w) ==
    LET r == requests[w]
        restores == CompletedPurchases(r.user) # {} /\ r.loaded.verified IN
    /\ r.op = "purchase"
    /\ \/ restores /\ Continue(w, [r EXCEPT !.op = "restore"])
       \/ /\ ~restores /\ OpenPurchases(r.user) = {}
          /\ Continue(w, [r EXCEPT !.op = "create"])
       \/ ~restores /\ OpenPurchases(r.user) # {} /\ Finish(w)
    /\ UNCHANGED <<purchases, users, package>>

\* _grant_teacher_role.  Adding the role to a user who has got it meanwhile
\* breaks the UNIQUE constraint of user_roles, and the request fails.
Grant(u, loaded) ==
    /\ ~loaded.teacher => ~users[u].teacher
    /\ users' = [users EXCEPT ![u].teacher = @ \/ ~loaded.teacher,
                              ![u].verified = TRUE,
                              ![u].tier = IF loaded.tier = "FREE" THEN "TEACHER" ELSE @]

CreateCommit(w) ==
    /\ requests[w].op = "create"
    /\ \E p \in Purchases :
          /\ Buyer[p] = requests[w].user /\ purchases[p].status = "absent"
          /\ SetStatus(p, "pending")
    /\ Finish(w)
    /\ UNCHANGED <<users, package>>

UploadRead(w, p) ==
    /\ purchases[p].status = "pending"
    /\ Begin(w, [Idle EXCEPT !.op = "upload", !.purchase = p])

\* The file is written before the row is; nothing takes it back.
UploadStore(w) ==
    /\ requests[w].op = "upload"
    /\ purchases' = [purchases EXCEPT ![requests[w].purchase].file = TRUE]
    /\ Continue(w, [requests[w] EXCEPT !.op = "store"])
    /\ UNCHANGED <<users, package>>

UploadCommit(w) ==
    /\ requests[w].op = "store"
    /\ purchases' = [purchases EXCEPT ![requests[w].purchase].status = "waiting_for_review",
                                      ![requests[w].purchase].receipt = TRUE]
    /\ Finish(w)
    /\ UNCHANGED <<users, package>>

CancelRead(w, p) ==
    /\ Open(p)
    /\ Begin(w, [Idle EXCEPT !.op = "cancel", !.purchase = p])

\* Variant: another spelling of the status.
CancelCommitCanceled(w) ==
    /\ requests[w].op = "cancel"
    /\ SetStatus(requests[w].purchase, "canceled")
    /\ Finish(w)
    /\ UNCHANGED <<users, package>>

CancelCommit(w) ==
    /\ requests[w].op = "cancel"
    /\ SetStatus(requests[w].purchase, "cancelled")
    /\ Finish(w)
    /\ UNCHANGED <<users, package>>

-------------------------------------------------------------------------------
(* The admin.                                                              *)

\* Variant: the status is not asked for.
ApproveReadAnyStatus(w, p) ==
    /\ Open(p)
    /\ purchases[p].receipt => purchases[p].file
    /\ Begin(w, [Idle EXCEPT !.op = "approve", !.purchase = p, !.user = Buyer[p]])

ApproveRead(w, p) ==
    /\ purchases[p].status = "waiting_for_review"
    /\ purchases[p].receipt => purchases[p].file
    /\ Begin(w, [Idle EXCEPT !.op = "approve", !.purchase = p, !.user = Buyer[p]])

\* The buyer is loaded after the purchase.
ApproveLoad(w) ==
    LET r == requests[w] IN
    /\ r.op = "approve"
    /\ Continue(w, [r EXCEPT !.op = "grant", !.loaded = users[r.user]])
    /\ UNCHANGED <<purchases, users, package>>

ApproveCommit(w) ==
    LET r == requests[w] IN
    /\ r.op = "grant"
    /\ Grant(r.user, r.loaded)
    /\ SetStatus(r.purchase, "completed")
    /\ Finish(w)
    /\ UNCHANGED package

RestoreCommit(w) ==
    LET r == requests[w] IN
    /\ r.op = "restore"
    /\ Grant(r.user, r.loaded)
    /\ Finish(w)
    /\ UNCHANGED <<purchases, package>>

RejectRead(w, p) ==
    /\ purchases[p].status = "waiting_for_review"
    /\ Begin(w, [Idle EXCEPT !.op = "reject", !.purchase = p])

RejectCommit(w) ==
    /\ requests[w].op = "reject"
    /\ SetStatus(requests[w].purchase, "rejected")
    /\ Finish(w)
    /\ UNCHANGED <<users, package>>

UpdatePackage == /\ package' = ~package
                 /\ UNCHANGED <<purchases, users, requests, overlapped>>

-------------------------------------------------------------------------------
(* The other writers of the user row.                                      *)

RolesRead(w, u) ==
    \E teacher \in BOOLEAN :
       Begin(w, [Idle EXCEPT !.op = "roles", !.user = u, !.loaded = users[u],
                             !.assigned = teacher])

\* The difference to the loaded roles is written: inserting a row that exists or
\* deleting one that is gone fails.
RolesCommit(w) ==
    LET r == requests[w] IN
    /\ r.op = "roles"
    /\ \/ r.assigned = r.loaded.teacher /\ UNCHANGED users
       \/ /\ r.assigned # r.loaded.teacher /\ users[r.user].teacher = r.loaded.teacher
          /\ users' = [users EXCEPT ![r.user].teacher = r.assigned]
    /\ Finish(w)
    /\ UNCHANGED <<purchases, package>>

SubscribeRead(w, u) ==
    Begin(w, [Idle EXCEPT !.op = "subscribe", !.user = u, !.loaded = users[u]])

\* What the tier column becomes when t is assigned to the loaded row.
Assign(r, t) == IF t = r.loaded.tier THEN users[r.user].tier ELSE t

\* activate_or_renew, for a free plan or a paid one.
SubscribeCommit(w) ==
    LET r == requests[w] IN
    /\ r.op = "subscribe"
    /\ \E t \in {"FREE", "PRO"} :
          users' = [users EXCEPT ![r.user].tier = Assign(r, t), ![r.user].subscribed = TRUE]
    /\ Finish(w)
    /\ UNCHANGED <<purchases, package>>

UnsubscribeRead(w, u) ==
    /\ users[u].subscribed
    /\ Begin(w, [Idle EXCEPT !.op = "unsubscribe", !.user = u, !.loaded = users[u]])

\* cancel_subscription.
UnsubscribeCommit(w) ==
    LET r == requests[w] IN
    /\ r.op = "unsubscribe"
    /\ users' = [users EXCEPT ![r.user].tier = Assign(r, "FREE"),
                              ![r.user].subscribed = FALSE]
    /\ Finish(w)
    /\ UNCHANGED <<purchases, package>>

-------------------------------------------------------------------------------
BuyerStep(w) == \/ \E u \in Users : PurchaseRead(w, u)
                \/ PurchaseLookup(w) \/ CreateCommit(w) \/ RestoreCommit(w)
                \/ \E p \in Purchases : UploadRead(w, p) \/ CancelRead(w, p)
                \/ UploadStore(w) \/ UploadCommit(w) \/ CancelCommit(w)

AdminStep(w) == \/ \E p \in Purchases : ApproveRead(w, p) \/ RejectRead(w, p)
                \/ ApproveLoad(w) \/ ApproveCommit(w) \/ RejectCommit(w)
                \/ \E u \in Users : RolesRead(w, u)
                \/ RolesCommit(w)

SubscriptionStep(w) == \/ \E u \in Users : SubscribeRead(w, u) \/ UnsubscribeRead(w, u)
                       \/ SubscribeCommit(w) \/ UnsubscribeCommit(w)

Next == \/ \E w \in Workers : \/ BuyerStep(w) \/ AdminStep(w) \/ SubscriptionStep(w)
                              \/ Abort(w)
        \/ UpdatePackage

Spec == Init /\ [][Next]_vars

-------------------------------------------------------------------------------
(* What holds however requests interleave.                                 *)

\* Every variable stays within the columns of its table.
TypeOK == /\ purchases \in [Purchases -> TeacherPurchase]
          /\ users \in [Users -> User]
          /\ package \in BOOLEAN
          /\ requests \in [Workers -> Request]
          /\ overlapped \in BOOLEAN

\* "a role could be granted with no verifiable proof of payment": whatever is
\* reviewed, or was, has its receipt on disk, also after a failed upload.
ProofOnFile ==
    \A p \in Purchases : purchases[p].status \in {"waiting_for_review", "completed", "rejected"}
                           => purchases[p].receipt /\ purchases[p].file

\* A completed purchase verified its buyer, so that a lost role can be restored
\* without another payment.
CompletedIsVerified ==
    \A p \in Purchases : purchases[p].status = "completed" => users[Buyer[p]].verified

-------------------------------------------------------------------------------
(* What holds as long as requests do not overlap.                          *)

\* An open purchase is returned instead of creating another.
OneOpenPurchase ==
    ~overlapped => \A u \in Users : Cardinality(OpenPurchases(u)) <= 1

\* The package is bought once: who lost the role gets it back for nothing.
PaysOnce == ~overlapped => \A u \in Users : Cardinality(CompletedPurchases(u)) <= 1

\* What the package promises its buyer and its seller (purchase_teacher_package, the
\* review): proof before a review, a lasting verification, nothing bought twice.
PurchaseRules == ProofOnFile /\ CompletedIsVerified /\ OneOpenPurchase /\ PaysOnce

\* A purchase is a payment of PaymentLifecycle that is approved by completing it.
Lifecycle == INSTANCE PaymentLifecycle
                 WITH Payments <- Purchases,
                      status <- [p \in Purchases |->
                                   IF purchases[p].status = "completed" THEN "approved"
                                   ELSE purchases[p].status],
                      grants <- [p \in Purchases |->
                                   IF purchases[p].status = "completed" THEN 1 ELSE 0]

\* "Follows the same manual-card-transfer + receipt + admin-review flow as the
\* rest of billing": every step is a step of that lifecycle.
SameFlowAsPayments ==
    Lifecycle!LifecycleInit
    /\ [][overlapped' \/ [Lifecycle!LifecycleNext]_(Lifecycle!lifecycleVars)]_vars
===============================================================================
