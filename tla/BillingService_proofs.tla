------------------------ MODULE BillingService_proofs -------------------------
(***************************************************************************)
(* Theorems about the two halves of billing/service.py: TeacherPackage,    *)
(* for any number of users, purchases and overlapping requests, and        *)
(* Catalog, for any rows, customers and overlapping requests.  The two     *)
(* share no variable, and no proof about one uses the other.               *)
(***************************************************************************)
EXTENDS TeacherPackage, Catalog, FiniteSetTheorems, TLAPS

-------------------------------------------------------------------------------
(* TeacherPackage: what holds whatever overlaps.                           *)

Paid(p) == purchases[p].receipt /\ purchases[p].file

\* What a request in flight may rely on although its rows move underneath it: whom it
\* is about, and that a receipt once stored is never taken back.
RequestOK(r) ==
    /\ r.op \in {"purchase", "restore", "create", "roles", "subscribe", "unsubscribe"}
          => r.user \in Users
    /\ r.op \in {"upload", "store", "cancel", "reject"} => r.purchase \in Purchases
    /\ r.op \in {"approve", "grant"} => /\ r.purchase \in Purchases
                                        /\ r.user = Buyer[r.purchase]
    /\ r.op = "store" => purchases[r.purchase].file
    /\ r.op \in {"approve", "grant", "reject"} => Paid(r.purchase)

Rows == /\ TypeOK
        /\ \A w \in Workers : RequestOK(requests[w])
        /\ ProofOnFile
        /\ CompletedIsVerified

\* Receipts and verifications stay.
RowsAdvance ==
    /\ \A p \in Purchases : /\ purchases[p].file => purchases'[p].file
                            /\ purchases[p].receipt => purchases'[p].receipt
    /\ \A u \in Users : users[u].verified => users'[u].verified

TablesOK == /\ purchases \in [Purchases -> TeacherPurchase]
            /\ users \in [Users -> User]
            /\ package \in BOOLEAN
            /\ ProofOnFile
            /\ CompletedIsVerified

LEMMA IdleOK == Idle \in Request /\ RequestOK(Idle) /\ RequestOK(Idle)'
<1>1. NewUser \in User
  BY DEF NewUser, User, Tiers
<1>2. Idle \in Request
  BY ZenonT(30), <1>1 DEF Idle, Request
<1> QED BY <1>2 DEF Idle, RequestOK

LEMMA RequestSurvives ==
  ASSUME Rows, RowsAdvance, NEW r \in Request, RequestOK(r)
  PROVE  RequestOK(r)'
  BY DEF RequestOK, RowsAdvance, Request, Paid

LEMMA InitRows == Init => Rows
<1> SUFFICES ASSUME Init PROVE Rows
  OBVIOUS
<1>1. NoPurchase \in TeacherPurchase /\ NewUser \in User
  BY DEF NoPurchase, TeacherPurchase, NewUser, User, Tiers
<1>2. TypeOK
  BY <1>1, IdleOK DEF Init, TypeOK
<1>3. \A w \in Workers : RequestOK(requests[w])
  BY IdleOK DEF Init
<1>4. ProofOnFile /\ CompletedIsVerified
  BY DEF Init, ProofOnFile, CompletedIsVerified, NoPurchase
<1> QED BY <1>2, <1>3, <1>4 DEF Rows

\* Tables that are in order and rows that advance keep everything in order.
LEMMA RowsStep ==
  ASSUME Rows, RowsAdvance, TablesOK', overlapped' \in BOOLEAN, NEW w \in Workers,
         NEW r \in Request, RequestOK(r)', requests' = [requests EXCEPT ![w] = r]
  PROVE  Rows'
<1>1. requests' \in [Workers -> Request]
  BY DEF Rows, TypeOK
<1>2. ASSUME NEW v \in Workers PROVE RequestOK(requests[v])'
  <2>1. PICK q : q = requests[v]
    OBVIOUS
  <2>2. q \in Request /\ RequestOK(q)
    BY <2>1 DEF Rows, TypeOK
  <2>3. RequestOK(q)'
    BY <2>2, RequestSurvives
  <2>4. requests'[v] = r \/ requests'[v] = q
    BY <2>1 DEF Rows, TypeOK
  <2> QED BY <2>3, <2>4
<1> QED BY <1>1, <1>2 DEF Rows, TypeOK, TablesOK

LEMMA TablesKept ==
  ASSUME Rows, UNCHANGED <<purchases, users, package>>
  PROVE  TablesOK' /\ RowsAdvance
  BY DEF Rows, TypeOK, TablesOK, RowsAdvance, ProofOnFile, CompletedIsVerified

LEMMA BeginKeeps ==
  ASSUME Rows, NEW w \in Workers, NEW r \in Request, RequestOK(r), Begin(w, r)
  PROVE  Rows'
<1>1. TablesOK' /\ RowsAdvance
  BY TablesKept DEF Begin
<1>2. overlapped' \in BOOLEAN
  BY ZenonT(30) DEF Begin, Rows, TypeOK
<1> QED BY <1>1, <1>2, RequestSurvives, RowsStep DEF Begin

LEMMA ContinueKeeps ==
  ASSUME Rows, RowsAdvance, TablesOK', NEW w \in Workers, NEW r \in Request, RequestOK(r)',
         Continue(w, r)
  PROVE  Rows'
<1>1. overlapped' \in BOOLEAN
  BY DEF Continue, Rows, TypeOK
<1> QED BY <1>1, RowsStep DEF Continue

LEMMA FinishKeeps ==
  ASSUME Rows, RowsAdvance, TablesOK', NEW w \in Workers, Finish(w)
  PROVE  Rows'
  BY IdleOK, ContinueKeeps DEF Finish

\* The requests, as they are when they begin.
LEMMA Begun ==
  ASSUME Rows, NEW w \in Workers,
         \/ \E u \in Users : \/ PurchaseRead(w, u) \/ RolesRead(w, u)
                             \/ SubscribeRead(w, u) \/ UnsubscribeRead(w, u)
         \/ \E p \in Purchases : \/ UploadRead(w, p) \/ CancelRead(w, p)
                                 \/ ApproveRead(w, p) \/ RejectRead(w, p)
  PROVE  \E r \in Request : Begin(w, r) /\ RequestOK(r)
<1>1. ASSUME NEW u \in Users, NEW op \in {"purchase", "subscribe", "unsubscribe"},
             Begin(w, [Idle EXCEPT !.op = op, !.user = u, !.loaded = users[u]])
      PROVE  \E r \in Request : Begin(w, r) /\ RequestOK(r)
  <2>1. users[u] \in User
    BY DEF Rows, TypeOK
  <2> DEFINE r == [Idle EXCEPT !.op = op, !.user = u, !.loaded = users[u]]
  <2>2. r \in Request
    BY ZenonT(30), <2>1, IdleOK DEF Request
  <2>3. RequestOK(r)
    BY DEF RequestOK, Idle
  <2> QED BY <1>1, <2>2, <2>3
<1>2. ASSUME NEW p \in Purchases, NEW op \in {"upload", "cancel", "reject"},
             op = "reject" => Paid(p), Begin(w, [Idle EXCEPT !.op = op, !.purchase = p])
      PROVE  \E r \in Request : Begin(w, r) /\ RequestOK(r)
  <2> DEFINE r == [Idle EXCEPT !.op = op, !.purchase = p]
  <2>1. r \in Request
    BY ZenonT(30), IdleOK DEF Request
  <2>2. RequestOK(r)
    BY <1>2 DEF RequestOK, Idle
  <2> QED BY <1>2, <2>1, <2>2
<1>3. ASSUME NEW u \in Users, RolesRead(w, u)
      PROVE  \E r \in Request : Begin(w, r) /\ RequestOK(r)
  <2>1. PICK teacher \in BOOLEAN :
           Begin(w, [Idle EXCEPT !.op = "roles", !.user = u, !.loaded = users[u],
                                 !.assigned = teacher])
    BY <1>3 DEF RolesRead
  <2> DEFINE r == [Idle EXCEPT !.op = "roles", !.user = u, !.loaded = users[u],
                               !.assigned = teacher]
  <2>2. users[u] \in User
    BY DEF Rows, TypeOK
  <2>3. r \in Request
    BY ZenonT(30), <2>2, IdleOK DEF Request
  <2>4. RequestOK(r)
    BY DEF RequestOK, Idle
  <2> QED BY <2>1, <2>3, <2>4
<1>4. ASSUME NEW p \in Purchases, ApproveRead(w, p)
      PROVE  \E r \in Request : Begin(w, r) /\ RequestOK(r)
  <2> DEFINE r == [Idle EXCEPT !.op = "approve", !.purchase = p, !.user = Buyer[p]]
  <2>1. Buyer[p] \in Users
    BY ConstantsAssumption
  <2>2. r \in Request
    BY ZenonT(30), <2>1, IdleOK DEF Request
  <2>3. Paid(p)
    BY <1>4 DEF ApproveRead, Rows, ProofOnFile, Paid
  <2>4. RequestOK(r)
    BY <2>3 DEF RequestOK, Idle
  <2> QED BY <1>4, <2>2, <2>4 DEF ApproveRead
<1>5. ASSUME NEW p \in Purchases, RejectRead(w, p) PROVE Paid(p)
  BY <1>5 DEF RejectRead, Rows, ProofOnFile, Paid
<1> QED BY <1>1, <1>2, <1>3, <1>4, <1>5
     DEF PurchaseRead, SubscribeRead, UnsubscribeRead, UploadRead, CancelRead, RejectRead

-------------------------------------------------------------------------------
(* Steps of a request.                                                     *)

UsersAdvance == /\ users' \in [Users -> User]
                /\ \A u \in Users : users[u].verified => users'[u].verified

LEMMA PurchaseMoves ==
  ASSUME Rows, UsersAdvance, package' = package, NEW p \in Purchases, NEW s \in PurchaseStatus,
         SetStatus(p, s), s \in {"waiting_for_review", "completed", "rejected"} => Paid(p),
         s = "completed" => users'[Buyer[p]].verified
  PROVE  TablesOK' /\ RowsAdvance
<1>1. /\ purchases' \in [Purchases -> TeacherPurchase]
      /\ \A q \in Purchases : /\ purchases'[q].file = purchases[q].file
                              /\ purchases'[q].receipt = purchases[q].receipt
                              /\ purchases'[q].status = IF q = p THEN s
                                                        ELSE purchases[q].status
  BY DEF Rows, TypeOK, SetStatus, TeacherPurchase
<1>2. ProofOnFile'
  BY <1>1 DEF Rows, ProofOnFile, Paid
<1>3. CompletedIsVerified'
  BY <1>1, ConstantsAssumption DEF Rows, CompletedIsVerified, UsersAdvance
<1> QED BY <1>1, <1>2, <1>3 DEF TablesOK, RowsAdvance, UsersAdvance, Rows, TypeOK

LEMMA UsersMove ==
  ASSUME Rows, UsersAdvance, UNCHANGED <<purchases, package>>
  PROVE  TablesOK' /\ RowsAdvance
<1>1. ProofOnFile'
  BY DEF Rows, ProofOnFile
<1>2. CompletedIsVerified'
  BY ConstantsAssumption DEF Rows, CompletedIsVerified, UsersAdvance
<1> QED BY <1>1, <1>2 DEF TablesOK, RowsAdvance, UsersAdvance, Rows, TypeOK

\* _grant_teacher_role verifies its user, and takes nothing from any other.
LEMMA GrantAdvances ==
  ASSUME Rows, NEW u \in Users, NEW l \in User, Grant(u, l)
  PROVE  UsersAdvance /\ users'[u].verified
<1>1. users[u] \in User
  BY DEF Rows, TypeOK
<1>2. PICK t \in BOOLEAN, i \in Tiers :
         users' = [users EXCEPT ![u].teacher = t, ![u].verified = TRUE, ![u].tier = i]
  <2>1. (users[u].teacher \/ ~l.teacher) \in BOOLEAN
    OBVIOUS
  <2>2. (IF l.tier = "FREE" THEN "TEACHER" ELSE users[u].tier) \in Tiers
    BY <1>1 DEF Tiers, User
  <2> QED BY <2>1, <2>2 DEF Grant, Rows, TypeOK, User
<1>3. users' \in [Users -> User] /\ users'[u].verified
  BY <1>2 DEF Rows, TypeOK, User
<1>4. \A x \in Users : x # u => users'[x] = users[x]
  BY <1>2 DEF Rows, TypeOK
<1> QED BY <1>3, <1>4 DEF UsersAdvance

LEMMA BuyerStepKeeps ==
  ASSUME Rows, NEW w \in Workers, BuyerStep(w)
  PROVE  Rows'
<1>1. PICK r : r = requests[w]
  OBVIOUS
<1>2. r \in Request /\ RequestOK(r)
  BY <1>1 DEF Rows, TypeOK
<1>3. CASE PurchaseLookup(w)
  <2>1. r.op = "purchase"
    BY <1>1, <1>3 DEF PurchaseLookup
  <2>2. TablesOK' /\ RowsAdvance
    BY <1>3, TablesKept DEF PurchaseLookup
  <2>3. ASSUME NEW op \in {"restore", "create"} , Continue(w, [r EXCEPT !.op = op])
        PROVE  Rows'
    <3>1. [r EXCEPT !.op = op] \in Request
      BY ZenonT(30), <1>2 DEF Request
    <3>2. RequestOK([r EXCEPT !.op = op])'
      BY <1>2, <2>1 DEF RequestOK, Request
    <3> QED BY <2>2, <2>3, <3>1, <3>2, ContinueKeeps
  <2> QED BY <1>1, <1>3, <2>2, <2>3, FinishKeeps DEF PurchaseLookup
<1>4. CASE CreateCommit(w)
  <2>1. PICK p \in Purchases : SetStatus(p, "pending")
    BY <1>4 DEF CreateCommit
  <2>2. UsersAdvance
    BY <1>4 DEF CreateCommit, UsersAdvance, Rows, TypeOK
  <2>3. TablesOK' /\ RowsAdvance
    BY <1>4, <2>1, <2>2, PurchaseMoves DEF CreateCommit, PurchaseStatus
  <2> QED BY <1>4, <2>3, FinishKeeps DEF CreateCommit
<1>5. CASE RestoreCommit(w)
  <2>1. r.op = "restore" /\ r.user \in Users /\ r.loaded \in User
    BY <1>1, <1>2, <1>5 DEF RestoreCommit, RequestOK, Request
  <2>2. Grant(r.user, r.loaded) /\ UNCHANGED <<purchases, package>>
    BY <1>1, <1>5 DEF RestoreCommit
  <2>3. TablesOK' /\ RowsAdvance
    BY <2>1, <2>2, GrantAdvances, UsersMove
  <2> QED BY <1>5, <2>3, FinishKeeps DEF RestoreCommit
<1>6. CASE UploadStore(w)
  <2>1. r.op = "upload" /\ r.purchase \in Purchases
    BY <1>1, <1>2, <1>6 DEF UploadStore, RequestOK
  <2>2. /\ purchases' = [purchases EXCEPT ![r.purchase].file = TRUE]
        /\ UNCHANGED <<users, package>> /\ Continue(w, [r EXCEPT !.op = "store"])
    BY <1>1, <1>6 DEF UploadStore
  <2>3. /\ purchases' \in [Purchases -> TeacherPurchase]
        /\ purchases'[r.purchase].file
        /\ \A q \in Purchases : /\ purchases[q].file => purchases'[q].file
                                /\ purchases'[q].receipt = purchases[q].receipt
                                /\ purchases'[q].status = purchases[q].status
    BY <2>1, <2>2 DEF Rows, TypeOK, TeacherPurchase
  <2>4. TablesOK' /\ RowsAdvance
    BY <2>2, <2>3 DEF TablesOK, RowsAdvance, Rows, TypeOK, ProofOnFile, CompletedIsVerified
  <2>5. [r EXCEPT !.op = "store"] \in Request
    BY ZenonT(30), <1>2 DEF Request
  <2>6. RequestOK([r EXCEPT !.op = "store"])'
    BY <1>2, <2>1, <2>3 DEF RequestOK, Request
  <2> QED BY <2>2, <2>4, <2>5, <2>6, ContinueKeeps
<1>7. CASE UploadCommit(w)
  <2>1. r.op = "store" /\ r.purchase \in Purchases /\ purchases[r.purchase].file
    BY <1>1, <1>2, <1>7 DEF UploadCommit, RequestOK
  <2>2. /\ purchases' = [purchases EXCEPT ![r.purchase].status = "waiting_for_review",
                                          ![r.purchase].receipt = TRUE]
        /\ UNCHANGED <<users, package>>
    BY <1>1, <1>7 DEF UploadCommit
  <2>3. /\ purchases' \in [Purchases -> TeacherPurchase]
        /\ purchases'[r.purchase].status = "waiting_for_review"
        /\ purchases'[r.purchase].file /\ purchases'[r.purchase].receipt
        /\ \A q \in Purchases \ {r.purchase} : purchases'[q] = purchases[q]
    BY <2>1, <2>2 DEF Rows, TypeOK, TeacherPurchase, PurchaseStatus
  <2>4. RowsAdvance
    BY <2>2, <2>3 DEF RowsAdvance
  <2>5. ProofOnFile' /\ CompletedIsVerified'
    BY <2>2, <2>3 DEF Rows, ProofOnFile, CompletedIsVerified
  <2>6. TablesOK'
    BY <2>2, <2>3, <2>5 DEF TablesOK, Rows, TypeOK
  <2> QED BY <1>7, <2>4, <2>6, FinishKeeps DEF UploadCommit
<1>8. CASE CancelCommit(w)
  <2>1. r.op = "cancel" /\ r.purchase \in Purchases
    BY <1>1, <1>2, <1>8 DEF CancelCommit, RequestOK
  <2>2. SetStatus(r.purchase, "cancelled") /\ UNCHANGED <<users, package>>
    BY <1>1, <1>8 DEF CancelCommit
  <2>3. UsersAdvance
    BY <2>2 DEF UsersAdvance, Rows, TypeOK
  <2>4. TablesOK' /\ RowsAdvance
    BY <2>1, <2>2, <2>3, PurchaseMoves DEF PurchaseStatus
  <2> QED BY <1>8, <2>4, FinishKeeps DEF CancelCommit
<1> QED BY <1>3, <1>4, <1>5, <1>6, <1>7, <1>8, Begun, BeginKeeps DEF BuyerStep

LEMMA AdminStepKeeps ==
  ASSUME Rows, NEW w \in Workers, AdminStep(w)
  PROVE  Rows'
<1>1. PICK r : r = requests[w]
  OBVIOUS
<1>2. r \in Request /\ RequestOK(r)
  BY <1>1 DEF Rows, TypeOK
<1>3. CASE ApproveLoad(w)
  <2>1. PICK l : l = users[r.user]
    OBVIOUS
  <2>2. r.op = "approve" /\ r.user \in Users
    BY <1>1, <1>2, <1>3, ConstantsAssumption DEF ApproveLoad, RequestOK
  <2>3. l \in User
    BY <2>1, <2>2 DEF Rows, TypeOK
  <2>4. TablesOK' /\ RowsAdvance
    BY <1>3, TablesKept DEF ApproveLoad
  <2>5. [r EXCEPT !.op = "grant", !.loaded = l] \in Request
    BY ZenonT(30), <1>2, <2>3 DEF Request
  <2>6. RequestOK([r EXCEPT !.op = "grant", !.loaded = l])'
    <3>1. RequestOK([r EXCEPT !.op = "grant", !.loaded = l])
      BY <1>2, <2>2 DEF RequestOK, Request
    <3> QED BY <2>4, <2>5, <3>1, RequestSurvives
  <2> QED BY <1>1, <1>3, <2>1, <2>4, <2>5, <2>6, ContinueKeeps DEF ApproveLoad
<1>4. CASE ApproveCommit(w)
  <2>1. /\ r.op = "grant" /\ r.purchase \in Purchases /\ r.user = Buyer[r.purchase]
        /\ Paid(r.purchase) /\ r.loaded \in User
    BY <1>1, <1>2, <1>4 DEF ApproveCommit, RequestOK, Request
  <2>2. Grant(r.user, r.loaded) /\ SetStatus(r.purchase, "completed") /\ package' = package
    BY <1>1, <1>4 DEF ApproveCommit
  <2>3. UsersAdvance /\ users'[Buyer[r.purchase]].verified
    BY <2>1, <2>2, GrantAdvances, ConstantsAssumption
  <2>4. TablesOK' /\ RowsAdvance
    BY <2>1, <2>2, <2>3, PurchaseMoves DEF PurchaseStatus
  <2> QED BY <1>4, <2>4, FinishKeeps DEF ApproveCommit
<1>5. CASE RejectCommit(w)
  <2>1. r.op = "reject" /\ r.purchase \in Purchases /\ Paid(r.purchase)
    BY <1>1, <1>2, <1>5 DEF RejectCommit, RequestOK
  <2>2. SetStatus(r.purchase, "rejected") /\ UNCHANGED <<users, package>>
    BY <1>1, <1>5 DEF RejectCommit
  <2>3. UsersAdvance
    BY <2>2 DEF UsersAdvance, Rows, TypeOK
  <2>4. TablesOK' /\ RowsAdvance
    BY <2>1, <2>2, <2>3, PurchaseMoves DEF PurchaseStatus
  <2> QED BY <1>5, <2>4, FinishKeeps DEF RejectCommit
<1>6. CASE RolesCommit(w)
  <2>1. r.op = "roles" /\ r.user \in Users /\ r.assigned \in BOOLEAN
    BY <1>1, <1>2, <1>6 DEF RolesCommit, RequestOK, Request
  <2>2. /\ UNCHANGED users \/ users' = [users EXCEPT ![r.user].teacher = r.assigned]
        /\ UNCHANGED <<purchases, package>>
    BY <1>1, <1>6 DEF RolesCommit
  <2>3. UsersAdvance
    <3>1. CASE UNCHANGED users
      BY <3>1 DEF UsersAdvance, Rows, TypeOK
    <3>2. CASE users' = [users EXCEPT ![r.user].teacher = r.assigned]
      <4>1. \A u \in Users : users'[u].verified = users[u].verified
        BY <2>1, <3>2 DEF Rows, TypeOK, User
      <4>2. users' \in [Users -> User]
        BY <2>1, <3>2 DEF Rows, TypeOK, User
      <4> QED BY <4>1, <4>2 DEF UsersAdvance
    <3> QED BY <2>2, <3>1, <3>2
  <2>4. TablesOK' /\ RowsAdvance
    BY <2>2, <2>3, UsersMove
  <2> QED BY <1>6, <2>4, FinishKeeps DEF RolesCommit
<1> QED BY <1>3, <1>4, <1>5, <1>6, Begun, BeginKeeps DEF AdminStep

LEMMA SubscriptionStepKeeps ==
  ASSUME Rows, NEW w \in Workers, SubscriptionStep(w)
  PROVE  Rows'
<1>1. PICK r : r = requests[w]
  OBVIOUS
<1>2. r \in Request /\ RequestOK(r)
  BY <1>1 DEF Rows, TypeOK
<1>3. CASE SubscribeCommit(w) \/ UnsubscribeCommit(w)
  <2>1. r.op \in {"subscribe", "unsubscribe"} /\ r.user \in Users
    BY <1>1, <1>2, <1>3 DEF SubscribeCommit, UnsubscribeCommit, RequestOK
  <2>2. ASSUME NEW t \in Tiers PROVE Assign(r, t) \in Tiers
    BY <2>1 DEF Assign, Rows, TypeOK, User
  <2>3. PICK i \in Tiers, s \in BOOLEAN :
           users' = [users EXCEPT ![r.user].tier = i, ![r.user].subscribed = s]
    <3>1. CASE SubscribeCommit(w)
      <4>1. PICK t \in {"FREE", "PRO"} :
               users' = [users EXCEPT ![r.user].tier = Assign(r, t),
                                      ![r.user].subscribed = TRUE]
        BY <1>1, <3>1 DEF SubscribeCommit
      <4> QED BY <2>2, <4>1 DEF Tiers
    <3>2. CASE UnsubscribeCommit(w)
      <4>1. users' = [users EXCEPT ![r.user].tier = Assign(r, "FREE"),
                                   ![r.user].subscribed = FALSE]
        BY <1>1, <3>2 DEF UnsubscribeCommit
      <4> QED BY <2>2, <4>1 DEF Tiers
    <3> QED BY <1>3, <3>1, <3>2
  <2>4. UsersAdvance
    <3>1. users' \in [Users -> User]
      BY <2>1, <2>3 DEF Rows, TypeOK, User
    <3>2. \A u \in Users : users'[u].verified = users[u].verified
      BY <2>1, <2>3 DEF Rows, TypeOK, User
    <3> QED BY <3>1, <3>2 DEF UsersAdvance
  <2>5. TablesOK' /\ RowsAdvance
    BY <1>3, <2>4, UsersMove DEF SubscribeCommit, UnsubscribeCommit
  <2> QED BY <1>3, <2>5, FinishKeeps DEF SubscribeCommit, UnsubscribeCommit
<1> QED BY <1>3, Begun, BeginKeeps DEF SubscriptionStep

LEMMA NextKeepsRows == Rows /\ [Next]_vars => Rows'
<1> SUFFICES ASSUME Rows, [Next]_vars PROVE Rows'
  OBVIOUS
<1>1. ASSUME NEW w \in Workers, Abort(w) PROVE Rows'
  BY <1>1, TablesKept, FinishKeeps DEF Abort
<1>2. CASE UpdatePackage
  BY <1>2 DEF UpdatePackage, Rows, TypeOK, RequestOK, Paid, ProofOnFile, CompletedIsVerified
<1>3. CASE UNCHANGED vars
  BY <1>3 DEF vars, Rows, TypeOK, RequestOK, Paid, ProofOnFile, CompletedIsVerified
<1> QED BY <1>1, <1>2, <1>3, BuyerStepKeeps, AdminStepKeeps, SubscriptionStepKeeps DEF Next

LEMMA RowsInvariant == Spec => []Rows
  BY InitRows, NextKeepsRows, PTL DEF Spec

\* Rows are well formed, and every request is about a purchase and its own buyer,
\* whatever order requests on the package are served in (billing/models.py).
THEOREM TypeCorrect == Spec => []TypeOK
<1>1. Rows => TypeOK
  BY DEF Rows
<1> QED BY <1>1, RowsInvariant, PTL

-------------------------------------------------------------------------------
(* TeacherPackage: requests that are served one at a time.                 *)

\* Open, or paid for.
Live(p) == Open(p) \/ purchases[p].status = "completed"

OneLive == \A p, q \in Purchases : Live(p) /\ Live(q) /\ Buyer[p] = Buyer[q] => p = q

\* What a request has read is still so when nothing came between.
Fresh(r) ==
    /\ r.op = "purchase" => r.loaded = users[r.user]
    /\ r.op = "create" => \A p \in Purchases : Buyer[p] = r.user => ~Live(p)
    /\ r.op \in {"upload", "store"} => purchases[r.purchase].status = "pending"
    /\ r.op = "cancel" => Open(r.purchase)
    /\ r.op \in {"approve", "grant", "reject"}
          => purchases[r.purchase].status = "waiting_for_review"

Serial ==
    ~overlapped =>
        /\ \A v, w \in Workers : requests[v].op # "idle" /\ requests[w].op # "idle" => v = w
        /\ \A w \in Workers : Fresh(requests[w])
        /\ OneLive

LEMMA IdleFresh == Fresh(Idle) /\ Fresh(Idle)'
  BY DEF Fresh, Idle

LEMMA InitSerial == Init => Serial
<1> SUFFICES ASSUME Init PROVE Serial
  OBVIOUS
<1>1. \A w \in Workers : requests[w] = Idle
  BY DEF Init
<1>2. OneLive
  BY DEF Init, OneLive, Live, Open, NoPurchase
<1>3. \A w \in Workers : requests[w].op = "idle"
  BY <1>1 DEF Idle
<1> QED BY <1>1, <1>2, <1>3, IdleFresh DEF Serial

\* A request that begins alone or goes on alone, with what it has read still so.
LEMMA SerialStep ==
  ASSUME Rows, Serial, NEW w \in Workers, NEW r,
         requests' = [requests EXCEPT ![w] = r],
         ~overlapped' => /\ ~overlapped /\ Fresh(r)' /\ OneLive'
                         /\ \A v \in Workers \ {w} : requests[v].op = "idle"
  PROVE  Serial'
<1> SUFFICES ASSUME ~overlapped'
             PROVE  /\ \A v, x \in Workers : requests'[v].op # "idle" /\ requests'[x].op # "idle"
                                                => v = x
                    /\ \A v \in Workers : Fresh(requests[v])'
                    /\ OneLive'
  BY DEF Serial
<1>1. \A v \in Workers : requests'[v] = IF v = w THEN r ELSE requests[v]
  BY DEF Rows, TypeOK
<1>2. \A v \in Workers \ {w} : requests'[v].op = "idle"
  BY <1>1
<1>3. ASSUME NEW v \in Workers PROVE Fresh(requests[v])'
  <2>1. CASE v = w
    BY <1>1, <2>1
  <2>2. CASE v # w
    BY <1>2, <2>2 DEF Fresh
  <2> QED BY <2>1, <2>2
<1> QED BY <1>2, <1>3

LEMMA BeginSerial ==
  ASSUME Rows, Serial, NEW w \in Workers, NEW r, Begin(w, r), Fresh(r)
  PROVE  Serial'
<1>1. ASSUME ~overlapped'
      PROVE  ~overlapped /\ \A v \in Workers : requests[v].op = "idle"
  BY <1>1 DEF Begin
<1>2. Fresh(r)'
  BY DEF Begin, Fresh, Live, Open
<1>3. ~overlapped => OneLive'
  BY DEF Begin, Serial, OneLive, Live, Open
<1> QED BY <1>1, <1>2, <1>3, SerialStep DEF Begin

LEMMA ContinueSerial ==
  ASSUME Rows, Serial, NEW w \in Workers, requests[w].op # "idle", NEW r, Continue(w, r),
         ~overlapped => Fresh(r)' /\ OneLive'
  PROVE  Serial'
<1>1. ~overlapped => \A v \in Workers \ {w} : requests[v].op = "idle"
  BY DEF Serial
<1> QED BY <1>1, SerialStep DEF Continue

LEMMA FinishSerial ==
  ASSUME Rows, Serial, NEW w \in Workers, requests[w].op # "idle", Finish(w),
         ~overlapped => OneLive'
  PROVE  Serial'
  BY IdleFresh, ContinueSerial DEF Finish

\* No purchase comes to life.
LEMMA FewerLive ==
  ASSUME Rows, Serial, ~overlapped, \A p \in Purchases : Live(p)' => Live(p)
  PROVE  OneLive'
  BY DEF Serial, OneLive

LEMMA BegunFresh ==
  ASSUME Rows, NEW w \in Workers,
         \/ \E u \in Users : \/ PurchaseRead(w, u) \/ RolesRead(w, u)
                             \/ SubscribeRead(w, u) \/ UnsubscribeRead(w, u)
         \/ \E p \in Purchases : \/ UploadRead(w, p) \/ CancelRead(w, p)
                                 \/ ApproveRead(w, p) \/ RejectRead(w, p)
  PROVE  \E r : Begin(w, r) /\ Fresh(r)
<1>1. ASSUME NEW u \in Users, PurchaseRead(w, u) PROVE \E r : Begin(w, r) /\ Fresh(r)
  <2> DEFINE r == [Idle EXCEPT !.op = "purchase", !.user = u, !.loaded = users[u]]
  <2>1. Begin(w, r)
    BY <1>1 DEF PurchaseRead
  <2>2. Fresh(r)
    BY DEF Fresh, Idle
  <2> QED BY <2>1, <2>2
<1>2. ASSUME NEW u \in Users, NEW op \in {"subscribe", "unsubscribe"},
             Begin(w, [Idle EXCEPT !.op = op, !.user = u, !.loaded = users[u]])
      PROVE  \E r : Begin(w, r) /\ Fresh(r)
  <2> DEFINE r == [Idle EXCEPT !.op = op, !.user = u, !.loaded = users[u]]
  <2>1. Fresh(r)
    BY DEF Fresh, Idle
  <2> QED BY <1>2, <2>1
<1>3. ASSUME NEW u \in Users, RolesRead(w, u) PROVE \E r : Begin(w, r) /\ Fresh(r)
  <2>1. PICK teacher \in BOOLEAN :
           Begin(w, [Idle EXCEPT !.op = "roles", !.user = u, !.loaded = users[u],
                                 !.assigned = teacher])
    BY <1>3 DEF RolesRead
  <2> DEFINE r == [Idle EXCEPT !.op = "roles", !.user = u, !.loaded = users[u],
                               !.assigned = teacher]
  <2>2. Fresh(r)
    BY DEF Fresh, Idle
  <2> QED BY <2>1, <2>2
<1>4. ASSUME NEW p \in Purchases, NEW op \in {"upload", "cancel", "reject"},
             purchases[p].status = CASE op = "upload" -> "pending"
                                     [] op = "reject" -> "waiting_for_review"
                                     [] OTHER -> purchases[p].status,
             Open(p), Begin(w, [Idle EXCEPT !.op = op, !.purchase = p])
      PROVE  \E r : Begin(w, r) /\ Fresh(r)
  <2> DEFINE r == [Idle EXCEPT !.op = op, !.purchase = p]
  <2>1. Fresh(r)
    BY <1>4 DEF Fresh, Idle
  <2> QED BY <1>4, <2>1
<1>5. ASSUME NEW p \in Purchases, ApproveRead(w, p) PROVE \E r : Begin(w, r) /\ Fresh(r)
  <2> DEFINE r == [Idle EXCEPT !.op = "approve", !.purchase = p, !.user = Buyer[p]]
  <2>1. Fresh(r)
    BY <1>5 DEF ApproveRead, Fresh, Idle
  <2> QED BY <1>5, <2>1 DEF ApproveRead
<1> QED BY <1>1, <1>2, <1>3, <1>4, <1>5
     DEF SubscribeRead, UnsubscribeRead, UploadRead, CancelRead, RejectRead, Open

\* What a step makes of the status of a purchase, when requests do not overlap.
Moved(p, from, to) == /\ purchases[p].status \in from
                      /\ purchases'[p].status = to
                      /\ \A q \in Purchases \ {p} : purchases'[q] = purchases[q]

StatusKept == \A p \in Purchases : purchases'[p].status = purchases[p].status

LifecycleStep ==
    \/ StatusKept
    \/ \E p \in Purchases :
          \/ /\ Moved(p, {"absent"}, "pending")
             /\ \A q \in Purchases : Buyer[q] = Buyer[p] => ~Live(q)
          \/ Moved(p, {"pending"}, "waiting_for_review")
          \/ Moved(p, {"pending", "waiting_for_review"}, "cancelled")
          \/ Moved(p, {"waiting_for_review"}, "completed")
          \/ Moved(p, {"waiting_for_review"}, "rejected")

Writes(w) == \/ CreateCommit(w) \/ RestoreCommit(w) \/ UploadStore(w) \/ UploadCommit(w)
             \/ CancelCommit(w) \/ PurchaseLookup(w)
             \/ ApproveLoad(w) \/ ApproveCommit(w) \/ RejectCommit(w) \/ RolesCommit(w)
             \/ SubscribeCommit(w) \/ UnsubscribeCommit(w) \/ Abort(w)

LEMMA WritesFollow ==
  ASSUME Rows, Serial, ~overlapped, NEW w \in Workers, Writes(w)
  PROVE  LifecycleStep
<1>1. PICK r : r = requests[w]
  OBVIOUS
<1>2. r \in Request /\ RequestOK(r) /\ Fresh(r)
  BY <1>1 DEF Rows, TypeOK, Serial
<1>3. ASSUME NEW p \in Purchases, NEW s \in PurchaseStatus, SetStatus(p, s)
      PROVE  /\ purchases'[p].status = s
             /\ \A q \in Purchases \ {p} : purchases'[q] = purchases[q]
  BY <1>3 DEF SetStatus, Rows, TypeOK, TeacherPurchase
<1>4. CASE CreateCommit(w)
  <2>1. PICK p \in Purchases : Buyer[p] = r.user /\ purchases[p].status = "absent"
                               /\ SetStatus(p, "pending")
    BY <1>1, <1>4 DEF CreateCommit
  <2>2. \A q \in Purchases : Buyer[q] = Buyer[p] => ~Live(q)
    BY <1>1, <1>2, <1>4, <2>1 DEF CreateCommit, Fresh
  <2>3. Moved(p, {"absent"}, "pending")
    BY <1>3, <2>1 DEF Moved, PurchaseStatus
  <2> QED BY <2>2, <2>3 DEF LifecycleStep
<1>5. CASE UploadCommit(w)
  <2>1. r.purchase \in Purchases /\ purchases[r.purchase].status = "pending"
    BY <1>1, <1>2, <1>5 DEF UploadCommit, RequestOK, Fresh
  <2>2. purchases' = [purchases EXCEPT ![r.purchase].status = "waiting_for_review",
                                       ![r.purchase].receipt = TRUE]
    BY <1>1, <1>5 DEF UploadCommit
  <2>3. Moved(r.purchase, {"pending"}, "waiting_for_review")
    BY <2>1, <2>2 DEF Moved, Rows, TypeOK, TeacherPurchase
  <2> QED BY <2>1, <2>3 DEF LifecycleStep
<1>6. CASE CancelCommit(w)
  <2>1. r.purchase \in Purchases /\ Open(r.purchase) /\ SetStatus(r.purchase, "cancelled")
    BY <1>1, <1>2, <1>6 DEF CancelCommit, RequestOK, Fresh
  <2>2. Moved(r.purchase, {"pending", "waiting_for_review"}, "cancelled")
    BY <1>3, <2>1 DEF Moved, PurchaseStatus, Open
  <2> QED BY <2>1, <2>2 DEF LifecycleStep
<1>7. CASE ApproveCommit(w)
  <2>1. /\ r.purchase \in Purchases /\ purchases[r.purchase].status = "waiting_for_review"
        /\ SetStatus(r.purchase, "completed")
    BY <1>1, <1>2, <1>7 DEF ApproveCommit, RequestOK, Fresh
  <2>2. Moved(r.purchase, {"waiting_for_review"}, "completed")
    BY <1>3, <2>1 DEF Moved, PurchaseStatus
  <2> QED BY <2>1, <2>2 DEF LifecycleStep
<1>8. CASE RejectCommit(w)
  <2>1. /\ r.purchase \in Purchases /\ purchases[r.purchase].status = "waiting_for_review"
        /\ SetStatus(r.purchase, "rejected")
    BY <1>1, <1>2, <1>8 DEF RejectCommit, RequestOK, Fresh
  <2>2. Moved(r.purchase, {"waiting_for_review"}, "rejected")
    BY <1>3, <2>1 DEF Moved, PurchaseStatus
  <2> QED BY <2>1, <2>2 DEF LifecycleStep
<1>9. CASE UploadStore(w)
  <2>1. r.purchase \in Purchases
    BY <1>1, <1>2, <1>9 DEF UploadStore, RequestOK
  <2>2. purchases' = [purchases EXCEPT ![r.purchase].file = TRUE]
    BY <1>1, <1>9 DEF UploadStore
  <2>3. StatusKept
    BY <2>1, <2>2 DEF StatusKept, Rows, TypeOK, TeacherPurchase
  <2> QED BY <2>3 DEF LifecycleStep
<1>10. CASE \/ RestoreCommit(w) \/ PurchaseLookup(w) \/ ApproveLoad(w) \/ RolesCommit(w)
            \/ SubscribeCommit(w) \/ UnsubscribeCommit(w) \/ Abort(w)
  <2>1. UNCHANGED purchases
    BY <1>10 DEF RestoreCommit, PurchaseLookup, ApproveLoad, RolesCommit, SubscribeCommit,
                 UnsubscribeCommit, Abort
  <2>2. StatusKept
    BY <2>1 DEF StatusKept
  <2> QED BY <2>2 DEF LifecycleStep
<1> QED BY <1>4, <1>5, <1>6, <1>7, <1>8, <1>9, <1>10 DEF Writes

LEMMA LifecycleKeepsOne ==
  ASSUME Rows, Serial, ~overlapped, LifecycleStep
  PROVE  OneLive'
<1>1. CASE StatusKept
  BY <1>1, FewerLive DEF StatusKept, Live, Open
<1>2. ASSUME NEW p \in Purchases, Moved(p, {"absent"}, "pending"),
             \A q \in Purchases : Buyer[q] = Buyer[p] => ~Live(q)
      PROVE  OneLive'
  <2>1. \A q \in Purchases \ {p} : Live(q)' => Live(q) /\ Buyer[q] # Buyer[p]
    BY <1>2 DEF Moved, Live, Open
  <2> QED BY <2>1 DEF Serial, OneLive
<1>3. ASSUME NEW p \in Purchases, Live(p), \A q \in Purchases \ {p} : purchases'[q] = purchases[q]
      PROVE  OneLive'
  BY <1>3, FewerLive DEF Live, Open
<1> QED BY <1>1, <1>2, <1>3 DEF LifecycleStep, Moved, Live, Open

LEMMA WritesKeepSerial ==
  ASSUME Rows, Serial, NEW w \in Workers, Writes(w)
  PROVE  Serial'
<1>1. PICK r : r = requests[w]
  OBVIOUS
<1>2. r \in Request /\ RequestOK(r) /\ (~overlapped => Fresh(r))
  BY <1>1 DEF Rows, TypeOK, Serial
<1>3. ~overlapped => OneLive'
  BY WritesFollow, LifecycleKeepsOne
<1>4. r.op # "idle"
  BY <1>1 DEF Writes, CreateCommit, RestoreCommit, UploadStore, UploadCommit, CancelCommit,
              PurchaseLookup, ApproveLoad, ApproveCommit, RejectCommit, RolesCommit,
              SubscribeCommit, UnsubscribeCommit, Abort
<1>5. CASE PurchaseLookup(w)
  <2>1. ASSUME Continue(w, [r EXCEPT !.op = "restore"]) PROVE Serial'
    <3>1. Fresh([r EXCEPT !.op = "restore"])'
      BY <1>2 DEF Fresh, Request
    <3> QED BY <1>1, <1>3, <1>4, <2>1, <3>1, ContinueSerial
  <2>2. ASSUME Continue(w, [r EXCEPT !.op = "create"]), OpenPurchases(r.user) = {},
               ~(CompletedPurchases(r.user) # {} /\ r.loaded.verified)
        PROVE  Serial'
    <3>1. r.op = "purchase" /\ r.user \in Users /\ UNCHANGED purchases
      BY <1>1, <1>2, <1>5 DEF PurchaseLookup, RequestOK
    <3>2. ASSUME ~overlapped, NEW p \in Purchases, Buyer[p] = r.user PROVE ~Live(p)
      <4>1. r.loaded = users[r.user]
        BY <1>2, <3>1, <3>2 DEF Fresh
      <4>2. ~Open(p)
        BY <2>2, <3>2 DEF OpenPurchases
      <4>3. purchases[p].status # "completed"
        BY <2>2, <3>2, <4>1 DEF CompletedPurchases, Rows, CompletedIsVerified
      <4> QED BY <4>2, <4>3 DEF Live
    <3>3. ~overlapped => Fresh([r EXCEPT !.op = "create"])'
      BY <1>2, <3>1, <3>2 DEF Fresh, Request, Live, Open
    <3> QED BY <1>1, <1>3, <1>4, <2>2, <3>3, ContinueSerial
  <2> QED BY <1>1, <1>3, <1>4, <1>5, <2>1, <2>2, FinishSerial DEF PurchaseLookup
<1>6. CASE UploadStore(w)
  <2>1. r.op = "upload" /\ r.purchase \in Purchases
    BY <1>1, <1>2, <1>6 DEF UploadStore, RequestOK
  <2>2. /\ purchases' = [purchases EXCEPT ![r.purchase].file = TRUE]
        /\ Continue(w, [r EXCEPT !.op = "store"])
    BY <1>1, <1>6 DEF UploadStore
  <2>3. purchases'[r.purchase].status = purchases[r.purchase].status
    BY <2>1, <2>2 DEF Rows, TypeOK, TeacherPurchase
  <2>4. ~overlapped => Fresh([r EXCEPT !.op = "store"])'
    BY <1>2, <2>1, <2>3 DEF Fresh, Request
  <2> QED BY <1>1, <1>3, <1>4, <2>2, <2>4, ContinueSerial
<1>7. CASE ApproveLoad(w)
  <2>1. PICK l : l = users[r.user]
    OBVIOUS
  <2>2. /\ r.op = "approve" /\ UNCHANGED purchases
        /\ Continue(w, [r EXCEPT !.op = "grant", !.loaded = l])
    BY <1>1, <1>7, <2>1 DEF ApproveLoad
  <2>3. ~overlapped => Fresh([r EXCEPT !.op = "grant", !.loaded = l])'
    BY <1>2, <2>2 DEF Fresh, Request
  <2> QED BY <1>1, <1>3, <1>4, <2>2, <2>3, ContinueSerial
<1>8. CASE Finish(w)
  BY <1>1, <1>3, <1>4, <1>8, FinishSerial
<1>9. PurchaseLookup(w) \/ UploadStore(w) \/ ApproveLoad(w) \/ Finish(w)
  BY DEF Writes, CreateCommit, RestoreCommit, UploadCommit, CancelCommit, ApproveCommit,
         RejectCommit, RolesCommit, SubscribeCommit, UnsubscribeCommit, Abort
<1> QED BY <1>5, <1>6, <1>7, <1>8, <1>9

\* Every step begins a request, writes, or leaves the rows and the requests alone.
LEMMA Steps ==
  ASSUME Rows, [Next]_vars
  PROVE  \/ \E w \in Workers : (\E r : Begin(w, r) /\ Fresh(r)) \/ Writes(w)
         \/ UNCHANGED <<purchases, users, requests, overlapped>>
<1>1. ASSUME UpdatePackage \/ UNCHANGED vars
      PROVE  UNCHANGED <<purchases, users, requests, overlapped>>
  BY <1>1 DEF UpdatePackage, vars
<1>2. ASSUME NEW w \in Workers, BuyerStep(w)
      PROVE  (\E r : Begin(w, r) /\ Fresh(r)) \/ Writes(w)
  BY <1>2, BegunFresh DEF BuyerStep, Writes
<1>3. ASSUME NEW w \in Workers, AdminStep(w)
      PROVE  (\E r : Begin(w, r) /\ Fresh(r)) \/ Writes(w)
  BY <1>3, BegunFresh DEF AdminStep, Writes
<1>4. ASSUME NEW w \in Workers, SubscriptionStep(w) \/ Abort(w)
      PROVE  (\E r : Begin(w, r) /\ Fresh(r)) \/ Writes(w)
  BY <1>4, BegunFresh DEF SubscriptionStep, Writes
<1> QED BY <1>1, <1>2, <1>3, <1>4 DEF Next

LEMMA NextKeepsSerial == Rows /\ Serial /\ [Next]_vars => Serial'
<1> SUFFICES ASSUME Rows, Serial, [Next]_vars PROVE Serial'
  OBVIOUS
<1>1. CASE UNCHANGED <<purchases, users, requests, overlapped>>
  BY <1>1 DEF Serial, Fresh, OneLive, Live, Open
<1> QED BY <1>1, Steps, BeginSerial, WritesKeepSerial

LEMMA SerialInvariant == Spec => [](Rows /\ Serial)
<1> DEFINE Inv == Rows /\ Serial
<1>1. Init => Inv
  BY InitRows, InitSerial
<1>2. Inv /\ [Next]_vars => Inv'
  BY NextKeepsRows, NextKeepsSerial
<1> QED BY <1>1, <1>2, PTL DEF Spec

LEMMA AtMostOne ==
  ASSUME NEW S, \A x, y \in S : x = y
  PROVE  Cardinality(S) <= 1
<1>1. CASE S = {}
  BY <1>1, FS_EmptySet
<1>2. ASSUME NEW x \in S PROVE Cardinality(S) <= 1
  <2>1. S = {x}
    OBVIOUS
  <2> QED BY <2>1, FS_Singleton
<1> QED BY <1>1, <1>2

\* Whatever overlaps, nothing is reviewed without its receipt on disk and every completed
\* purchase has verified its buyer; and while requests do not overlap a user has one open
\* purchase and pays once (purchase_teacher_package, the review of a purchase).
THEOREM PackageRules == Spec => []PurchaseRules
<1>1. Rows /\ Serial => PurchaseRules
  <2> SUFFICES ASSUME Rows, Serial PROVE PurchaseRules
    OBVIOUS
  <2>1. ASSUME ~overlapped, NEW u \in Users PROVE Cardinality(OpenPurchases(u)) <= 1
    <3>1. \A p, q \in OpenPurchases(u) : p = q
      BY <2>1 DEF Serial, OneLive, Live, OpenPurchases
    <3> QED BY <3>1, AtMostOne
  <2>2. ASSUME ~overlapped, NEW u \in Users PROVE Cardinality(CompletedPurchases(u)) <= 1
    <3>1. \A p, q \in CompletedPurchases(u) : p = q
      BY <2>2 DEF Serial, OneLive, Live, CompletedPurchases
    <3> QED BY <3>1, AtMostOne
  <2> QED BY <2>1, <2>2 DEF PurchaseRules, OneOpenPurchase, PaysOnce, Rows
<1> QED BY <1>1, SerialInvariant, PTL

-------------------------------------------------------------------------------
(* The lifecycle of a payment.                                             *)

\* A step on a purchase is a step of PaymentLifecycle on the payment it stands for.
LEMMA StepsImplement ==
  ASSUME Rows, Serial, [Next]_vars, ~overlapped'
  PROVE  [Lifecycle!LifecycleNext]_(Lifecycle!lifecycleVars)
<1> DEFINE status == [p \in Purchases |-> IF purchases[p].status = "completed"
                                          THEN "approved" ELSE purchases[p].status]
           grants == [p \in Purchases |-> IF purchases[p].status = "completed"
                                          THEN 1 ELSE 0]
<1>1. CASE StatusKept
  <2>1. status' = status /\ grants' = grants
    BY <1>1 DEF StatusKept
  <2> QED BY <2>1 DEF Lifecycle!lifecycleVars
<1>3. CASE LifecycleStep
  <2>1. ASSUME NEW p \in Purchases, Moved(p, {"absent"}, "pending")
        PROVE  Lifecycle!Open(p)
    <3>1. /\ status[p] \in {"absent"} /\ status' = [status EXCEPT ![p] = "pending"]
          /\ grants' = grants
      BY <2>1 DEF Moved
    <3> QED BY <3>1 DEF Lifecycle!Open, Lifecycle!Move
  <2>2. ASSUME NEW p \in Purchases, Moved(p, {"pending"}, "waiting_for_review")
        PROVE  Lifecycle!SubmitReceipt(p)
    <3>1. /\ status[p] \in {"pending"} /\ status' = [status EXCEPT ![p] = "waiting_for_review"]
          /\ grants' = grants
      BY <2>2 DEF Moved
    <3> QED BY <3>1 DEF Lifecycle!SubmitReceipt, Lifecycle!Move
  <2>3. ASSUME NEW p \in Purchases,
               Moved(p, {"pending", "waiting_for_review"}, "cancelled")
        PROVE  Lifecycle!Cancel(p)
    <3>1. /\ status[p] \in {"pending", "waiting_for_review"}
          /\ status' = [status EXCEPT ![p] = "cancelled"] /\ grants' = grants
      BY <2>3 DEF Moved
    <3> QED BY <3>1 DEF Lifecycle!Cancel, Lifecycle!Move, Lifecycle!PAYMENT_ACTIVE_STATUSES
  <2>4. ASSUME NEW p \in Purchases, Moved(p, {"waiting_for_review"}, "completed")
        PROVE  Lifecycle!Approve(p)
    <3>1. /\ status[p] \in {"waiting_for_review"}
          /\ status' = [status EXCEPT ![p] = "approved"]
          /\ grants' = [grants EXCEPT ![p] = 1] /\ grants[p] = 0
      BY <2>4 DEF Moved
    <3>2. grants' = [grants EXCEPT ![p] = @ + 1]
      <4>1. grants[p] + 1 = 1
        BY <3>1
      <4> HIDE DEF grants
      <4> QED BY <3>1, <4>1
    <3> QED BY <3>1, <3>2 DEF Lifecycle!Approve, Lifecycle!Move
  <2>5. ASSUME NEW p \in Purchases, Moved(p, {"waiting_for_review"}, "rejected")
        PROVE  Lifecycle!Reject(p)
    <3>1. /\ status[p] \in {"waiting_for_review"}
          /\ status' = [status EXCEPT ![p] = "rejected"] /\ grants' = grants
      BY <2>5 DEF Moved
    <3> QED BY <3>1 DEF Lifecycle!Reject, Lifecycle!Move
  <2> QED BY <1>1, <1>3, <2>1, <2>2, <2>3, <2>4, <2>5
         DEF LifecycleStep, Lifecycle!LifecycleNext
<1>4. ASSUME UNCHANGED purchases PROVE StatusKept
  BY <1>4 DEF StatusKept
<1>5. ASSUME NEW w \in Workers, Writes(w) PROVE LifecycleStep
  <2>1. ~overlapped
    BY <1>5 DEF Writes, CreateCommit, RestoreCommit, UploadStore, UploadCommit, CancelCommit,
                PurchaseLookup, ApproveLoad, ApproveCommit, RejectCommit, RolesCommit,
                SubscribeCommit, UnsubscribeCommit, Abort, Finish, Continue
  <2> QED BY <1>5, <2>1, WritesFollow
<1> QED BY <1>1, <1>3, <1>4, <1>5, Steps DEF Begin

\* "Follows the same manual-card-transfer + receipt + admin-review flow as the rest of
\* billing" (billing/service.py): while requests do not overlap, every step on a purchase
\* is a step of PaymentLifecycle or changes nothing that it shows.
THEOREM ImplementsPaymentLifecycle == Spec => SameFlowAsPayments
<1> DEFINE Step == overlapped' \/ [Lifecycle!LifecycleNext]_(Lifecycle!lifecycleVars)
<1>1. Init => Lifecycle!LifecycleInit
  BY DEF Init, NoPurchase, Lifecycle!LifecycleInit
<1>2. (Rows /\ Serial) /\ [Next]_vars => [Step]_vars
  BY StepsImplement
<1>3. Spec => [][Step]_vars
  <2> HIDE DEF Step
  <2> QED BY <1>2, SerialInvariant, PTL DEF Spec
<1> QED BY <1>1, <1>3, PTL DEF Spec, SameFlowAsPayments

-------------------------------------------------------------------------------
(* Catalog: what holds whatever overlaps.                                  *)

\* What a call in flight may rely on although its rows move underneath it: it is about one
\* primary key; a new one is not used yet, any other is of a row that is or has been there;
\* the count that was loaded was not too high, and terms that nobody edited are those that
\* were loaded.
CallOK(r) ==
    \A k \in r.key :
       /\ r.key = {k} /\ r.op # "idle"
       /\ r.op = "create" => /\ rows[k].at = "absent"
                             /\ r.sent \in RowType(k)
                             /\ k \in Codes => r.sent \in NewCodes
       /\ r.op # "create" => rows[k].at # "absent"
       /\ r.op = "update" => /\ r.loaded \in RowType(k) /\ r.sent \in RowType(k)
                             /\ r.list # 0 => k \in Pricing
                             /\ r.plans # {} => k \in Codes
                             /\ k \in Codes => r.sent.used = r.loaded.used
       /\ r.op = "delete" => k \notin Pricing
       /\ r.op \in {"count", "redeem"} =>
             /\ k \in Codes /\ r.loaded \in PromoCode
             /\ \E u \in Customers : r.user = {u}
             /\ Present(k) => /\ r.loaded.used <= Uses(k)
                              /\ k \notin edited => Terms(r.loaded) = Terms(rows[k])
       /\ r.op \in {"pay", "subscribe"} => k \in Plans

\* A primary key that is drawn is drawn once.
DrawnOnce == \A v, w \in Handlers : \A k \in calls[w].key :
    calls[w].op = "create" /\ k \in calls[v].key => v = w

NamesUnique == \A table \in {Plans, Pricing, Codes} : \A k, l \in table :
    Present(k) /\ Present(l) /\ rows[k].name = rows[l].name => k = l

\* A code counts no more than there is, and takes off a percentage until it is edited.
CodeOK(c) == Present(c) => /\ rows[c].used <= Uses(c)
                           /\ c \notin edited /\ rows[c].type = "percentage"
                                 => rows[c].value \in 0..100

RowsOK ==
    /\ rows \in [Keys -> Row] /\ \A k \in Keys : rows[k] \in NoRow \cup RowType(k)
    /\ features \in [Pricing -> SUBSET (0..MaxServed)] /\ latest \in [Pricing -> 0..MaxServed]
    /\ links \in [Codes -> SUBSET Pricing] /\ edited \subseteq Codes
    /\ usages \in [Codes -> Seq(Customers)]
    /\ referred \subseteq {k \in Plans \cup Cards : Present(k)}
    /\ NamesUnique
    /\ \A c \in Codes : ~Present(c) => links[c] = {} /\ usages[c] = << >>
    /\ \A c \in Codes : CodeOK(c)
    /\ \A p \in Pricing : latest[p] \in features[p]

CallsOK == /\ calls \in [Handlers -> Call]
           /\ \A w \in Handlers : CallOK(calls[w])
           /\ DrawnOnce

Kept == RowsOK /\ CallsOK /\ served \in 0..MaxServed /\ concurrent \in BOOLEAN

\* Rows come and go once, uses are only added, and terms change where they are edited.
Advance ==
    /\ \A k \in Keys : /\ rows[k].at # "absent" => rows'[k].at # "absent"
                       /\ Present(k)' => Present(k) \/ rows[k].at = "absent"
    /\ \A c \in Codes : Present(c) /\ Present(c)' =>
          /\ Uses(c) <= Uses(c)'
          /\ c \notin edited' => Terms(rows'[c]) = Terms(rows[c])
    /\ edited \subseteq edited'

LEMMA RowTypes ==
  /\ \A k \in Plans : RowType(k) = Plan
  /\ \A k \in Cards : RowType(k) = PaymentCard
  /\ \A k \in Pricing : RowType(k) = PricingPlan
  /\ \A k \in Discounts : RowType(k) = Discount
  /\ \A k \in Codes : RowType(k) = PromoCode
<1>1. Plans \cap Cards = {} /\ Plans \cap Pricing = {} /\ Plans \cap Discounts = {}
      /\ Plans \cap Codes = {} /\ Cards \cap Pricing = {} /\ Cards \cap Discounts = {}
      /\ Cards \cap Codes = {} /\ Pricing \cap Discounts = {} /\ Pricing \cap Codes = {}
      /\ Discounts \cap Codes = {}
  BY CatalogAssumption DEF CatalogAssumption, Tables
<1>2. ASSUME NEW k \in Plans PROVE RowType(k) = Plan
  BY <1>1 DEF RowType
<1>3. ASSUME NEW k \in Cards PROVE RowType(k) = PaymentCard
  BY <1>1 DEF RowType
<1>4. ASSUME NEW k \in Pricing PROVE RowType(k) = PricingPlan
  BY <1>1 DEF RowType
<1>5. ASSUME NEW k \in Discounts PROVE RowType(k) = Discount
  BY <1>1 DEF RowType
<1>6. ASSUME NEW k \in Codes PROVE RowType(k) = PromoCode
  BY <1>1 DEF RowType
<1> QED BY <1>2, <1>3, <1>4, <1>5, <1>6

LEMMA RowTypeIsRow ==
  ASSUME NEW k \in Keys
  PROVE  /\ RowType(k) \subseteq Row
         /\ \A row \in RowType(k) : row.at = "live"
         /\ \A row \in NoRow : row.at # "live"
<1>1. RowType(k) \in {Plan, PaymentCard, PricingPlan, Discount, PromoCode}
  BY RowTypes DEF Keys
<1>2. \A S \in {Plan, PaymentCard, PricingPlan, Discount, PromoCode} : S \subseteq Row
  BY DEF Row
<1>3. /\ \A row \in Plan : row.at = "live"
      /\ \A row \in PaymentCard : row.at = "live"
      /\ \A row \in PricingPlan : row.at = "live"
      /\ \A row \in Discount : row.at = "live"
      /\ \A row \in PromoCode : row.at = "live"
  BY DEF Plan, PaymentCard, PricingPlan, Discount, PromoCode, CodeUsed
<1> QED BY <1>1, <1>2, <1>3 DEF NoRow

LEMMA UsesType ==
  /\ RowsOK => \A c \in Codes : Uses(c) \in Nat
  /\ RowsOK' => \A c \in Codes : Uses(c)' \in Nat
  BY DEF RowsOK, Uses

LEMMA NoCallOK == NoCall \in Call /\ NoCall.op = "idle" /\ NoCall.key = {}
<1>1. Absent \in Row
  BY DEF Absent, Row, NoRow
<1>2. 0 \in 0..MaxServed
  BY CatalogAssumption DEF CatalogAssumption
<1> QED BY <1>1, <1>2 DEF NoCall, Call

\* What a call relies on survives the steps of others.
LEMMA CallSurvives ==
  ASSUME RowsOK, RowsOK', Advance, NEW r \in Call, CallOK(r),
         \A k \in r.key : r.op = "create" => rows'[k].at = "absent"
  PROVE  CallOK(r)'
<1> SUFFICES ASSUME NEW k \in r.key PROVE CallOK(r)'
  BY DEF CallOK
<1>1. k \in Keys /\ r.key = {k}
  BY DEF CallOK, Call
<1>2. r.op # "create" => rows[k].at # "absent" /\ rows'[k].at # "absent"
  BY <1>1 DEF CallOK, Advance
<1>3. ASSUME r.op \in {"count", "redeem"}, Present(k)'
      PROVE  r.loaded.used <= Uses(k)' /\ (k \notin edited' => Terms(r.loaded) = Terms(rows'[k]))
  <2>1. Present(k) /\ k \in Codes /\ r.loaded.used \in Nat
    BY <1>1, <1>2, <1>3 DEF Advance, CallOK, PromoCode, CodeUsed
  <2>2. Uses(k) <= Uses(k)' /\ r.loaded.used <= Uses(k)
    BY <1>1, <1>3, <2>1 DEF Advance, CallOK
  <2>3. k \notin edited' => Terms(r.loaded) = Terms(rows[k]) /\ Terms(rows[k]) = Terms(rows'[k])
    BY <1>1, <1>3, <2>1 DEF Advance, CallOK
  <2>4. Uses(k) \in Nat /\ Uses(k)' \in Nat
    BY <2>1, UsesType
  <2> QED BY <2>1, <2>2, <2>3, <2>4
<1> QED BY <1>1, <1>2, <1>3 DEF CallOK, Present, Terms

LEMMA SameTables ==
  ASSUME RowsOK, UNCHANGED <<rows, features, links, usages, referred, latest, edited>>
  PROVE  RowsOK' /\ Advance
<1>1. RowsOK'
  BY DEF RowsOK, NamesUnique, CodeOK, Present, Uses
<1>2. \A c \in Codes : Uses(c) \in Nat
  BY UsesType
<1> QED BY <1>1, <1>2 DEF Advance, Present, Uses, Terms

\* The step of one handler: its call may change, and the others rely on what they did.
LEMMA KeptStep ==
  ASSUME Kept, RowsOK', Advance, served' \in 0..MaxServed, concurrent' \in BOOLEAN,
         NEW w \in Handlers, NEW r \in Call, CallOK(r)', calls' = [calls EXCEPT ![w] = r],
         \A v \in Handlers \ {w} : calls[v].op = "create" =>
             \A k \in calls[v].key : rows'[k].at = "absent",
         r.op = "create" => \A v \in Handlers \ {w} : \A k \in r.key : k \notin calls[v].key
  PROVE  Kept' /\ Advance
<1>1. calls' \in [Handlers -> Call]
  BY DEF Kept, CallsOK
<1>2. ASSUME NEW v \in Handlers PROVE CallOK(calls[v])'
  <2>1. CASE v = w
    BY <2>1 DEF Kept, CallsOK
  <2>2. CASE v # w
    <3>1. PICK q \in Call : q = calls[v] /\ CallOK(q)
      BY DEF Kept, CallsOK
    <3>2. CallOK(q)'
      BY <2>2, <3>1, CallSurvives DEF Kept
    <3>3. calls'[v] = q
      BY <2>2, <3>1 DEF Kept, CallsOK
    <3> QED BY <3>2, <3>3
  <2> QED BY <2>1, <2>2
<1>3. ASSUME NEW u \in Handlers, NEW v \in Handlers, NEW k \in calls'[u].key,
             calls'[u].op = "create", k \in calls'[v].key
      PROVE  u = v
  <2>1. CASE u # w /\ v # w
    BY <1>3, <2>1 DEF Kept, CallsOK, DrawnOnce
  <2>2. CASE u = w /\ v # w
    BY <1>3, <2>2 DEF Kept, CallsOK
  <2>3. CASE u # w /\ v = w
    <3>1. calls[u].op = "create" /\ k \in calls[u].key /\ k \in r.key
      BY <1>3, <2>3 DEF Kept, CallsOK
    <3>2. rows'[k].at = "absent"
      BY <2>3, <3>1
    <3>3. r.op = "create"
      BY <3>1, <3>2 DEF CallOK
    <3> QED BY <2>3, <3>1, <3>3
  <2> QED BY <2>1, <2>2, <2>3
<1> QED BY <1>1, <1>2, <1>3 DEF Kept, CallsOK, DrawnOnce

\* A call that begins: the tables stay.
LEMMA AcceptKeeps ==
  ASSUME Kept, NEW w \in Handlers, NEW r \in Call, CallOK(r), Accept(w, r),
         r.op = "create" => \A v \in Handlers : \A k \in r.key : k \notin calls[v].key
  PROVE  Kept' /\ Advance
<1>1. RowsOK' /\ Advance
  BY SameTables DEF Kept, Accept
<1>2. served' \in 0..MaxServed /\ concurrent' \in BOOLEAN
  BY CatalogAssumption DEF Kept, Accept, CatalogAssumption
<1>3. CallOK(r)'
  BY <1>1, CallSurvives DEF Kept, Accept, CallOK
<1>4. \A v \in Handlers : calls[v].op = "create" =>
          \A k \in calls[v].key : rows'[k].at = "absent"
  BY DEF Kept, CallsOK, CallOK, Accept
<1> QED BY <1>1, <1>2, <1>3, <1>4, KeptStep DEF Accept

LEMMA CreateKeeps ==
  ASSUME Kept, NEW w \in Handlers, NEW k \in Keys, NEW row \in RowType(k),
         NEW plans \in SUBSET SUBSET Pricing, k \in Codes => row \in NewCodes,
         Create(w, k, row, plans)
  PROVE  Kept' /\ Advance
<1> DEFINE r == [NoCall EXCEPT !.op = "create", !.key = {k}, !.sent = row, !.plans = plans]
<1>1. r \in Call /\ r.op = "create" /\ r.key = {k} /\ r.sent = row
  BY NoCallOK, RowTypeIsRow DEF Call
<1>2. rows[k].at = "absent" /\ Accept(w, r)
  BY DEF Create, NewKey
<1>3. CallOK(r)
  BY <1>1, <1>2 DEF CallOK
<1>4. \A v \in Handlers : k \notin calls[v].key
  BY DEF Kept, CallsOK, CallOK, Create, NewKey
<1> HIDE DEF r
<1> QED BY <1>1, <1>2, <1>3, <1>4, AcceptKeeps

LEMMA UpdateKeeps ==
  ASSUME Kept, NEW w \in Handlers, NEW k \in Keys, Present(k), NEW row \in RowType(k),
         NEW plans \in SUBSET SUBSET Pricing, NEW list \in 0..MaxServed,
         list # 0 => k \in Pricing, plans # {} => k \in Codes,
         k \in Codes => row.used = rows[k].used, Update(w, k, row, plans, list)
  PROVE  Kept' /\ Advance
<1> DEFINE lists == IF list = 0 THEN {} ELSE features[k]
           r == [NoCall EXCEPT !.op = "update", !.key = {k}, !.loaded = rows[k], !.sent = row,
                               !.plans = plans, !.list = list, !.lists = lists]
<1>1. lists \in SUBSET (0..MaxServed)
  BY DEF Kept, RowsOK
<1>2. rows[k] \in Row /\ rows[k] \in RowType(k)
  BY RowTypeIsRow DEF Kept, RowsOK, Present
<1>3. Accept(w, r)
  BY DEF Update
<1> HIDE DEF lists
<1>4. r \in Call /\ r.op = "update" /\ r.key = {k} /\ r.sent = row /\ r.loaded = rows[k]
      /\ r.list = list /\ r.plans = plans
  BY <1>1, <1>2, NoCallOK, RowTypeIsRow DEF Call
<1> HIDE DEF r
<1>5. CallOK(r)
  BY <1>2, <1>4 DEF CallOK, Present
<1> QED BY <1>3, <1>4, <1>5, AcceptKeeps

LEMMA DeleteReadKeeps ==
  ASSUME Kept, NEW w \in Handlers, NEW k \in Keys \ Pricing, DeleteRead(w, k)
  PROVE  Kept' /\ Advance
<1> DEFINE plans == IF k \in Codes THEN {links[k]} ELSE {}
           r == [NoCall EXCEPT !.op = "delete", !.key = {k}, !.loaded = rows[k],
                               !.plans = plans]
<1>1. plans \in SUBSET SUBSET Pricing /\ rows[k] \in Row
  BY DEF Kept, RowsOK
<1>2. Accept(w, r) /\ rows[k].at # "absent"
  BY DEF DeleteRead, Present
<1> HIDE DEF plans
<1>3. r \in Call /\ r.op = "delete" /\ r.key = {k}
  BY <1>1, NoCallOK DEF Call
<1> HIDE DEF r
<1>4. CallOK(r)
  BY <1>2, <1>3 DEF CallOK
<1> QED BY <1>2, <1>3, <1>4, AcceptKeeps

LEMMA PlanCallKeeps ==
  ASSUME Kept, NEW w \in Handlers, NEW k \in Plans,
         PayRead(w, k) \/ SubscribeLookup(w, k)
  PROVE  Kept' /\ Advance
<1>1. PICK op \in {"pay", "subscribe"} :
          Present(k) /\ Accept(w, [NoCall EXCEPT !.op = op, !.key = {k}])
  BY DEF PayRead, SubscribeLookup
<1> DEFINE r == [NoCall EXCEPT !.op = op, !.key = {k}]
<1>2. r \in Call /\ r.op = op /\ r.key = {k}
  BY NoCallOK DEF Call, Keys
<1>3. Accept(w, r) /\ rows[k].at # "absent"
  BY <1>1 DEF Present
<1> HIDE DEF r
<1>4. CallOK(r)
  BY <1>2, <1>3 DEF CallOK
<1> QED BY <1>2, <1>3, <1>4, AcceptKeeps

LEMMA ApplyReadKeeps ==
  ASSUME Kept, NEW w \in Handlers, NEW k \in Codes, ApplyRead(w, k)
  PROVE  Kept' /\ Advance
<1>1. PICK u \in Customers :
          Accept(w, [NoCall EXCEPT !.op = "count", !.key = {k}, !.loaded = rows[k], !.user = {u}])
  BY DEF ApplyRead
<1>2. Present(k) /\ k \in Keys
  BY DEF ApplyRead, Applies, Keys
<1>3. rows[k] \in Row /\ rows[k] \in PromoCode
  BY <1>2, RowTypes, RowTypeIsRow DEF Kept, RowsOK, Present
<1> DEFINE r == [NoCall EXCEPT !.op = "count", !.key = {k}, !.loaded = rows[k], !.user = {u}]
<1>4. r \in Call /\ r.op = "count" /\ r.key = {k} /\ r.loaded = rows[k] /\ r.user = {u}
  BY <1>2, <1>3, NoCallOK DEF Call
<1>5. Accept(w, r)
  BY <1>1
<1> HIDE DEF r
<1>6. CallOK(r)
  BY <1>2, <1>3, <1>4 DEF CallOK, Kept, RowsOK, CodeOK, Present
<1> QED BY <1>4, <1>5, <1>6, AcceptKeeps

\* Every request that starts keeps what is kept.
LEMMA RequestKeeps ==
  ASSUME Kept, NEW w \in Handlers,
         PlanRequest(w) \/ PricingRequest(w) \/ DiscountRequest(w) \/ CodeRequest(w)
         \/ UserRequest(w)
  PROVE  Kept' /\ Advance
<1> USE RowTypes
<1>1. {} \in SUBSET SUBSET Pricing /\ 0 \in 0..MaxServed
  BY CatalogAssumption DEF CatalogAssumption
<1>2. /\ \A k \in Keys : Present(k) => rows[k] \in RowType(k)
      /\ Plans \cup Cards \cup Discounts \cup Codes \subseteq Keys \ Pricing
      /\ Pricing \subseteq Keys
      /\ Plans \cap Codes = {} /\ Cards \cap Codes = {} /\ Pricing \cap Codes = {}
      /\ Discounts \cap Codes = {}
  BY CatalogAssumption, RowTypeIsRow DEF Kept, RowsOK, Present, CatalogAssumption, Tables, Keys
<1>3. ASSUME NEW k \in Plans, CreatePlan(w, k) PROVE Kept' /\ Advance
  BY <1>1, <1>2, <1>3, CreateKeeps DEF CreatePlan
<1>4. ASSUME NEW k \in Plans, UpdatePlan(w, k) PROVE Kept' /\ Advance
  <2>1. PICK row \in With(rows[k], "price", Prices) \cup With(rows[k], "phase", Active) :
            Present(k) /\ Update(w, k, row, {}, 0)
    BY <1>4 DEF UpdatePlan
  <2>2. rows[k] \in Plan
    BY <1>2, <2>1
  <2>3. row \in Plan
    BY <2>1, <2>2 DEF With, Plan
  <2> QED BY <1>1, <1>2, <2>1, <2>3, UpdateKeeps
<1>5. ASSUME NEW k \in Cards, CreateCard(w, k) PROVE Kept' /\ Advance
  <2>1. [at |-> "live", phase |-> "open"] \in PaymentCard
    BY DEF PaymentCard, Active
  <2> QED BY <1>1, <1>2, <1>5, <2>1, CreateKeeps DEF CreateCard
<1>6. ASSUME NEW k \in Cards, UpdateCard(w, k) PROVE Kept' /\ Advance
  <2>1. PICK row \in With(rows[k], "phase", Active) : Present(k) /\ Update(w, k, row, {}, 0)
    BY <1>6 DEF UpdateCard
  <2>2. rows[k] \in PaymentCard
    BY <1>2, <2>1
  <2>3. row \in PaymentCard
    BY <2>1, <2>2 DEF With, PaymentCard
  <2> QED BY <1>1, <1>2, <2>1, <2>3, UpdateKeeps
<1>7. ASSUME NEW k \in Pricing, UpdatePricing(w, k) PROVE Kept' /\ Advance
  <2>1. PICK row \in With(rows[k], "name", Names) \cup With(rows[k], "price", Prices)
                        \cup With(rows[k], "phase", Active), list \in {0, served + 1} :
            Present(k) /\ Update(w, k, row, {}, list)
    BY <1>7 DEF UpdatePricing
  <2>2. rows[k] \in PricingPlan
    BY <1>2, <2>1
  <2>3. row \in PricingPlan
    BY <2>1, <2>2 DEF With, PricingPlan
  <2>4. list \in 0..MaxServed
    BY <1>1, <2>1, CatalogAssumption DEF Update, Accept, Kept, CatalogAssumption
  <2> QED BY <1>1, <1>2, <2>1, <2>3, <2>4, UpdateKeeps
<1>8. ASSUME NEW k \in Discounts, CreateDiscount(w, k) PROVE Kept' /\ Advance
  BY <1>1, <1>2, <1>8, CreateKeeps DEF CreateDiscount
<1>9. ASSUME NEW k \in Discounts, UpdateDiscount(w, k) PROVE Kept' /\ Advance
  <2>1. PICK row \in With(rows[k], "percentage", Percentages)
                        \cup With(rows[k], "phase", Phases) :
            Present(k) /\ Update(w, k, row, {}, 0)
    BY <1>9 DEF UpdateDiscount
  <2>2. rows[k] \in Discount
    BY <1>2, <2>1
  <2>3. row \in Discount
    BY <2>1, <2>2 DEF With, Discount
  <2> QED BY <1>1, <1>2, <2>1, <2>3, UpdateKeeps
<1>10. ASSUME NEW k \in Codes, CreateCode(w, k) PROVE Kept' /\ Advance
  <2>1. PICK row \in NewCodes, plans \in SUBSET Pricing : Create(w, k, row, {plans})
    BY <1>10 DEF CreateCode
  <2>2. row \in PromoCode
    BY <2>1 DEF NewCodes, PromoCode, CodeUsed
  <2> QED BY <1>2, <2>1, <2>2, CreateKeeps
<1>11. ASSUME NEW k \in Codes, UpdateCode(w, k) PROVE Kept' /\ Advance
  <2>1. CASE \E row \in CodeChanges(rows[k]) : Update(w, k, row, {}, 0)
    <3>1. PICK row \in CodeChanges(rows[k]) : Update(w, k, row, {}, 0)
      BY <2>1
    <3>2. rows[k] \in PromoCode
      BY <1>2, <1>11 DEF UpdateCode
    <3>3. row \in PromoCode /\ row.used = rows[k].used
      BY <3>1, <3>2 DEF CodeChanges, With, PromoCode, CodeUsed
    <3> QED BY <1>1, <1>2, <1>11, <3>1, <3>3, UpdateKeeps DEF UpdateCode
  <2>2. CASE \E plans \in SUBSET {p \in Pricing : Present(p)} :
                 Update(w, k, rows[k], {plans}, 0)
    <3>1. PICK plans \in SUBSET Pricing : Update(w, k, rows[k], {plans}, 0)
      BY <2>2
    <3> QED BY <1>1, <1>2, <1>11, <3>1, UpdateKeeps DEF UpdateCode
  <2> QED BY <1>11, <2>1, <2>2 DEF UpdateCode
<1>12. ASSUME NEW k \in Keys \ Pricing, DeleteRead(w, k) PROVE Kept' /\ Advance
  BY <1>12, DeleteReadKeeps
<1>13. ASSUME NEW k \in Codes, ApplyRead(w, k) PROVE Kept' /\ Advance
  BY <1>13, ApplyReadKeeps
<1>14. ASSUME NEW k \in Plans, PayRead(w, k) \/ SubscribeLookup(w, k) PROVE Kept' /\ Advance
  BY <1>14, PlanCallKeeps
<1>15. CASE PlanRequest(w)
  BY <1>2, <1>3, <1>4, <1>5, <1>6, <1>12, <1>15 DEF PlanRequest
<1>16. CASE PricingRequest(w)
  BY <1>7, <1>16 DEF PricingRequest
<1>17. CASE DiscountRequest(w)
  BY <1>2, <1>8, <1>9, <1>12, <1>17 DEF DiscountRequest
<1>18. CASE CodeRequest(w)
  BY <1>2, <1>10, <1>11, <1>12, <1>18 DEF CodeRequest
<1>19. CASE UserRequest(w)
  BY <1>13, <1>14, <1>19 DEF UserRequest
<1> QED BY <1>15, <1>16, <1>17, <1>18, <1>19

\* A step that writes one row.
LEMMA OneRow ==
  ASSUME RowsOK, NEW k \in Keys, NEW new \in NoRow \cup RowType(k),
         rows' = [rows EXCEPT ![k] = new]
  PROVE  /\ rows' \in [Keys -> Row] /\ \A l \in Keys : rows'[l] \in NoRow \cup RowType(l)
         /\ rows'[k] = new
         /\ \A l \in Keys \ {k} : rows'[l] = rows[l]
<1>1. new \in Row
  BY RowTypeIsRow DEF Row
<1> QED BY <1>1 DEF RowsOK

\* An answer: the call ends, and no key that another has drawn is used.
LEMMA AnswerKeeps ==
  ASSUME Kept, NEW w \in Handlers, Answer(w), UNCHANGED <<served, concurrent>>,
         RowsOK', Advance,
         \A v \in Handlers \ {w} : calls[v].op = "create" =>
             \A k \in calls[v].key : rows'[k].at = "absent"
  PROVE  Kept' /\ Advance
<1>1. CallOK(NoCall)'
  BY NoCallOK DEF CallOK
<1> QED BY <1>1, NoCallOK, KeptStep DEF Answer, Kept

\* The keys that are drawn stay unused when a row is written that is there.
LEMMA DrawnStay ==
  ASSUME Kept, NEW k \in Keys, NEW new, rows' = [rows EXCEPT ![k] = new],
         rows[k].at # "absent"
  PROVE  \A v \in Handlers : calls[v].op = "create" =>
             \A l \in calls[v].key : rows'[l].at = "absent"
<1> SUFFICES ASSUME NEW v \in Handlers, calls[v].op = "create", NEW l \in calls[v].key
             PROVE  rows'[l].at = "absent"
  OBVIOUS
<1>1. rows[l].at = "absent" /\ l \in Keys
  BY DEF Kept, CallsOK, CallOK, Call
<1> QED BY <1>1 DEF Kept, RowsOK

LEMMA InsertKeeps ==
  ASSUME Kept, NEW w \in Handlers, Insert(w)
  PROVE  Kept' /\ Advance
<1>1. PICK k \in calls[w].key :
          /\ rows' = [rows EXCEPT ![k] = calls[w].sent]
          /\ links' = IF k \in Codes THEN [links EXCEPT ![k] = UNION calls[w].plans]
                                     ELSE links
  BY DEF Insert
<1>2. PICK r \in Call : r = calls[w] /\ CallOK(r)
  BY DEF Kept, CallsOK
<1>3. k \in Keys /\ rows[k].at = "absent" /\ r.sent \in RowType(k) /\ r.sent.at = "live"
      /\ (k \in Codes => r.sent \in NewCodes)
  BY <1>1, <1>2, RowTypeIsRow DEF CallOK, Call, Insert, Serving
<1>4. /\ rows' \in [Keys -> Row] /\ \A l \in Keys : rows'[l] \in NoRow \cup RowType(l)
      /\ rows'[k] = r.sent
      /\ \A l \in Keys \ {k} : rows'[l] = rows[l]
  BY <1>1, <1>2, <1>3, OneRow DEF Kept
<1>5. links' \in [Codes -> SUBSET Pricing]
  BY <1>1, <1>2 DEF Kept, RowsOK, Call
<1>6. NamesUnique'
  BY DEF Insert, Constraints, Unique, NamesUnique, Present
<1>7. \A c \in Codes : ~Present(c)' => links'[c] = {} /\ usages'[c] = << >>
  BY <1>1, <1>3, <1>4 DEF Kept, RowsOK, Present, Insert, Keys
<1>8. ASSUME NEW c \in Codes PROVE CodeOK(c)'
  <2>1. CASE c = k
    <3>1. r.sent.used = 0 /\ (r.sent.type = "percentage" => r.sent.value \in 0..100)
      BY <1>3, <2>1 DEF NewCodes, CodeUsed
    <3>2. Uses(k) \in Nat /\ Uses(k)' = Uses(k)
      BY <2>1, UsesType DEF Kept, Uses, Insert
    <3> QED BY <1>4, <2>1, <3>1, <3>2 DEF CodeOK
  <2>2. CASE c # k
    BY <1>4, <2>2 DEF Kept, RowsOK, CodeOK, Present, Uses, Insert, Keys
  <2> QED BY <2>1, <2>2
<1>9. RowsOK'
  BY <1>3, <1>4, <1>5, <1>6, <1>7, <1>8 DEF Kept, RowsOK, Insert, Present
<1>10. Advance
  BY <1>3, <1>4, UsesType DEF Kept, Advance, Insert, Present, Uses, Terms, Keys
<1>11. \A v \in Handlers \ {w} : calls[v].op = "create" =>
           \A l \in calls[v].key : rows'[l].at = "absent"
  <2> SUFFICES ASSUME NEW v \in Handlers \ {w}, calls[v].op = "create", NEW l \in calls[v].key
               PROVE  rows'[l].at = "absent"
    OBVIOUS
  <2>1. l # k /\ l \in Keys /\ rows[l].at = "absent"
    BY <1>1 DEF Kept, CallsOK, DrawnOnce, CallOK, Call, Insert, Serving
  <2> QED BY <1>4, <2>1
<1> QED BY <1>9, <1>10, <1>11, AnswerKeeps DEF Insert, Serving

\* What the ORM writes is a row of the table, and leaves the columns that were not sent.
LEMMA MergeType ==
  ASSUME NEW k \in Keys, NEW now \in RowType(k), NEW loaded \in RowType(k),
         NEW sent \in RowType(k)
  PROVE  Merge(now, loaded, sent) \in RowType(k)
<1>1. CASE k \in Plans
  BY <1>1, RowTypes DEF Merge, Plan
<1>2. CASE k \in Cards
  BY <1>2, RowTypes DEF Merge, PaymentCard
<1>3. CASE k \in Pricing
  BY <1>3, RowTypes DEF Merge, PricingPlan
<1>4. CASE k \in Discounts
  BY <1>4, RowTypes DEF Merge, Discount
<1>5. CASE k \in Codes
  <2>1. now \in PromoCode /\ loaded \in PromoCode /\ sent \in PromoCode /\ RowType(k) = PromoCode
    BY <1>5, RowTypes
  <2> QED BY <2>1 DEF Merge, PromoCode, CodeUsed
<1> QED BY <1>1, <1>2, <1>3, <1>4, <1>5 DEF Keys

LEMMA MergeCode ==
  ASSUME NEW now \in PromoCode, NEW loaded \in PromoCode, NEW sent \in PromoCode
  PROVE  /\ sent.used = loaded.used => Merge(now, loaded, sent).used = now.used
         /\ Terms(sent) = Terms(loaded) => Terms(Merge(now, loaded, sent)) = Terms(now)
<1>1. DOMAIN now = {"at", "name", "type", "value", "limit", "per_user", "used", "minimum",
                    "phase"}
  BY DEF PromoCode, CodeUsed
<1> QED BY <1>1 DEF Merge, Terms

LEMMA WriteKeeps ==
  ASSUME Kept, NEW w \in Handlers, Write(w)
  PROVE  Kept' /\ Advance
<1>1. PICK r \in Call : r = calls[w] /\ CallOK(r)
  BY DEF Kept, CallsOK
<1>2. PICK k \in r.key :
          /\ Present(k)
          /\ rows' = [rows EXCEPT ![k] = Merge(rows[k], r.loaded, r.sent)]
          /\ features' = IF r.list = 0 THEN features
                                       ELSE [features EXCEPT ![k] = NewFeatures(r, k)]
          /\ latest' = IF r.list = 0 THEN latest ELSE [latest EXCEPT ![k] = r.list]
          /\ links' = IF r.plans = {} THEN links
                                      ELSE [links EXCEPT ![k] = UNION r.plans]
          /\ edited' = IF k \in Codes /\ Terms(r.sent) # Terms(r.loaded)
                         THEN edited \cup {k} ELSE edited
  BY <1>1 DEF Write
<1>3. /\ r.op = "update" /\ r.loaded \in RowType(k) /\ r.sent \in RowType(k) /\ k \in Keys
      /\ r.list # 0 => k \in Pricing
      /\ r.plans # {} => k \in Codes
      /\ k \in Codes => r.sent.used = r.loaded.used
      /\ r.list \in 0..MaxServed /\ r.lists \in SUBSET (0..MaxServed)
      /\ r.plans \in SUBSET SUBSET Pricing
  BY <1>1, <1>2 DEF CallOK, Call, Write, Serving
<1> DEFINE new == Merge(rows[k], r.loaded, r.sent)
<1>4. rows[k] \in RowType(k) /\ rows[k].at = "live" /\ rows[k].at # "absent"
  BY <1>2, <1>3, RowTypeIsRow DEF Kept, RowsOK, Present
<1>5. new \in RowType(k) /\ new.at = "live"
  BY <1>3, <1>4, MergeType, RowTypeIsRow
<1>6. k \in Codes => /\ new.used = rows[k].used
                     /\ k \notin edited' => Terms(new) = Terms(rows[k])
  BY <1>2, <1>3, <1>4, MergeCode, RowTypes
<1>7. /\ rows' \in [Keys -> Row] /\ \A l \in Keys : rows'[l] \in NoRow \cup RowType(l)
      /\ rows'[k] = new
      /\ \A l \in Keys \ {k} : rows'[l] = rows[l]
  BY <1>2, <1>3, <1>5, OneRow DEF Kept
<1>8. \A v \in Handlers : calls[v].op = "create" =>
          \A l \in calls[v].key : rows'[l].at = "absent"
  BY <1>2, <1>3, <1>4, DrawnStay
<1> HIDE DEF new
<1>9. \A l \in Keys : Present(l)' <=> Present(l)
  BY <1>4, <1>5, <1>7 DEF Present
<1>10. features' \in [Pricing -> SUBSET (0..MaxServed)] /\ latest' \in [Pricing -> 0..MaxServed]
       /\ \A p \in Pricing : latest'[p] \in features'[p]
  BY <1>2, <1>3 DEF Kept, RowsOK, NewFeatures
<1>11. links' \in [Codes -> SUBSET Pricing] /\ edited' \subseteq Codes /\ edited \subseteq edited'
  BY <1>2, <1>3 DEF Kept, RowsOK
<1>12. NamesUnique'
  BY DEF Write, Constraints, Unique, NamesUnique, Present
<1>13. \A c \in Codes : ~Present(c)' => links'[c] = {} /\ usages'[c] = << >>
  BY <1>2, <1>3, <1>4, <1>9 DEF Kept, RowsOK, Write, Keys, Present
<1>14. \A c \in Codes : Uses(c)' = Uses(c) /\ Uses(c) \in Nat
  BY UsesType DEF Kept, Uses, Write
<1>15. ASSUME NEW c \in Codes PROVE CodeOK(c)'
  <2>1. CASE c = k
    <3>1. CodeOK(k)
      BY <2>1 DEF Kept, RowsOK
    <3>2. k \notin edited' => new.type = rows[k].type /\ new.value = rows[k].value
      BY <1>6, <2>1 DEF Terms
    <3> QED BY <1>2, <1>6, <1>7, <1>11, <1>14, <2>1, <3>1, <3>2 DEF CodeOK
  <2>2. CASE c # k
    BY <1>7, <1>9, <1>11, <1>14, <2>2 DEF Kept, RowsOK, CodeOK, Keys
  <2> QED BY <2>1, <2>2
<1>16. RowsOK'
  BY <1>7, <1>9, <1>10, <1>11, <1>12, <1>13, <1>15 DEF Kept, RowsOK, Write, Keys
<1>17. Advance
  <2>1. \A l \in Keys : rows[l].at # "absent" => rows'[l].at # "absent"
    BY <1>5, <1>7
  <2>2. ASSUME NEW c \in Codes, c \notin edited' PROVE Terms(rows'[c]) = Terms(rows[c])
    BY <1>6, <1>7, <2>2 DEF Keys
  <2> QED BY <1>9, <1>11, <1>14, <2>1, <2>2 DEF Advance
<1> QED BY <1>8, <1>16, <1>17, AnswerKeeps DEF Write, Serving

LEMMA DeleteKeeps ==
  ASSUME Kept, NEW w \in Handlers, Delete(w)
  PROVE  Kept' /\ Advance
<1>1. PICK r \in Call : r = calls[w] /\ CallOK(r)
  BY DEF Kept, CallsOK
<1>2. PICK k \in r.key :
          /\ Present(k) /\ ~Referred(k)
          /\ rows' = [rows EXCEPT ![k] = [at |-> "deleted"]]
          /\ IF k \in Codes
             THEN /\ links' = [links EXCEPT ![k] = {}]
                  /\ usages' = [usages EXCEPT ![k] = << >>]
             ELSE UNCHANGED <<links, usages>>
  BY <1>1 DEF Delete
<1>3. k \in Keys /\ rows[k].at = "live" /\ rows[k].at # "absent"
  BY <1>1, <1>2 DEF Call, Present
<1> DEFINE new == [at |-> "deleted"]
<1>4. new \in NoRow /\ new.at = "deleted"
  BY DEF NoRow
<1>5. /\ rows' \in [Keys -> Row] /\ \A l \in Keys : rows'[l] \in NoRow \cup RowType(l)
      /\ rows'[k] = new
      /\ \A l \in Keys \ {k} : rows'[l] = rows[l]
  BY <1>2, <1>3, <1>4, OneRow DEF Kept
<1>6. \A v \in Handlers : calls[v].op = "create" =>
          \A l \in calls[v].key : rows'[l].at = "absent"
  BY <1>2, <1>3, DrawnStay
<1> HIDE DEF new
<1>7. \A l \in Keys : Present(l)' <=> Present(l) /\ l # k
  BY <1>3, <1>4, <1>5 DEF Present
<1>8. links' \in [Codes -> SUBSET Pricing] /\ usages' \in [Codes -> Seq(Customers)]
  <2>1. << >> \in Seq(Customers)
    OBVIOUS
  <2>2. CASE k \in Codes
    BY <1>2, <2>1, <2>2 DEF Kept, RowsOK
  <2>3. CASE k \notin Codes
    BY <1>2, <2>3 DEF Kept, RowsOK
  <2> QED BY <2>2, <2>3
<1>9. NamesUnique'
  BY <1>5, <1>7 DEF Kept, RowsOK, NamesUnique, Keys
<1>10. ASSUME NEW c \in Codes, ~Present(c)' PROVE links'[c] = {} /\ usages'[c] = << >>
  <2>1. CASE c = k
    BY <1>2, <2>1 DEF Kept, RowsOK
  <2>2. CASE c # k
    BY <1>2, <1>7, <1>10, <2>2 DEF Kept, RowsOK, Keys
  <2> QED BY <2>1, <2>2
<1>11. \A c \in Codes \ {k} : Uses(c)' = Uses(c)
  BY <1>2 DEF Kept, RowsOK, Uses
<1>12. ASSUME NEW c \in Codes PROVE CodeOK(c)'
  <2>1. CodeOK(c) /\ edited' = edited /\ c \in Keys
    BY DEF Kept, RowsOK, Delete, Keys
  <2> QED BY <1>5, <1>7, <1>11, <2>1 DEF CodeOK
<1>13. referred' \subseteq {l \in Plans \cup Cards : Present(l)'}
  BY <1>2, <1>7 DEF Kept, RowsOK, Delete, Referred, Keys
<1>14. RowsOK'
  BY <1>5, <1>8, <1>9, <1>10, <1>12, <1>13 DEF Kept, RowsOK, Delete
<1>15. Advance
  BY <1>4, <1>5, <1>7, <1>11, UsesType DEF Kept, Advance, Delete, Terms, Keys
<1> QED BY <1>6, <1>14, <1>15, AnswerKeeps DEF Delete, Serving

LEMMA RedeemKeeps ==
  ASSUME Kept, NEW w \in Handlers, Redeem(w)
  PROVE  Kept' /\ Advance
<1>1. PICK r \in Call : r = calls[w] /\ CallOK(r)
  BY DEF Kept, CallsOK
<1>2. PICK k \in r.key, u \in r.user :
          /\ Present(k)
          /\ rows' = [rows EXCEPT ![k].used = r.loaded.used + 1]
          /\ usages' = [usages EXCEPT ![k] = Append(@, u)]
  BY <1>1 DEF Redeem
<1>3. k \in Codes /\ k \in Keys /\ u \in Customers /\ r.loaded.used \in Nat
      /\ r.loaded.used <= Uses(k) /\ rows[k].at = "live" /\ rows[k].at # "absent"
  BY <1>1, <1>2 DEF CallOK, Call, Present, Redeem, Serving, PromoCode, CodeUsed, Keys
<1>4. rows[k] \in PromoCode
  BY <1>3, RowTypes, RowTypeIsRow DEF Kept, RowsOK
<1> DEFINE new == [rows[k] EXCEPT !.used = r.loaded.used + 1]
<1>5. new \in PromoCode /\ new.used = r.loaded.used + 1 /\ Terms(new) = Terms(rows[k])
      /\ new.name = rows[k].name /\ new.at = "live"
  BY <1>3, <1>4 DEF PromoCode, CodeUsed, Terms
<1>6. rows' = [rows EXCEPT ![k] = new]
  BY <1>2
<1> HIDE DEF new
<1>7. /\ rows' \in [Keys -> Row] /\ \A l \in Keys : rows'[l] \in NoRow \cup RowType(l)
      /\ rows'[k] = new
      /\ \A l \in Keys \ {k} : rows'[l] = rows[l]
  BY <1>3, <1>5, <1>6, RowTypes, OneRow DEF Kept
<1>8. \A v \in Handlers : calls[v].op = "create" =>
          \A l \in calls[v].key : rows'[l].at = "absent"
  BY <1>3, <1>6, DrawnStay
<1>9. \A l \in Keys : Present(l)' <=> Present(l)
  BY <1>3, <1>5, <1>7 DEF Present
<1>10. usages' \in [Codes -> Seq(Customers)] /\ Uses(k)' = Uses(k) + 1
       /\ \A c \in Codes \ {k} : Uses(c)' = Uses(c)
  BY <1>2, <1>3 DEF Kept, RowsOK, Uses
<1>11. NamesUnique'
  BY <1>5, <1>7, <1>9 DEF Kept, RowsOK, NamesUnique, Keys
<1>12. \A c \in Codes : ~Present(c)' => links'[c] = {} /\ usages'[c] = << >>
  BY <1>2, <1>3, <1>9 DEF Kept, RowsOK, Redeem, Keys, Present
<1>13. ASSUME NEW c \in Codes PROVE CodeOK(c)'
  <2>1. CASE c = k
    <3>1. CodeOK(k) /\ Uses(k) \in Nat
      BY <2>1, UsesType DEF Kept, RowsOK
    <3>2. new.type = rows[k].type /\ new.value = rows[k].value
      BY <1>5 DEF Terms
    <3>3. edited' = edited
      BY DEF Redeem
    <3> QED BY <1>2, <1>3, <1>5, <1>7, <1>10, <2>1, <3>1, <3>2, <3>3 DEF CodeOK
  <2>2. CASE c # k
    <3>1. CodeOK(c) /\ edited' = edited /\ c \in Keys
      BY DEF Kept, RowsOK, Redeem, Keys
    <3> QED BY <1>7, <1>9, <1>10, <2>2, <3>1 DEF CodeOK
  <2> QED BY <2>1, <2>2
<1>14. RowsOK'
  BY <1>7, <1>9, <1>10, <1>11, <1>12, <1>13 DEF Kept, RowsOK, Redeem, Keys
<1>15. Advance
  <2>1. \A c \in Codes : Uses(c) <= Uses(c)'
    BY <1>10, UsesType DEF Kept
  <2>2. \A c \in Codes : Terms(rows'[c]) = Terms(rows[c])
    BY <1>5, <1>7 DEF Keys
  <2> QED BY <1>3, <1>5, <1>7, <1>9, <2>1, <2>2 DEF Advance, Redeem
<1> QED BY <1>8, <1>14, <1>15, AnswerKeeps DEF Redeem, Serving

LEMMA CommitKeeps ==
  ASSUME Kept, NEW w \in Handlers, Commit(w) \/ Fail(w)
  PROVE  Kept' /\ Advance
<1>1. \A v \in Handlers : calls[v].op = "create" =>
          \A k \in calls[v].key : rows[k].at = "absent"
  BY DEF Kept, CallsOK, CallOK
<1>2. PICK r \in Call : r = calls[w] /\ CallOK(r)
  BY DEF Kept, CallsOK
<1>3. CASE ApplyCount(w)
  <2>1. RowsOK' /\ Advance
    BY <1>3, SameTables DEF Kept, ApplyCount
  <2> DEFINE q == [r EXCEPT !.op = "redeem"]
  <2>2. q \in Call /\ q.op = "redeem" /\ q.key = r.key /\ q.user = r.user
        /\ q.loaded = r.loaded /\ r.op = "count"
    BY <1>2, <1>3 DEF Call, ApplyCount, Serving
  <2>3. calls' = [calls EXCEPT ![w] = q]
    BY <1>2, <1>3 DEF ApplyCount, Kept, CallsOK
  <2> HIDE DEF q
  <2>4. CallOK(q)
    BY <1>2, <2>2 DEF CallOK
  <2>5. CallOK(q)'
    BY <1>3, <2>1, <2>2, <2>4, CallSurvives DEF Kept
  <2>6. served' \in 0..MaxServed /\ concurrent' \in BOOLEAN /\ rows' = rows
    BY <1>3 DEF Kept, ApplyCount, Serving
  <2> QED BY <1>1, <2>1, <2>2, <2>3, <2>5, <2>6, KeptStep
<1>4. CASE Fail(w)
  <2>1. RowsOK' /\ Advance
    BY <1>4, SameTables DEF Kept, Fail
  <2> QED BY <1>1, <1>4, <2>1, AnswerKeeps DEF Fail, Serving
<1>5. CASE Pay(w) \/ Subscribe(w)
  <2>1. r.key \subseteq Plans
    BY <1>2, <1>5 DEF CallOK, Pay, Subscribe, Serving
  <2>2. referred' \subseteq {l \in Plans \cup Cards : Present(l)}
    BY <1>2, <1>5, <2>1 DEF Kept, RowsOK, Pay, Subscribe
  <2>3. UNCHANGED <<rows, features, links, usages, latest, edited>>
    BY <1>5 DEF Pay, Subscribe
  <2>4. RowsOK'
    BY <2>2, <2>3 DEF Kept, RowsOK, NamesUnique, CodeOK, Present, Uses
  <2>5. Advance
    BY <2>3, UsesType DEF Kept, Advance, Present, Uses, Terms
  <2> QED BY <1>1, <1>5, <2>3, <2>4, <2>5, AnswerKeeps DEF Pay, Subscribe, Serving
<1> QED BY <1>3, <1>4, <1>5, InsertKeeps, WriteKeeps, DeleteKeeps, RedeemKeeps DEF Commit

\* A step of nobody: the calls stay, or all are lost.
LEMMA OutsideKeeps ==
  ASSUME Kept, RowsOK', Advance, served' \in 0..MaxServed, concurrent' \in BOOLEAN,
         \/ /\ calls' = calls
            /\ \A v \in Handlers : calls[v].op = "create" =>
                   \A k \in calls[v].key : rows'[k].at = "absent"
         \/ calls' = [w \in Handlers |-> NoCall]
  PROVE  Kept' /\ Advance
<1>1. CASE calls' = [w \in Handlers |-> NoCall]
  <2>1. CallOK(NoCall)'
    BY NoCallOK DEF CallOK
  <2> QED BY <1>1, <2>1, NoCallOK DEF Kept, CallsOK, DrawnOnce
<1>2. CASE /\ calls' = calls
           /\ \A v \in Handlers : calls[v].op = "create" =>
                  \A k \in calls[v].key : rows'[k].at = "absent"
  <2>1. ASSUME NEW v \in Handlers PROVE CallOK(calls[v])'
    <3>1. PICK q \in Call : q = calls[v] /\ CallOK(q)
      BY DEF Kept, CallsOK
    <3>2. CallOK(q)'
      BY <1>2, <3>1, CallSurvives DEF Kept
    <3> QED BY <1>2, <3>1, <3>2
  <2> QED BY <1>2, <2>1 DEF Kept, CallsOK, DrawnOnce
<1> QED BY <1>1, <1>2

LEMMA ElapseKeeps ==
  ASSUME Kept, NEW k \in Discounts \cup Codes, Elapse(k)
  PROVE  Kept' /\ Advance
<1>1. PICK phase \in Phases : rows' = [rows EXCEPT ![k].phase = phase]
  BY DEF Elapse
<1>2. k \in Keys /\ rows[k].at = "live" /\ rows[k].at # "absent" /\ rows[k] \in RowType(k)
  BY RowTypeIsRow DEF Elapse, Present, Keys, Kept, RowsOK
<1> DEFINE new == [rows[k] EXCEPT !.phase = phase]
<1>3. k \notin Plans /\ k \notin Pricing
  BY CatalogAssumption DEF CatalogAssumption, Tables
<1>4. new \in RowType(k) /\ new.at = "live"
      /\ (k \in Codes => Terms(new) = Terms(rows[k]) /\ new.used = rows[k].used
                         /\ new.name = rows[k].name)
  <2>1. CASE k \in Discounts
    <3>1. rows[k] \in Discount /\ RowType(k) = Discount /\ k \notin Codes
      BY <1>2, <2>1, RowTypes, CatalogAssumption DEF CatalogAssumption, Tables
    <3> QED BY <3>1 DEF Discount
  <2>2. CASE k \in Codes
    <3>1. rows[k] \in PromoCode /\ RowType(k) = PromoCode
      BY <1>2, <2>2, RowTypes
    <3> QED BY <3>1 DEF PromoCode, CodeUsed, Terms
  <2> QED BY <2>1, <2>2
<1>5. rows' = [rows EXCEPT ![k] = new]
  BY <1>1
<1> HIDE DEF new
<1>6. /\ rows' \in [Keys -> Row] /\ \A l \in Keys : rows'[l] \in NoRow \cup RowType(l)
      /\ rows'[k] = new
      /\ \A l \in Keys \ {k} : rows'[l] = rows[l]
  BY <1>2, <1>4, <1>5, OneRow DEF Kept
<1>7. \A v \in Handlers : calls[v].op = "create" =>
          \A l \in calls[v].key : rows'[l].at = "absent"
  BY <1>2, <1>5, DrawnStay
<1>8. \A l \in Keys : Present(l)' <=> Present(l)
  BY <1>2, <1>4, <1>6 DEF Present
<1>9. UNCHANGED <<features, links, usages, referred, calls, latest, edited, concurrent>>
      /\ served' \in 0..MaxServed
  BY CatalogAssumption DEF Elapse, Kept, CatalogAssumption
<1>10. \A c \in Codes : Uses(c)' = Uses(c) /\ Uses(c) \in Nat
  BY <1>9, UsesType DEF Kept, Uses
<1>11. NamesUnique'
  <2>1. \A c \in Codes : rows'[c].at = "live" => rows'[c].name = rows[c].name
    BY <1>4, <1>6 DEF Keys
  <2>2. \A c \in Plans \cup Pricing : rows'[c] = rows[c]
    BY <1>3, <1>6 DEF Keys
  <2>3. NamesUnique
    BY DEF Kept, RowsOK
  <2>4. ASSUME NEW l \in Codes, NEW m \in Codes, Present(l)', Present(m)',
               rows'[l].name = rows'[m].name
        PROVE  l = m
    BY <1>8, <2>1, <2>3, <2>4 DEF NamesUnique, Present, Keys
  <2> QED BY <1>8, <2>2, <2>3, <2>4 DEF NamesUnique, Keys
<1>12. ASSUME NEW c \in Codes PROVE CodeOK(c)'
  <2>1. CodeOK(c) /\ c \in Keys
    BY DEF Kept, RowsOK, Keys
  <2>2. c = k => new.used = rows[c].used /\ new.type = rows[c].type /\ new.value = rows[c].value
    BY <1>4 DEF Terms
  <2> QED BY <1>6, <1>8, <1>9, <1>10, <2>1, <2>2 DEF CodeOK
<1>13. RowsOK'
  BY <1>6, <1>8, <1>9, <1>11, <1>12 DEF Kept, RowsOK, Keys
<1>14. Advance
  BY <1>2, <1>4, <1>6, <1>8, <1>9, <1>10 DEF Advance, Terms, Keys
<1> QED BY <1>7, <1>9, <1>13, <1>14, OutsideKeeps DEF Kept

\* Seeding, of any rows.
RowsTyped(rs) == rs \in [Keys -> Row] /\ \A k \in Keys : rs[k] \in NoRow \cup RowType(k)

Distinct(rs, table) == \A k, l \in table :
    rs[k].at = "live" /\ rs[l].at = "live" /\ rs[k].name = rs[l].name => k = l

\* Seeding adds live rows with primary keys that were not used, and keeps names unique.
LEMMA SeedingAdds ==
  ASSUME NEW rs, RowsTyped(rs), NEW table \in {Plans, Pricing}, NEW drawn,
         NEW ss \in Seeded(rs, table, drawn)
  PROVE  /\ RowsTyped(ss)
         /\ \A k \in Keys : \/ ss[k] = rs[k]
                            \/ k \in table \ drawn /\ rs[k].at = "absent" /\ ss[k].at = "live"
         /\ \A other \in {Plans, Pricing, Codes} : Distinct(rs, other) => Distinct(ss, other)
<1> DEFINE live == {l \in table : rs[l].at = "live"}
           missing == Defaults \ {rs[k].name : k \in live}
           free == {k \in table \ drawn : rs[k].at = "absent"}
<1>1. PICK name \in UNION {Bijection(new, missing) : new \in SUBSET free} :
          ss = [k \in Keys |-> IF k \in DOMAIN name THEN DefaultRow(name[k]) ELSE rs[k]]
  BY DEF Seeded
<1>2. PICK new \in SUBSET free : name \in Bijection(new, missing)
  BY <1>1
<1>3. /\ name \in [new -> missing] /\ DOMAIN name = new
      /\ \A k, l \in new : name[k] = name[l] => k = l
  BY <1>2 DEF Bijection, Injection, IsInjective
<1>4. /\ new \subseteq table \ drawn /\ \A k \in new : rs[k].at = "absent"
      /\ table \subseteq Keys
  BY <1>2 DEF Keys
<1>5. \A k \in new : /\ ss[k] = DefaultRow(name[k])
                     /\ name[k] \in Defaults
                     /\ \A l \in live : name[k] # rs[l].name
  BY <1>1, <1>3, <1>4
<1>6. \A k \in Keys \ new : ss[k] = rs[k]
  BY <1>1, <1>3
<1>7. ASSUME NEW k \in new
      PROVE  ss[k] \in RowType(k) /\ ss[k].at = "live" /\ ss[k].name = name[k] /\ ss[k] \in Row
  <2>1. RowType(k) \in {Plan, PricingPlan} /\ k \in Keys
    BY <1>4, RowTypes
  <2>2. DefaultRow(name[k]) \in Plan /\ DefaultRow(name[k]) \in PricingPlan
        /\ DefaultRow(name[k]).at = "live" /\ DefaultRow(name[k]).name = name[k]
    BY <1>5, CatalogAssumption DEF DefaultRow, Plan, PricingPlan, Active, CatalogAssumption
  <2> QED BY <1>5, <2>1, <2>2, RowTypeIsRow
<1>8. ss \in [Keys -> Row]
  <2>1. \A k \in Keys : ss[k] \in Row
    BY <1>6, <1>7 DEF RowsTyped
  <2>2. ss = [k \in Keys |-> ss[k]]
    BY <1>1
  <2> QED BY <2>1, <2>2
<1>9. RowsTyped(ss)
  BY <1>6, <1>7, <1>8 DEF RowsTyped
<1>10. ASSUME NEW k \in Keys, ss[k] # rs[k]
      PROVE  k \in table \ drawn /\ rs[k].at = "absent" /\ ss[k].at = "live"
  <2>1. k \in new
    BY <1>6, <1>10
  <2> QED BY <1>4, <1>7, <2>1
<1>11. ASSUME NEW other \in {Plans, Pricing, Codes}, Distinct(rs, other)
       PROVE  Distinct(ss, other)
  <2> SUFFICES ASSUME NEW k \in other, NEW l \in other, ss[k].at = "live", ss[l].at = "live",
                      ss[k].name = ss[l].name
               PROVE  k = l
    BY DEF Distinct
  <2>1. k \in Keys /\ l \in Keys
    BY DEF Keys
  <2>2. other = table \/ (k \notin new /\ l \notin new)
    BY <1>4, CatalogAssumption DEF CatalogAssumption, Tables
  <2>3. CASE k \notin new /\ l \notin new
    BY <1>6, <1>11, <2>1, <2>3 DEF Distinct
  <2>4. CASE k \in new /\ l \in new
    BY <1>3, <1>7, <2>4
  <2>5. CASE other = table /\ k \in new /\ l \notin new
    <3>1. l \in live /\ ss[l] = rs[l]
      BY <1>6, <2>1, <2>5
    <3> QED BY <1>5, <1>7, <2>5, <3>1
  <2>6. CASE other = table /\ k \notin new /\ l \in new
    <3>1. k \in live /\ ss[k] = rs[k]
      BY <1>6, <2>1, <2>6
    <3> QED BY <1>5, <1>7, <2>6, <3>1
  <2> QED BY <2>2, <2>3, <2>4, <2>5, <2>6
<1> QED BY <1>9, <1>10, <1>11

LEMMA SeedKeeps ==
  ASSUME Kept, SeedPlans \/ Restart
  PROVE  Kept' /\ Advance
<1>1. PICK table \in {Plans, Pricing} : \E keys :
          /\ rows' \in Seeded(rows, table, keys)
          /\ SeedPlans => keys = UNION {calls[w].key : w \in Handlers}
  BY DEF SeedPlans, Restart
<1>2. PICK keys :
          /\ rows' \in Seeded(rows, table, keys)
          /\ SeedPlans => keys = UNION {calls[w].key : w \in Handlers}
  BY <1>1
<1>3. RowsTyped(rows) /\ \A other \in {Plans, Pricing, Codes} : Distinct(rows, other)
  BY DEF Kept, RowsOK, RowsTyped, NamesUnique, Distinct, Present
<1>4. /\ RowsTyped(rows')
      /\ \A k \in Keys : \/ rows'[k] = rows[k]
                         \/ k \in table \ keys /\ rows[k].at = "absent" /\ rows'[k].at = "live"
      /\ \A other \in {Plans, Pricing, Codes} : Distinct(rows', other)
  BY <1>2, <1>3, SeedingAdds
<1>5. NamesUnique'
  BY <1>4 DEF NamesUnique, Distinct, Present
<1>6. UNCHANGED <<features, links, usages, referred, latest, edited>>
  BY DEF SeedPlans, Restart
<1>7. served' \in 0..MaxServed /\ concurrent' \in BOOLEAN
  <2>1. served < MaxServed /\ served' = served + 1
    BY DEF SeedPlans, Restart
  <2>2. concurrent' \in BOOLEAN
    BY DEF SeedPlans, Restart, Kept
  <2> QED BY <2>1, <2>2, CatalogAssumption DEF Kept, CatalogAssumption
<1>8. \A c \in Codes : rows'[c] = rows[c]
  BY <1>4, CatalogAssumption DEF CatalogAssumption, Tables, Keys
<1>9. \A k \in Keys : Present(k) => Present(k)'
  BY <1>4 DEF Present
<1>10. RowsOK'
  BY <1>4, <1>5, <1>6, <1>8, <1>9 DEF Kept, RowsOK, RowsTyped, CodeOK, Present, Uses, Keys
<1>11. Advance
  BY <1>4, <1>6, <1>8, UsesType DEF Kept, Advance, Present, Uses, Terms, Keys
<1>12. CASE SeedPlans
  <2>1. ASSUME NEW v \in Handlers, calls[v].op = "create", NEW k \in calls[v].key
        PROVE  rows'[k].at = "absent"
    <3>1. k \in Keys /\ rows[k].at = "absent"
      BY <2>1 DEF Kept, CallsOK, CallOK, Call
    <3>2. k \in keys
      BY <1>2, <1>12, <2>1
    <3> QED BY <1>4, <3>1, <3>2
  <2> QED BY <1>7, <1>10, <1>11, <1>12, <2>1, OutsideKeeps DEF SeedPlans
<1>13. CASE Restart
  BY <1>7, <1>10, <1>11, <1>13, OutsideKeeps DEF Restart
<1> QED BY <1>12, <1>13

LEMMA InitKept == CatalogInit => Kept
<1> SUFFICES ASSUME CatalogInit PROVE Kept
  OBVIOUS
<1>1. PICK card \in Cards, code \in Codes, c \in FirstCodes :
          LET first == [k \in Keys |-> CASE k = card -> [at |-> "live", phase |-> "open"]
                                         [] k = code -> c
                                         [] OTHER -> Absent] IN
          \E seeded \in Seeded(first, Plans, {}) : rows \in Seeded(seeded, Pricing, {})
  BY DEF CatalogInit
<1> DEFINE first == [k \in Keys |-> CASE k = card -> [at |-> "live", phase |-> "open"]
                                      [] k = code -> c
                                      [] OTHER -> Absent]
<1>2. PICK seeded \in Seeded(first, Plans, {}) : rows \in Seeded(seeded, Pricing, {})
  BY <1>1
<1>3. card \in Keys /\ code \in Keys /\ card # code /\ c \in NewCodes
  BY CatalogAssumption DEF CatalogAssumption, Tables, Keys
<1>4. card \notin Codes
  BY CatalogAssumption DEF CatalogAssumption, Tables
<1>5. /\ first[card] = [at |-> "live", phase |-> "open"] /\ first[code] = c
      /\ \A k \in Keys \ {card, code} : first[k] = Absent
  BY <1>3
<1>6. /\ [at |-> "live", phase |-> "open"] \in PaymentCard
      /\ c \in PromoCode /\ c.at = "live" /\ c.used = 0
      /\ (c.type = "percentage" => c.value \in 0..100)
      /\ Absent \in NoRow /\ Absent.at = "absent"
  BY <1>3 DEF PaymentCard, Active, NewCodes, PromoCode, CodeUsed, Absent, NoRow
<1>7. DOMAIN first = Keys
  OBVIOUS
<1> HIDE DEF first
<1>8. RowsTyped(first)
  <2>1. \A k \in Keys : first[k] \in NoRow \cup RowType(k)
    BY <1>5, <1>6, RowTypes
  <2>2. \A k \in Keys : first[k] \in Row
    BY <2>1, RowTypeIsRow DEF Row
  <2>3. first = [k \in Keys |-> first[k]]
    BY DEF first
  <2> QED BY <2>1, <2>2, <2>3 DEF RowsTyped
<1>9. \A table \in {Plans, Pricing, Codes} : Distinct(first, table)
  <2>1. \A k \in Keys \ {card, code} : first[k].at # "live"
    BY <1>5, <1>6
  <2>2. \A table \in {Plans, Pricing, Codes} : card \notin table /\ table \subseteq Keys
    BY CatalogAssumption DEF CatalogAssumption, Tables, Keys
  <2> QED BY <2>1, <2>2 DEF Distinct
<1>10. /\ RowsTyped(seeded)
       /\ \A k \in Keys : seeded[k] = first[k] \/ k \in Plans
       /\ \A table \in {Plans, Pricing, Codes} : Distinct(seeded, table)
  BY <1>2, <1>8, <1>9, SeedingAdds
<1>11. /\ RowsTyped(rows)
       /\ \A k \in Keys : rows[k] = seeded[k] \/ k \in Pricing
       /\ \A table \in {Plans, Pricing, Codes} : Distinct(rows, table)
  BY <1>2, <1>10, SeedingAdds
<1>12. \A k \in Codes : rows[k] = first[k]
  BY <1>10, <1>11, CatalogAssumption DEF CatalogAssumption, Tables, Keys
<1>13. NamesUnique
  BY <1>11 DEF NamesUnique, Distinct, Present
<1>14. \A k \in Codes : CodeOK(k)
  <2> SUFFICES ASSUME NEW k \in Codes, Present(k) PROVE CodeOK(k)
    BY DEF CodeOK
  <2>1. k = code /\ rows[k] = c
    <3>1. k \in Keys /\ rows[k] = first[k]
      BY <1>12 DEF Keys
    <3>2. first[k].at = "live"
      BY <3>1 DEF Present
    <3>3. k # card
      BY <1>4
    <3> QED BY <1>5, <1>6, <3>1, <3>2, <3>3
  <2>2. Uses(k) = 0
    BY DEF Uses, CatalogInit
  <2> QED BY <1>6, <2>1, <2>2 DEF CodeOK
<1>15. RowsOK
  <2>1. 0 \in 0..MaxServed
    BY CatalogAssumption DEF CatalogAssumption
  <2>2. << >> \in Seq(Customers)
    OBVIOUS
  <2>3. features = [p \in Pricing |-> {0}] /\ latest = [p \in Pricing |-> 0]
        /\ links = [k \in Codes |-> {}] /\ usages = [k \in Codes |-> << >>]
        /\ edited = {} /\ referred = {}
    BY DEF CatalogInit
  <2>4. /\ features \in [Pricing -> SUBSET (0..MaxServed)] /\ latest \in [Pricing -> 0..MaxServed]
        /\ \A p \in Pricing : latest[p] \in features[p]
    BY <2>1, <2>3
  <2>5. /\ links \in [Codes -> SUBSET Pricing] /\ usages \in [Codes -> Seq(Customers)]
        /\ \A k \in Codes : links[k] = {} /\ usages[k] = << >>
    BY <2>2, <2>3
  <2>6. edited \subseteq Codes /\ referred \subseteq {k \in Plans \cup Cards : Present(k)}
    BY <2>3
  <2>7. rows \in [Keys -> Row] /\ \A k \in Keys : rows[k] \in NoRow \cup RowType(k)
    BY <1>11 DEF RowsTyped
  <2> QED BY <1>13, <1>14, <2>4, <2>5, <2>6, <2>7 DEF RowsOK
<1>16. CallsOK
  BY NoCallOK DEF CallsOK, CallOK, DrawnOnce, CatalogInit
<1>17. served \in 0..MaxServed /\ concurrent \in BOOLEAN
  <2>1. served = 0
    BY DEF CatalogInit
  <2>2. concurrent \in BOOLEAN
    BY DEF CatalogInit
  <2> QED BY <2>1, <2>2, CatalogAssumption DEF CatalogAssumption
<1> QED BY <1>15, <1>16, <1>17 DEF Kept

LEMMA NextKeeps == Kept /\ [CatalogNext]_catalogVars => Kept' /\ Advance
<1> SUFFICES ASSUME Kept, [CatalogNext]_catalogVars PROVE Kept' /\ Advance
  OBVIOUS
<1>1. CASE UNCHANGED catalogVars
  <2>1. RowsOK' /\ Advance
    BY <1>1, SameTables DEF Kept, catalogVars
  <2> QED BY <1>1, <2>1, OutsideKeeps DEF Kept, CallsOK, CallOK, catalogVars
<1>2. ASSUME NEW w \in Handlers, Handle(w) PROVE Kept' /\ Advance
  BY <1>2, RequestKeeps, CommitKeeps DEF Handle
<1>3. ASSUME NEW k \in Discounts \cup Codes, Elapse(k) PROVE Kept' /\ Advance
  BY <1>3, ElapseKeeps
<1> QED BY <1>1, <1>2, <1>3, SeedKeeps DEF CatalogNext

\* The inductive invariant: the rows are well formed, and every call in flight finds what it
\* relies on.
THEOREM CatalogKept == CatalogSpec => []Kept
BY InitKept, NextKeeps, PTL DEF CatalogSpec

\* A primary key is used once, also when defaults are seeded or a row is deleted while it
\* is being written; a use of a code is never taken back while the code is there; and its
\* terms change only where an administrator edits them.
THEOREM CatalogAdvances == CatalogSpec => [][Advance]_catalogVars
<1>1. Kept /\ [CatalogNext]_catalogVars => [Advance]_catalogVars
  BY NextKeeps
<1> QED BY <1>1, CatalogKept, PTL DEF CatalogSpec

\* Rows are well formed, names stay unique and what a payment or a subscription refers to
\* stays there (CatalogTypeOK), whatever overlaps.
THEOREM CatalogTypes == CatalogSpec => []CatalogTypeOK
<1>1. Kept => CatalogTypeOK
  BY DEF Kept, RowsOK, CallsOK, CatalogTypeOK, NamesUnique
<1> QED BY <1>1, CatalogKept, PTL

-------------------------------------------------------------------------------
(* Catalog: prices.                                                        *)

\* A percentage of an amount.
LEMMA Share ==
  ASSUME NEW a \in Nat, NEW v \in Nat
  PROVE  /\ (a * v) \div 100 \in Nat
         /\ v <= 100 => (a * v) \div 100 <= a
<1>1. a * v \in Nat
  OBVIOUS
<1>2. v <= 100 => a * v <= 100 * a
  OBVIOUS
<1>3. \A x \in Nat : x \div 100 \in Nat /\ (x <= 100 * a => x \div 100 <= a)
  OBVIOUS
<1> QED BY <1>1, <1>2, <1>3

\* No discount and no unedited promo code turns a price around (PriceIsSane).
THEOREM PricesAreSane == CatalogSpec => []PriceIsSane
<1> SUFFICES ASSUME Kept PROVE PriceIsSane
  BY CatalogKept, PTL
<1>1. \A k \in Keys : Present(k) => rows[k] \in RowType(k)
  BY RowTypeIsRow DEF Kept, RowsOK, Present
<1>2. Prices \subseteq Nat /\ Values \subseteq Nat /\ Amounts \subseteq Nat
      /\ Percentages \subseteq 0..100
  BY CatalogAssumption DEF CatalogAssumption
<1>3. ASSUME NEW p \in Pricing, Present(p), NEW shown \in ShownPrices(p)
      PROVE  shown \in 0..rows[p].price
  <2>1. PICK d \in Discounts :
            Present(d) /\ shown = DiscountedPrice(rows[p].price, rows[d].percentage)
    BY <1>3 DEF ShownPrices, OpenDiscounts
  <2>2. rows[p] \in PricingPlan /\ rows[d] \in Discount
    BY <1>1, <1>3, <2>1, RowTypes DEF Keys
  <2>3. rows[p].price \in Nat /\ rows[d].percentage \in 0..100
    BY <1>2, <2>2 DEF PricingPlan, Discount
  <2>4. 100 - rows[d].percentage \in Nat /\ 100 - rows[d].percentage <= 100
    BY <2>3
  <2> QED BY <2>1, <2>3, <2>4, Share DEF DiscountedPrice
<1>4. ASSUME NEW c \in Codes, NEW a \in Amounts, Present(c)
      PROVE  /\ FinalAmount(rows[c], a) <= a
             /\ c \notin edited => FinalAmount(rows[c], a) >= 0
  <2>1. rows[c] \in PromoCode
    BY <1>1, <1>4, RowTypes DEF Keys
  <2>2. a \in Nat /\ rows[c].value \in Nat
    BY <1>2, <2>1 DEF PromoCode, CodeUsed
  <2>3. c \notin edited /\ rows[c].type = "percentage" => rows[c].value <= 100
    <3>1. CodeOK(c)
      BY DEF Kept, RowsOK
    <3> QED BY <1>4, <2>2, <3>1 DEF CodeOK
  <2>4. Off(rows[c], a) \in Nat /\ (c \notin edited => Off(rows[c], a) <= a)
    <3>1. CASE rows[c].type = "percentage"
      BY <2>2, <2>3, <3>1, Share DEF Off
    <3>2. CASE rows[c].type # "percentage"
      BY <2>2, <3>2 DEF Off
    <3> QED BY <3>1, <3>2
  <2> QED BY <2>2, <2>4 DEF FinalAmount
<1> QED BY <1>3, <1>4 DEF PriceIsSane

-------------------------------------------------------------------------------
(* Catalog: what a code counts, and the lists of a plan.                   *)

\* The requests that have counted the uses of a code by a user, and will add one.
Redeeming(c, u) ==
    {w \in Handlers : calls[w].op = "redeem" /\ calls[w].key = {c} /\ calls[w].user = {u}}

\* How many of them the limit did not see.
Spare == IF concurrent THEN Cardinality(Handlers) - 1 ELSE 0

Room == \A c \in Codes, u \in Customers : Present(c) /\ c \notin edited =>
    UsesBy(c, u) + Cardinality(Redeeming(c, u)) <= rows[c].per_user + Spare

\* Until requests overlap, one is served at a time,
Alone == /\ concurrent => Handlers # {}
         /\ ~concurrent => \A v, w \in Handlers :
               calls[v].op # "idle" /\ calls[w].op # "idle" => v = w

\* it finds what it loaded,
AsLoaded(r) == \A k \in r.key :
    /\ r.op \in {"count", "redeem"} =>
          Present(k) /\ r.loaded.used = rows[k].used /\ ~Exhausted(r.loaded)
    /\ r.op = "update" /\ r.list # 0 => r.lists = features[k]

\* and the books agree.
CodesBooked == \A c \in Codes : Present(c) =>
    /\ rows[c].used = Uses(c)
    /\ c \notin edited /\ rows[c].limit > 0 => Uses(c) <= rows[c].limit

ListsBooked == \A p \in Pricing : features[p] = {latest[p]}

CallsBooked == \A w \in Handlers : AsLoaded(calls[w])

InOrder == ~concurrent => CodesBooked /\ ListsBooked /\ CallsBooked

Ordered == Alone /\ Room /\ InOrder

\* What a request that starts has loaded.
AsStarted(r) ==
    /\ r.op \notin {"idle", "redeem"}
    /\ \A k \in r.key :
          /\ r.op = "count" => Present(k) /\ r.loaded = rows[k] /\ ~Exhausted(r.loaded)
          /\ r.op = "update" /\ r.list # 0 => r.lists = features[k]

\* Every request starts from what is there.
LEMMA RequestBegins ==
  ASSUME NEW w \in Handlers,
         PlanRequest(w) \/ PricingRequest(w) \/ DiscountRequest(w) \/ CodeRequest(w)
         \/ UserRequest(w)
  PROVE  \E r : AsStarted(r) /\ Accept(w, r)
<1> DEFINE Begins == \E r : AsStarted(r) /\ Accept(w, r)
<1> SUFFICES Begins
  OBVIOUS
<1>1. ASSUME NEW k, NEW row, NEW plans, Create(w, k, row, plans) PROVE Begins
  <2> DEFINE r == [NoCall EXCEPT !.op = "create", !.key = {k}, !.sent = row, !.plans = plans]
  <2>1. AsStarted(r)
    BY DEF AsStarted, NoCall
  <2> QED BY <1>1, <2>1 DEF Create
<1>2. ASSUME NEW k, NEW row, NEW plans, NEW list, Update(w, k, row, plans, list) PROVE Begins
  <2> DEFINE r == [NoCall EXCEPT !.op = "update", !.key = {k}, !.loaded = rows[k], !.sent = row,
                                 !.plans = plans, !.list = list,
                                 !.lists = IF list = 0 THEN {} ELSE features[k]]
  <2>1. AsStarted(r)
    BY DEF AsStarted, NoCall
  <2> QED BY <1>2, <2>1 DEF Update
<1>3. ASSUME NEW k, DeleteRead(w, k) PROVE Begins
  <2> DEFINE r == [NoCall EXCEPT !.op = "delete", !.key = {k}, !.loaded = rows[k],
                                 !.plans = IF k \in Codes THEN {links[k]} ELSE {}]
  <2>1. AsStarted(r)
    BY DEF AsStarted, NoCall
  <2> QED BY <1>3, <2>1 DEF DeleteRead
<1>4. ASSUME NEW k \in Codes, ApplyRead(w, k) PROVE Begins
  <2>1. PICK u \in Customers :
            Accept(w, [NoCall EXCEPT !.op = "count", !.key = {k}, !.loaded = rows[k], !.user = {u}])
    BY <1>4 DEF ApplyRead
  <2> DEFINE r == [NoCall EXCEPT !.op = "count", !.key = {k}, !.loaded = rows[k], !.user = {u}]
  <2>2. Present(k) /\ ~Exhausted(rows[k])
    BY <1>4 DEF ApplyRead, Applies
  <2>3. AsStarted(r)
    BY <2>2 DEF AsStarted, NoCall
  <2> QED BY <2>1, <2>3
<1>5. ASSUME NEW k, PayRead(w, k) \/ SubscribeLookup(w, k) PROVE Begins
  <2>1. PICK op \in {"pay", "subscribe"} : Accept(w, [NoCall EXCEPT !.op = op, !.key = {k}])
    BY <1>5 DEF PayRead, SubscribeLookup
  <2> DEFINE r == [NoCall EXCEPT !.op = op, !.key = {k}]
  <2>2. AsStarted(r)
    BY DEF AsStarted, NoCall
  <2> QED BY <2>1, <2>2
<1> HIDE DEF Begins
<1>6. CASE PlanRequest(w)
  BY <1>1, <1>2, <1>3, <1>6 DEF PlanRequest, CreatePlan, UpdatePlan, CreateCard, UpdateCard
<1>7. CASE PricingRequest(w)
  BY <1>2, <1>7 DEF PricingRequest, UpdatePricing
<1>8. CASE DiscountRequest(w)
  BY <1>1, <1>2, <1>3, <1>8 DEF DiscountRequest, CreateDiscount, UpdateDiscount
<1>9. CASE CodeRequest(w)
  BY <1>1, <1>2, <1>3, <1>9 DEF CodeRequest, CreateCode, UpdateCode
<1>10. CASE UserRequest(w)
  BY <1>4, <1>5, <1>10 DEF UserRequest
<1> QED BY <1>6, <1>7, <1>8, <1>9, <1>10

LEMMA UsesByType ==
  ASSUME RowsOK, NEW c \in Codes, NEW u
  PROVE  /\ IsFiniteSet({i \in DOMAIN usages[c] : usages[c][i] = u})
         /\ UsesBy(c, u) \in Nat
         /\ usages[c] = << >> => UsesBy(c, u) = 0
<1>1. IsFiniteSet(DOMAIN usages[c])
  <2>1. PICK n \in Nat : DOMAIN usages[c] = 1..n
    BY DEF RowsOK
  <2>2. IsFiniteSet(1..n)
    BY FS_Interval
  <2> QED BY <2>1, <2>2
<1>2. IsFiniteSet({i \in DOMAIN usages[c] : usages[c][i] = u})
  BY <1>1, FS_Subset
<1>3. usages[c] = << >> => {i \in DOMAIN usages[c] : usages[c][i] = u} = {}
  OBVIOUS
<1> QED BY <1>2, <1>3, FS_CardinalityType, FS_EmptySet DEF UsesBy

\* A new usage is one more of its user and of nobody else.
LEMMA UsesByGrows ==
  ASSUME RowsOK, NEW c \in Codes, NEW u, NEW v,
         usages'[c] = Append(usages[c], v)
  PROVE  UsesBy(c, u)' = IF u = v THEN UsesBy(c, u) + 1 ELSE UsesBy(c, u)
<1> DEFINE n == Len(usages[c])
           U == {i \in DOMAIN usages[c] : usages[c][i] = u}
           W == {i \in DOMAIN usages'[c] : usages'[c][i] = u}
<1>1. /\ n \in Nat /\ DOMAIN usages[c] = 1..n /\ DOMAIN usages'[c] = 1..(n + 1)
      /\ usages'[c][n + 1] = v
      /\ \A i \in 1..n : usages'[c][i] = usages[c][i]
  BY DEF RowsOK
<1>2. n + 1 \notin U /\ W = IF u = v THEN U \cup {n + 1} ELSE U
  BY <1>1
<1>3. IsFiniteSet(U)
  BY UsesByType
<1>4. UsesBy(c, u) = Cardinality(U) /\ UsesBy(c, u)' = Cardinality(W)
  BY DEF UsesBy
<1> HIDE DEF U, W
<1> QED BY <1>2, <1>3, <1>4, FS_AddElement

LEMMA RedeemingType ==
  /\ \A c, u : /\ IsFiniteSet(Redeeming(c, u)) /\ Redeeming(c, u) \subseteq Handlers
               /\ Cardinality(Redeeming(c, u)) \in Nat
               /\ Cardinality(Redeeming(c, u)) <= Cardinality(Handlers)
  /\ \A c, u : /\ IsFiniteSet(Redeeming(c, u)') /\ Redeeming(c, u)' \subseteq Handlers
               /\ Cardinality(Redeeming(c, u)') \in Nat
               /\ Cardinality(Redeeming(c, u)') <= Cardinality(Handlers)
  /\ Cardinality(Handlers) \in Nat /\ (Handlers # {} => Cardinality(Handlers) > 0)
  /\ Spare \in Int /\ Spare' \in Int
<1>1. IsFiniteSet(Handlers)
  BY CatalogAssumption DEF CatalogAssumption
<1>2. \A S \in SUBSET Handlers :
          IsFiniteSet(S) /\ Cardinality(S) \in Nat /\ Cardinality(S) <= Cardinality(Handlers)
  BY <1>1, FS_Subset, FS_CardinalityType
<1>3. \A c, u : Redeeming(c, u) \in SUBSET Handlers /\ Redeeming(c, u)' \in SUBSET Handlers
  BY DEF Redeeming
<1>4. Cardinality(Handlers) \in Nat /\ (Handlers # {} => Cardinality(Handlers) > 0)
  BY <1>1, FS_CardinalityType, FS_EmptySet
<1>5. Spare \in Int /\ Spare' \in Int
  BY <1>4 DEF Spare
<1> QED BY <1>2, <1>3, <1>4, <1>5

LEMMA AloneStays ==
  ASSUME Kept, Alone, concurrent => concurrent',
         concurrent' => Handlers # {},
         \/ calls' = calls
         \/ calls' = [v \in Handlers |-> NoCall]
         \/ \E w \in Handlers, r \in Call :
               /\ calls' = [calls EXCEPT ![w] = r]
               /\ \/ calls[w].op # "idle"
                  \/ concurrent'
                  \/ \A v \in Handlers : calls[v].op = "idle"
  PROVE  Alone'
<1> SUFFICES ASSUME ~concurrent', NEW u \in Handlers, NEW v \in Handlers,
                    calls'[u].op # "idle", calls'[v].op # "idle"
             PROVE  u = v
  BY DEF Alone
<1>1. calls[u].op # "idle" /\ calls[v].op # "idle" => u = v
  BY DEF Alone
<1>2. CASE calls' = calls
  BY <1>1, <1>2
<1>3. CASE calls' = [q \in Handlers |-> NoCall]
  BY <1>3, NoCallOK
<1>4. ASSUME NEW w \in Handlers, NEW r \in Call, calls' = [calls EXCEPT ![w] = r],
             calls[w].op # "idle" \/ \A q \in Handlers : calls[q].op = "idle"
      PROVE  u = v
  <2>1. \A q \in Handlers \ {w} : calls'[q] = calls[q]
    BY <1>4 DEF Kept, CallsOK
  <2>2. \A q \in Handlers : calls[q].op # "idle" /\ calls[w].op # "idle" => q = w
    BY DEF Alone
  <2> QED BY <1>4, <2>1, <2>2
<1> QED BY <1>2, <1>3, <1>4

LEMMA SpareGrows ==
  ASSUME Alone, Alone', concurrent => concurrent'
  PROVE  Spare \in Nat /\ Spare' \in Nat /\ Spare <= Spare'
<1>1. Cardinality(Handlers) \in Nat /\ (Handlers # {} => Cardinality(Handlers) > 0)
  BY RedeemingType
<1>2. CASE concurrent
  <2>1. Spare = Cardinality(Handlers) - 1 /\ Spare' = Cardinality(Handlers) - 1
    BY <1>2 DEF Spare
  <2>2. Handlers # {}
    BY <1>2 DEF Alone
  <2> QED BY <1>1, <2>1, <2>2
<1>3. CASE ~concurrent
  <2>1. Spare = 0
    BY <1>3 DEF Spare
  <2>2. Spare' = 0 \/ (Spare' = Cardinality(Handlers) - 1 /\ Handlers # {})
    BY DEF Spare, Alone
  <2> QED BY <1>1, <2>1, <2>2
<1> QED BY <1>2, <1>3

\* The limit of a user, as a number.
LEMMA PerUserType ==
  /\ RowsOK => \A c \in Codes : Present(c) => rows[c].per_user \in Nat
  /\ RowsOK' => \A c \in Codes : Present(c)' => rows'[c].per_user \in Nat
<1>1. Limits \subseteq Nat
  BY CatalogAssumption DEF CatalogAssumption
<1>2. ASSUME RowsOK, NEW c \in Codes, Present(c) PROVE rows[c].per_user \in Nat
  <2>1. rows[c] \in PromoCode
    BY <1>2, RowTypes, RowTypeIsRow DEF RowsOK, Present, Keys
  <2> QED BY <1>1, <2>1 DEF PromoCode, CodeUsed
<1>3. ASSUME RowsOK', NEW c \in Codes, Present(c)' PROVE rows'[c].per_user \in Nat
  <2>1. rows'[c] \in PromoCode
    BY <1>3, RowTypes, RowTypeIsRow DEF RowsOK, Present, Keys
  <2> QED BY <1>1, <2>1 DEF PromoCode, CodeUsed
<1> QED BY <1>2, <1>3

\* A code that was there before and is not edited has the limit it had; a new one is unused.
LEMMA OldOrNew ==
  ASSUME Kept, Kept', Advance, NEW c \in Codes, Present(c)', c \notin edited'
  PROVE  /\ c \notin edited
         /\ Present(c) => Terms(rows'[c]) = Terms(rows[c])
         /\ ~Present(c) => usages[c] = << >> /\ \A u : Redeeming(c, u) = {}
<1>1. c \notin edited /\ c \in Keys
  BY DEF Advance, Keys
<1>2. Present(c) => Terms(rows'[c]) = Terms(rows[c])
  BY DEF Advance
<1>3. ASSUME ~Present(c) PROVE usages[c] = << >> /\ \A u : Redeeming(c, u) = {}
  <2>1. usages[c] = << >>
    BY <1>3 DEF Kept, RowsOK
  <2>2. rows[c].at = "absent"
    BY <1>1, <1>3 DEF Advance
  <2>3. \A w \in Handlers : ~(calls[w].op = "redeem" /\ calls[w].key = {c})
    BY <2>2 DEF Kept, CallsOK, CallOK
  <2> QED BY <2>1, <2>3 DEF Redeeming
<1> QED BY <1>1, <1>2, <1>3

\* Room stays unless a place is taken or a use is added.
LEMMA RoomStays ==
  ASSUME Kept, Kept', Advance, Alone, Alone', Room, concurrent => concurrent',
         \A c, u : Redeeming(c, u)' \subseteq Redeeming(c, u),
         \A c \in Codes : Present(c)' => usages'[c] = usages[c]
  PROVE  Room'
<1> SUFFICES ASSUME NEW c \in Codes, NEW u \in Customers, Present(c)', c \notin edited'
             PROVE  UsesBy(c, u)' + Cardinality(Redeeming(c, u)')
                        <= rows'[c].per_user + Spare'
  BY DEF Room
<1>1. Cardinality(Redeeming(c, u)') <= Cardinality(Redeeming(c, u))
  BY RedeemingType, FS_Subset
<1>2. UsesBy(c, u)' = UsesBy(c, u) /\ UsesBy(c, u) \in Nat
  BY UsesByType DEF UsesBy, Kept
<1>3. Spare \in Nat /\ Spare' \in Nat /\ Spare <= Spare'
  BY SpareGrows
<1>4. rows'[c].per_user \in Nat
  BY PerUserType DEF Kept
<1>5. Cardinality(Redeeming(c, u)') \in Nat /\ Cardinality(Redeeming(c, u)) \in Nat
  BY RedeemingType
<1>6. CASE Present(c)
  <2>1. rows'[c].per_user = rows[c].per_user /\ c \notin edited
    BY <1>6, OldOrNew DEF Terms
  <2>2. UsesBy(c, u) + Cardinality(Redeeming(c, u)) <= rows[c].per_user + Spare
    BY <1>6, <2>1 DEF Room
  <2> QED BY <1>1, <1>2, <1>3, <1>4, <1>5, <2>1, <2>2
<1>7. CASE ~Present(c)
  <2>1. UsesBy(c, u) = 0
    BY <1>7, OldOrNew, UsesByType DEF Kept
  <2>2. Redeeming(c, u) = {}
    BY <1>7, OldOrNew
  <2>3. Cardinality(Redeeming(c, u)) = 0
    BY <2>2, FS_EmptySet
  <2> QED BY <1>1, <1>2, <1>3, <1>4, <1>5, <2>1, <2>3
<1> QED BY <1>6, <1>7

LEMMA CodesStayBooked ==
  ASSUME Kept, Kept', Advance, CodesBooked,
         \A c \in Codes : Present(c)' => usages'[c] = usages[c],
         \A c \in Codes : Present(c)' =>
             rows'[c].used = IF Present(c) THEN rows[c].used ELSE 0
  PROVE  CodesBooked'
<1> SUFFICES ASSUME NEW c \in Codes, Present(c)'
             PROVE  /\ rows'[c].used = Uses(c)'
                    /\ c \notin edited' /\ rows'[c].limit > 0 => Uses(c)' <= rows'[c].limit
  BY DEF CodesBooked
<1>1. Uses(c)' = Uses(c) /\ Uses(c) \in Nat
  BY UsesType DEF Uses, Kept
<1>2. CASE Present(c)
  <2>1. rows'[c].used = Uses(c)'
    BY <1>1, <1>2 DEF CodesBooked
  <2>2. ASSUME c \notin edited' PROVE rows'[c].limit = rows[c].limit /\ c \notin edited
    BY <1>2, <2>2, OldOrNew DEF Terms
  <2> QED BY <1>1, <1>2, <2>1, <2>2 DEF CodesBooked
<1>3. CASE ~Present(c)
  <2>1. usages[c] = << >>
    BY <1>3 DEF Kept, RowsOK
  <2>2. Uses(c) = 0 /\ rows'[c].used = 0
    BY <1>3, <2>1 DEF Uses
  <2>3. rows'[c].limit > 0 => 0 <= rows'[c].limit
    <3>1. rows'[c] \in PromoCode
      BY RowTypes, RowTypeIsRow DEF Kept, RowsOK, Present, Keys
    <3>2. rows'[c].limit \in Nat
      BY <3>1, CatalogAssumption DEF PromoCode, CodeUsed, CatalogAssumption
    <3> QED BY <3>2
  <2> QED BY <1>1, <2>2, <2>3
<1> QED BY <1>2, <1>3

\* While one request is served, the others have nothing in flight.
LEMMA OneCallBooked ==
  ASSUME Kept, Alone, ~concurrent, NEW w \in Handlers, NEW r,
         calls' = [calls EXCEPT ![w] = r], AsLoaded(r)',
         calls[w].op # "idle" \/ \A v \in Handlers : calls[v].op = "idle"
  PROVE  CallsBooked'
<1>1. ASSUME NEW v \in Handlers, v # w PROVE calls'[v] = calls[v] /\ calls[v].key = {}
  <2>1. calls[v].op = "idle"
    BY <1>1 DEF Alone
  <2>2. CallOK(calls[v])
    BY DEF Kept, CallsOK
  <2>3. calls[v].key = {}
    BY <2>1, <2>2 DEF CallOK
  <2> QED BY <1>1, <2>3 DEF Kept, CallsOK
<1>2. calls'[w] = r
  BY DEF Kept, CallsOK
<1> QED BY <1>1, <1>2 DEF CallsBooked, AsLoaded

LEMMA RequestOrdered ==
  ASSUME Kept, Ordered, NEW w \in Handlers,
         PlanRequest(w) \/ PricingRequest(w) \/ DiscountRequest(w) \/ CodeRequest(w)
         \/ UserRequest(w)
  PROVE  Ordered'
<1>1. Kept' /\ Advance
  BY RequestKeeps
<1>2. PICK r : AsStarted(r) /\ Accept(w, r)
  BY RequestBegins
<1>3. /\ calls' = [calls EXCEPT ![w] = r]
      /\ UNCHANGED <<rows, features, usages, latest, edited>>
      /\ concurrent' = (concurrent \/ \E v \in Handlers : calls[v].op # "idle")
  BY <1>2 DEF Accept
<1>4. r \in Call /\ calls'[w] = r /\ \A v \in Handlers \ {w} : calls'[v] = calls[v]
  BY <1>1, <1>3 DEF Kept, CallsOK
<1>5. /\ concurrent => concurrent'
      /\ concurrent' => Handlers # {}
      /\ ~concurrent' => ~concurrent /\ \A v \in Handlers : calls[v].op = "idle"
  BY <1>3
<1>6. Alone'
  BY <1>3, <1>4, <1>5, AloneStays DEF Ordered
<1>7. r.op # "redeem"
  BY <1>2 DEF AsStarted
<1>8. \A c, u : Redeeming(c, u)' \subseteq Redeeming(c, u)
  BY <1>4, <1>7 DEF Redeeming
<1>9. Room'
  BY <1>1, <1>3, <1>5, <1>6, <1>8, RoomStays DEF Ordered
<1>10. ASSUME ~concurrent' PROVE CodesBooked' /\ ListsBooked' /\ CallsBooked'
  <2>1. CodesBooked /\ ListsBooked
    BY <1>5, <1>10 DEF Ordered, InOrder
  <2>2. CodesBooked' /\ ListsBooked'
    BY <1>3, <2>1 DEF CodesBooked, ListsBooked, Present, Uses
  <2>3. AsLoaded(r)'
    BY <1>2, <1>3 DEF AsStarted, AsLoaded, Present
  <2> QED BY <1>3, <1>5, <1>10, <2>2, <2>3, OneCallBooked DEF Ordered
<1> QED BY <1>6, <1>9, <1>10 DEF Ordered, InOrder

\* An answer that adds no use.
LEMMA AnswerOrdered ==
  ASSUME Kept, Kept', Advance, Ordered, NEW w \in Handlers, calls[w].op # "idle", Answer(w),
         concurrent' = concurrent,
         \A c \in Codes : Present(c)' => usages'[c] = usages[c],
         \A c \in Codes : Present(c)' =>
             rows'[c].used = IF Present(c) THEN rows[c].used ELSE 0,
         ~concurrent => ListsBooked'
  PROVE  Ordered'
<1>1. calls' = [calls EXCEPT ![w] = NoCall]
  BY DEF Answer
<1>2. calls'[w] = NoCall /\ \A v \in Handlers \ {w} : calls'[v] = calls[v]
  BY <1>1 DEF Kept, CallsOK
<1>3. concurrent' => Handlers # {}
  OBVIOUS
<1>4. Alone'
  BY <1>1, <1>3, NoCallOK, AloneStays DEF Ordered
<1>5. \A c, u : Redeeming(c, u)' \subseteq Redeeming(c, u)
  BY <1>2, NoCallOK DEF Redeeming
<1>6. Room'
  BY <1>4, <1>5, RoomStays DEF Ordered
<1>7. ASSUME ~concurrent PROVE CodesBooked' /\ CallsBooked'
  <2>1. CodesBooked
    BY <1>7 DEF Ordered, InOrder
  <2>2. CodesBooked'
    BY <2>1, CodesStayBooked
  <2>3. AsLoaded(NoCall)'
    BY NoCallOK DEF AsLoaded
  <2> QED BY <1>1, <1>7, <2>2, <2>3, OneCallBooked DEF Ordered
<1> QED BY <1>4, <1>6, <1>7 DEF Ordered, InOrder

LEMMA InsertOrdered ==
  ASSUME Kept, Ordered, NEW w \in Handlers, Insert(w)
  PROVE  Ordered'
<1>1. Kept' /\ Advance
  BY InsertKeeps
<1>2. PICK k \in calls[w].key : rows' = [rows EXCEPT ![k] = calls[w].sent]
  BY DEF Insert
<1>3. PICK r \in Call : r = calls[w] /\ CallOK(r)
  BY DEF Kept, CallsOK
<1>4. k \in Keys /\ rows[k].at = "absent" /\ (k \in Codes => r.sent.used = 0)
  BY <1>2, <1>3 DEF CallOK, Call, Insert, Serving, NewCodes, CodeUsed
<1>5. rows'[k] = r.sent /\ \A l \in Keys \ {k} : rows'[l] = rows[l]
  BY <1>2, <1>3, <1>4 DEF Kept, RowsOK
<1>6. \A c \in Codes : Present(c)' =>
          rows'[c].used = IF Present(c) THEN rows[c].used ELSE 0
  BY <1>4, <1>5 DEF Present, Keys
<1>7. UNCHANGED <<features, usages, latest, concurrent>>
      /\ Answer(w) /\ calls[w].op # "idle"
  BY DEF Insert, Serving
<1>8. ~concurrent => ListsBooked'
  BY <1>7 DEF Ordered, InOrder, ListsBooked
<1> QED BY <1>1, <1>6, <1>7, <1>8, AnswerOrdered

LEMMA WriteOrdered ==
  ASSUME Kept, Ordered, NEW w \in Handlers, Write(w)
  PROVE  Ordered'
<1>1. Kept' /\ Advance
  BY WriteKeeps
<1>2. PICK r \in Call : r = calls[w] /\ CallOK(r)
  BY DEF Kept, CallsOK
<1>3. PICK k \in r.key :
          /\ Present(k)
          /\ rows' = [rows EXCEPT ![k] = Merge(rows[k], r.loaded, r.sent)]
          /\ features' = IF r.list = 0 THEN features
                                       ELSE [features EXCEPT ![k] = NewFeatures(r, k)]
          /\ latest' = IF r.list = 0 THEN latest ELSE [latest EXCEPT ![k] = r.list]
  BY <1>2 DEF Write
<1>4. /\ r.op = "update" /\ r.loaded \in RowType(k) /\ r.sent \in RowType(k) /\ k \in Keys
      /\ r.list # 0 => k \in Pricing
      /\ k \in Codes => r.sent.used = r.loaded.used
  BY <1>2, <1>3 DEF CallOK, Call, Write, Serving
<1>5. UNCHANGED <<usages, concurrent>> /\ Answer(w) /\ calls[w].op # "idle"
  BY DEF Write, Serving
<1>6. ASSUME NEW c \in Codes, Present(c)'
      PROVE  rows'[c].used = IF Present(c) THEN rows[c].used ELSE 0
  <2>1. c \in Keys
    BY DEF Keys
  <2>2. CASE c = k
    <3>1. rows[c] \in PromoCode /\ r.loaded \in PromoCode /\ r.sent \in PromoCode
      BY <1>3, <1>4, <2>2, RowTypes, RowTypeIsRow DEF Kept, RowsOK, Present
    <3>2. rows'[c] = Merge(rows[c], r.loaded, r.sent)
      BY <1>3, <2>1, <2>2 DEF Kept, RowsOK
    <3> QED BY <1>3, <1>4, <2>2, <3>1, <3>2, MergeCode
  <2>3. CASE c # k
    BY <1>3, <1>6, <2>1, <2>3 DEF Kept, RowsOK, Present
  <2> QED BY <2>2, <2>3
<1>7. ASSUME ~concurrent PROVE ListsBooked'
  <2>1. ListsBooked /\ AsLoaded(r)
    BY <1>2, <1>7 DEF Ordered, InOrder, CallsBooked
  <2>2. CASE r.list = 0
    BY <1>3, <2>1, <2>2 DEF ListsBooked
  <2>3. CASE r.list # 0
    <3>1. r.lists = features[k] /\ k \in Pricing
      BY <1>3, <1>4, <2>1, <2>3 DEF AsLoaded
    <3>2. NewFeatures(r, k) = {r.list}
      BY <3>1 DEF NewFeatures
    <3> QED BY <1>3, <2>1, <2>3, <3>1, <3>2 DEF ListsBooked, Kept, RowsOK
  <2> QED BY <2>2, <2>3
<1> QED BY <1>1, <1>5, <1>6, <1>7, AnswerOrdered

LEMMA DeleteOrdered ==
  ASSUME Kept, Ordered, NEW w \in Handlers, Delete(w)
  PROVE  Ordered'
<1>1. Kept' /\ Advance
  BY DeleteKeeps
<1>2. PICK r \in Call : r = calls[w]
  BY DEF Kept, CallsOK
<1>3. PICK k \in r.key :
          /\ rows' = [rows EXCEPT ![k] = [at |-> "deleted"]]
          /\ IF k \in Codes THEN usages' = [usages EXCEPT ![k] = << >>]
                            ELSE usages' = usages
  BY <1>2 DEF Delete
<1>4. k \in Keys
  BY <1>2, <1>3 DEF Call
<1>5. ASSUME NEW c \in Codes, Present(c)'
      PROVE  c # k /\ rows'[c] = rows[c] /\ usages'[c] = usages[c]
  BY <1>3, <1>4, <1>5 DEF Kept, RowsOK, Present, Keys
<1>6. \A c \in Codes : Present(c)' =>
          rows'[c].used = IF Present(c) THEN rows[c].used ELSE 0
  BY <1>5 DEF Present
<1>7. UNCHANGED <<features, latest, concurrent>> /\ Answer(w) /\ calls[w].op # "idle"
  BY DEF Delete, Serving
<1>8. ~concurrent => ListsBooked'
  BY <1>7 DEF Ordered, InOrder, ListsBooked
<1> QED BY <1>1, <1>5, <1>6, <1>7, <1>8, AnswerOrdered

LEMMA OtherOrdered ==
  ASSUME Kept, Ordered, NEW w \in Handlers, Pay(w) \/ Subscribe(w) \/ Fail(w)
  PROVE  Ordered'
<1>1. Kept' /\ Advance
  BY CommitKeeps DEF Commit
<1>2. UNCHANGED <<rows, features, usages, latest, concurrent>>
      /\ Answer(w) /\ calls[w].op # "idle"
  BY DEF Pay, Subscribe, Fail, Serving
<1>3. \A c \in Codes : Present(c)' =>
          rows'[c].used = IF Present(c) THEN rows[c].used ELSE 0
  BY <1>2 DEF Present
<1>4. ~concurrent => ListsBooked'
  BY <1>2 DEF Ordered, InOrder, ListsBooked
<1> QED BY <1>1, <1>2, <1>3, <1>4, AnswerOrdered

\* A request takes the place that it has counted,
LEMMA ApplyCountOrdered ==
  ASSUME Kept, Ordered, NEW w \in Handlers, ApplyCount(w)
  PROVE  Ordered'
<1>1. Kept' /\ Advance
  BY CommitKeeps DEF Commit
<1>2. PICK r \in Call : r = calls[w] /\ CallOK(r)
  BY DEF Kept, CallsOK
<1>3. PICK k \in r.key, u \in r.user : UserMayUse(r, k, u)
  BY <1>2 DEF ApplyCount
<1>4. /\ r.op = "count" /\ r.key = {k} /\ r.user = {u} /\ k \in Codes /\ k \in Keys
      /\ u \in Customers /\ r.loaded \in PromoCode
      /\ Present(k) /\ k \notin edited => Terms(r.loaded) = Terms(rows[k])
  BY <1>2, <1>3 DEF CallOK, Call, ApplyCount, Serving, Keys
<1> DEFINE q == [r EXCEPT !.op = "redeem"]
<1>5. /\ q \in Call /\ q.op = "redeem" /\ q.key = {k} /\ q.user = {u} /\ q.loaded = r.loaded
      /\ calls' = [calls EXCEPT ![w] = q]
  BY <1>2, <1>4 DEF Call, ApplyCount, Kept, CallsOK
<1>6. UNCHANGED <<rows, features, usages, latest, edited, concurrent>> /\ calls[w].op # "idle"
  BY DEF ApplyCount, Serving
<1> HIDE DEF q
<1>7. calls'[w] = q /\ \A v \in Handlers \ {w} : calls'[v] = calls[v]
  BY <1>5 DEF Kept, CallsOK
<1>8. concurrent' => Handlers # {}
  OBVIOUS
<1>9. Alone'
  BY <1>5, <1>6, <1>8, AloneStays DEF Ordered
<1>10. ASSUME NEW c \in Codes, NEW a \in Customers, Present(c), c \notin edited
       PROVE  UsesBy(c, a) + Cardinality(Redeeming(c, a)') <= rows[c].per_user + Spare
  <2>1. UsesBy(c, a) \in Nat /\ rows[c].per_user \in Nat
    BY <1>10, UsesByType, PerUserType DEF Kept
  <2>2. CASE c = k /\ a = u
    <3>1. UsesBy(c, a) < rows[c].per_user
      BY <1>3, <1>4, <1>10, <2>2 DEF UserMayUse, Terms
    <3>2. Cardinality(Redeeming(c, a)') \in Nat
          /\ Cardinality(Redeeming(c, a)') <= Cardinality(Handlers)
          /\ Cardinality(Handlers) \in Nat
      BY RedeemingType
    <3>3. CASE concurrent
      <4>1. Spare = Cardinality(Handlers) - 1
        BY <3>3 DEF Spare
      <4> QED BY <2>1, <3>1, <3>2, <4>1
    <3>4. CASE ~concurrent
      <4>1. \A v \in Handlers : calls[v].op # "idle" => v = w
        BY <1>6, <3>4 DEF Ordered, Alone
      <4>2. Redeeming(c, a)' \subseteq {w}
        BY <1>7, <4>1 DEF Redeeming
      <4>3. Cardinality(Redeeming(c, a)') <= 1
        <5>1. IsFiniteSet({w}) /\ Cardinality({w}) = 1
          BY FS_Singleton
        <5> QED BY <4>2, <5>1, FS_Subset
      <4>4. Spare = 0
        BY <3>4 DEF Spare
      <4> QED BY <2>1, <3>1, <3>2, <4>3, <4>4
    <3> QED BY <3>3, <3>4
  <2>3. CASE c # k \/ a # u
    <3>1. Redeeming(c, a)' = Redeeming(c, a)
      BY <1>2, <1>4, <1>5, <1>7, <2>3 DEF Redeeming
    <3> QED BY <1>10, <3>1 DEF Ordered, Room
  <2> QED BY <2>2, <2>3
<1>11. Room'
  BY <1>6, <1>10 DEF Room, Present, UsesBy, Spare
<1>12. ASSUME ~concurrent' PROVE CodesBooked' /\ ListsBooked' /\ CallsBooked'
  <2>1. CodesBooked /\ ListsBooked /\ AsLoaded(r)
    BY <1>2, <1>6, <1>12 DEF Ordered, InOrder, CallsBooked
  <2>2. CodesBooked' /\ ListsBooked'
    BY <1>6, <2>1 DEF CodesBooked, ListsBooked, Present, Uses
  <2>3. AsLoaded(q)'
    BY <1>4, <1>5, <1>6, <2>1 DEF AsLoaded, Present
  <2> QED BY <1>5, <1>6, <1>12, <2>2, <2>3, OneCallBooked DEF Ordered
<1> QED BY <1>9, <1>11, <1>12 DEF Ordered, InOrder

\* and gives it up for a use.
LEMMA RedeemOrdered ==
  ASSUME Kept, Ordered, NEW w \in Handlers, Redeem(w)
  PROVE  Ordered'
<1>1. Kept' /\ Advance
  BY RedeemKeeps
<1>2. PICK r \in Call : r = calls[w] /\ CallOK(r)
  BY DEF Kept, CallsOK
<1>3. PICK k \in r.key, u \in r.user :
          /\ Present(k)
          /\ rows' = [rows EXCEPT ![k].used = r.loaded.used + 1]
          /\ usages' = [usages EXCEPT ![k] = Append(@, u)]
  BY <1>2 DEF Redeem
<1>4. /\ r.op = "redeem" /\ r.key = {k} /\ r.user = {u} /\ k \in Codes /\ k \in Keys
      /\ u \in Customers /\ r.loaded \in PromoCode
      /\ k \notin edited => Terms(r.loaded) = Terms(rows[k])
  BY <1>2, <1>3 DEF CallOK, Call, Redeem, Serving, Keys
<1>5. UNCHANGED <<features, latest, edited, concurrent>> /\ calls[w].op # "idle"
      /\ calls' = [calls EXCEPT ![w] = NoCall]
  BY DEF Redeem, Serving, Answer
<1>6. calls'[w] = NoCall /\ \A v \in Handlers \ {w} : calls'[v] = calls[v]
  BY <1>5 DEF Kept, CallsOK
<1>7. concurrent' => Handlers # {}
  OBVIOUS
<1>8. Alone'
  BY <1>5, <1>6, <1>7, NoCallOK, AloneStays DEF Ordered
<1>9. rows[k] \in PromoCode
  BY <1>3, <1>4, RowTypes, RowTypeIsRow DEF Kept, RowsOK, Present
<1>10. /\ \A c \in Codes \ {k} : rows'[c] = rows[c] /\ usages'[c] = usages[c]
       /\ rows'[k] = [rows[k] EXCEPT !.used = r.loaded.used + 1]
       /\ usages'[k] = Append(usages[k], u)
  BY <1>3, <1>4 DEF Kept, RowsOK, Keys
<1>11. /\ rows'[k].used = r.loaded.used + 1 /\ rows'[k].per_user = rows[k].per_user
       /\ rows'[k].limit = rows[k].limit
  BY <1>9, <1>10 DEF PromoCode, CodeUsed
<1>12. \A c \in Codes : rows'[c].per_user = rows[c].per_user /\ rows'[c].limit = rows[c].limit
                        /\ (Present(c)' => Present(c))
  BY <1>3, <1>10, <1>11 DEF Present
<1>13. Spare' = Spare
  BY <1>5 DEF Spare
<1>14. ASSUME NEW c \in Codes, NEW a \in Customers, Present(c), c \notin edited
       PROVE  UsesBy(c, a)' + Cardinality(Redeeming(c, a)') <= rows[c].per_user + Spare
  <2>1. UsesBy(c, a) + Cardinality(Redeeming(c, a)) <= rows[c].per_user + Spare
    BY <1>14 DEF Ordered, Room
  <2>2. CASE c = k /\ a = u
    <3>1. UsesBy(c, a)' = UsesBy(c, a) + 1 /\ UsesBy(c, a) \in Nat
      BY <1>10, <2>2, UsesByGrows, UsesByType DEF Kept
    <3>2. w \in Redeeming(c, a) /\ Redeeming(c, a)' = Redeeming(c, a) \ {w}
      BY <1>2, <1>4, <1>6, <2>2, NoCallOK DEF Redeeming
    <3>3. Cardinality(Redeeming(c, a)') = Cardinality(Redeeming(c, a)) - 1
      BY <3>2, RedeemingType, FS_RemoveElement
    <3>4. Cardinality(Redeeming(c, a)) \in Nat
      BY RedeemingType
    <3>5. UsesBy(c, a)' + Cardinality(Redeeming(c, a)')
              = UsesBy(c, a) + Cardinality(Redeeming(c, a))
      BY <3>1, <3>3, <3>4
    <3> QED BY <2>1, <3>5
  <2>3. CASE c # k \/ a # u
    <3>1. Redeeming(c, a)' = Redeeming(c, a)
      BY <1>2, <1>4, <1>6, <2>3, NoCallOK DEF Redeeming
    <3>2. UsesBy(c, a)' = UsesBy(c, a)
      <4>1. CASE c = k
        BY <1>10, <2>3, <4>1, UsesByGrows DEF Kept
      <4>2. CASE c # k
        BY <1>10, <4>2 DEF UsesBy
      <4> QED BY <4>1, <4>2
    <3> QED BY <2>1, <3>1, <3>2
  <2> QED BY <2>2, <2>3
<1>15. Room'
  BY <1>5, <1>12, <1>13, <1>14 DEF Room
<1>16. ASSUME ~concurrent' PROVE CodesBooked' /\ ListsBooked' /\ CallsBooked'
  <2>1. CodesBooked /\ ListsBooked /\ AsLoaded(r)
    BY <1>2, <1>5, <1>16 DEF Ordered, InOrder, CallsBooked
  <2>2. ListsBooked'
    BY <1>5, <2>1 DEF ListsBooked
  <2>3. r.loaded.used = rows[k].used /\ ~Exhausted(r.loaded) /\ rows[k].used = Uses(k)
    BY <1>3, <1>4, <2>1 DEF AsLoaded, CodesBooked
  <2>4. Uses(k)' = Uses(k) + 1 /\ Uses(k) \in Nat
    BY <1>4, <1>10, UsesType DEF Uses, Kept, RowsOK
  <2>5. rows'[k].used = Uses(k)'
    BY <1>11, <2>3, <2>4
  <2>6. ASSUME k \notin edited', rows'[k].limit > 0 PROVE Uses(k)' <= rows'[k].limit
    <3>1. r.loaded.limit = rows'[k].limit /\ r.loaded.limit \in Nat
      BY <1>4, <1>5, <1>11, <2>6, CatalogAssumption
         DEF Terms, PromoCode, CodeUsed, CatalogAssumption
    <3>2. r.loaded.used < r.loaded.limit
      BY <2>3, <2>4, <2>6, <3>1 DEF Exhausted
    <3> QED BY <2>3, <2>4, <3>1, <3>2
  <2>7. \A c \in Codes \ {k} : Uses(c)' = Uses(c) /\ rows'[c] = rows[c]
    BY <1>10 DEF Uses
  <2>8. CodesBooked'
    BY <1>5, <2>1, <2>5, <2>6, <2>7 DEF CodesBooked, Present
  <2>9. AsLoaded(NoCall)'
    BY NoCallOK DEF AsLoaded
  <2> QED BY <1>5, <1>16, <2>2, <2>8, <2>9, OneCallBooked DEF Ordered
<1> QED BY <1>8, <1>15, <1>16 DEF Ordered, InOrder

\* A step of nobody adds no use.
LEMMA OutsideOrdered ==
  ASSUME Kept, Kept', Advance, Ordered, UNCHANGED <<features, latest, usages>>,
         \A c \in Codes : (Present(c)' <=> Present(c)) /\ rows'[c].used = rows[c].used,
         concurrent => concurrent', concurrent' => Handlers # {},
         calls' = [v \in Handlers |-> NoCall] \/ calls' = calls
  PROVE  Ordered'
<1>1. Alone'
  BY AloneStays DEF Ordered
<1>2. \A c, u : Redeeming(c, u)' \subseteq Redeeming(c, u)
  BY NoCallOK DEF Redeeming
<1>3. Room'
  BY <1>1, <1>2, RoomStays DEF Ordered
<1>4. ASSUME ~concurrent' PROVE CodesBooked' /\ ListsBooked' /\ CallsBooked'
  <2>1. CodesBooked /\ ListsBooked /\ CallsBooked
    BY <1>4 DEF Ordered, InOrder
  <2>2. CodesBooked'
    BY <2>1, CodesStayBooked
  <2>3. ListsBooked'
    BY <2>1 DEF ListsBooked
  <2>4. CASE calls' = [v \in Handlers |-> NoCall]
    <3>1. AsLoaded(NoCall)'
      BY NoCallOK DEF AsLoaded
    <3> QED BY <2>2, <2>3, <2>4, <3>1 DEF CallsBooked
  <2>5. CASE calls' = calls
    <3>1. ASSUME NEW v \in Handlers PROVE AsLoaded(calls[v])'
      <4>1. PICK q \in Call : q = calls[v] /\ CallOK(q) /\ AsLoaded(q)
        BY <2>1 DEF Kept, CallsOK, CallsBooked
      <4>2. AsLoaded(q)'
        BY <2>5, <4>1 DEF AsLoaded, CallOK
      <4> QED BY <2>5, <4>1, <4>2
    <3> QED BY <2>2, <2>3, <2>5, <3>1 DEF CallsBooked
  <2> QED BY <2>4, <2>5
<1> QED BY <1>1, <1>3, <1>4 DEF Ordered, InOrder

LEMMA ElapseOrdered ==
  ASSUME Kept, Ordered, NEW k \in Discounts \cup Codes, Elapse(k)
  PROVE  Ordered'
<1>1. Kept' /\ Advance
  BY ElapseKeeps
<1>2. PICK phase \in Phases : rows' = [rows EXCEPT ![k].phase = phase]
  BY DEF Elapse
<1>3. Present(k) /\ UNCHANGED <<features, usages, calls, latest, concurrent>>
  BY DEF Elapse
<1>4. ASSUME NEW c \in Codes PROVE (Present(c)' <=> Present(c)) /\ rows'[c].used = rows[c].used
  <2>1. c \in Keys
    BY DEF Keys
  <2>2. CASE c = k
    <3>1. rows[c] \in PromoCode
      BY <1>3, <2>1, <2>2, RowTypes, RowTypeIsRow DEF Kept, RowsOK, Present
    <3>2. rows'[c] = [rows[c] EXCEPT !.phase = phase]
      BY <1>2, <2>1, <2>2 DEF Kept, RowsOK
    <3> QED BY <3>1, <3>2 DEF PromoCode, CodeUsed, Present
  <2>3. CASE c # k
    BY <1>2, <2>1, <2>3 DEF Kept, RowsOK, Present
  <2> QED BY <2>2, <2>3
<1>5. concurrent' => Handlers # {}
  BY <1>3 DEF Ordered, Alone
<1> QED BY <1>1, <1>3, <1>4, <1>5, OutsideOrdered

LEMMA SeedOrdered ==
  ASSUME Kept, Ordered, SeedPlans \/ Restart
  PROVE  Ordered'
<1>1. Kept' /\ Advance
  BY SeedKeeps
<1>2. PICK table \in {Plans, Pricing} : \E keys : rows' \in Seeded(rows, table, keys)
  BY DEF SeedPlans, Restart
<1>3. RowsTyped(rows)
  BY DEF Kept, RowsOK, RowsTyped
<1>4. \A c \in Codes : rows'[c] = rows[c]
  BY <1>2, <1>3, SeedingAdds, CatalogAssumption DEF CatalogAssumption, Tables, Keys
<1>5. \A c \in Codes : (Present(c)' <=> Present(c)) /\ rows'[c].used = rows[c].used
  BY <1>4 DEF Present
<1>6. UNCHANGED <<features, latest, usages>>
      /\ (calls' = [v \in Handlers |-> NoCall] \/ calls' = calls)
  BY DEF SeedPlans, Restart
<1>7. (concurrent => concurrent') /\ (concurrent' => Handlers # {})
  <2>1. concurrent => Handlers # {}
    BY DEF Ordered, Alone
  <2>2. CASE SeedPlans
    <3>1. concurrent' <=> concurrent \/ \E w \in Handlers : calls[w].op # "idle"
      BY <2>2 DEF SeedPlans
    <3> QED BY <2>1, <3>1
  <2>3. CASE Restart
    <3>1. concurrent' <=> concurrent
      BY <2>3 DEF Restart
    <3> QED BY <2>1, <3>1
  <2> QED BY <2>2, <2>3
<1> QED BY <1>1, <1>5, <1>6, <1>7, OutsideOrdered

LEMMA InitOrdered == CatalogInit => Ordered
<1> SUFFICES ASSUME CatalogInit PROVE Ordered
  OBVIOUS
<1>1. Kept
  BY InitKept
<1>2. /\ calls = [w \in Handlers |-> NoCall] /\ ~concurrent
      /\ usages = [c \in Codes |-> << >>] /\ features = [p \in Pricing |-> {0}]
      /\ latest = [p \in Pricing |-> 0]
  BY DEF CatalogInit
<1>3. Alone
  BY <1>2, NoCallOK DEF Alone
<1>4. ASSUME NEW c \in Codes, NEW u \in Customers, Present(c)
      PROVE  UsesBy(c, u) + Cardinality(Redeeming(c, u)) <= rows[c].per_user + Spare
  <2>1. UsesBy(c, u) = 0
    BY <1>1, <1>2, UsesByType DEF Kept
  <2>2. Redeeming(c, u) = {}
    BY <1>2, NoCallOK DEF Redeeming
  <2>3. Cardinality(Redeeming(c, u)) = 0 /\ Spare = 0
    BY <1>2, <2>2, FS_EmptySet DEF Spare
  <2>4. rows[c].per_user \in Nat
    BY <1>1, <1>4, PerUserType DEF Kept
  <2> QED BY <2>1, <2>3, <2>4
<1>5. CodesBooked
  <2> SUFFICES ASSUME NEW c \in Codes, Present(c)
               PROVE  rows[c].used = Uses(c) /\ (rows[c].limit > 0 => Uses(c) <= rows[c].limit)
    BY DEF CodesBooked
  <2>1. Uses(c) = 0
    BY <1>2 DEF Uses
  <2>2. rows[c] \in PromoCode
    BY <1>1, RowTypes, RowTypeIsRow DEF Kept, RowsOK, Present, Keys
  <2>3. rows[c].used \in Nat /\ rows[c].limit \in Nat
    BY <2>2, CatalogAssumption DEF PromoCode, CodeUsed, CatalogAssumption
  <2>4. rows[c].used <= Uses(c)
    BY <1>1 DEF Kept, RowsOK, CodeOK
  <2> QED BY <2>1, <2>3, <2>4
<1>6. ListsBooked /\ CallsBooked
  BY <1>2, NoCallOK DEF ListsBooked, CallsBooked, AsLoaded
<1> QED BY <1>3, <1>4, <1>5, <1>6 DEF Ordered, Room, InOrder

LEMMA NextOrdered == Kept /\ Ordered /\ [CatalogNext]_catalogVars => Ordered'
<1> SUFFICES ASSUME Kept, Ordered, [CatalogNext]_catalogVars PROVE Ordered'
  OBVIOUS
<1>1. CASE UNCHANGED catalogVars
  <2>1. concurrent' => Handlers # {}
    BY <1>1 DEF catalogVars, Ordered, Alone
  <2>2. \A c \in Codes : (Present(c)' <=> Present(c)) /\ rows'[c].used = rows[c].used
    BY <1>1 DEF catalogVars, Present
  <2> QED BY <1>1, <2>1, <2>2, NextKeeps, OutsideOrdered DEF catalogVars
<1>2. ASSUME NEW w \in Handlers, Handle(w) PROVE Ordered'
  BY <1>2, RequestOrdered, InsertOrdered, WriteOrdered, DeleteOrdered, ApplyCountOrdered,
     RedeemOrdered, OtherOrdered DEF Handle, Commit
<1>3. ASSUME NEW k \in Discounts \cup Codes, Elapse(k) PROVE Ordered'
  BY <1>3, ElapseOrdered
<1> QED BY <1>1, <1>2, <1>3, SeedOrdered DEF CatalogNext

\* The stronger invariant: there is room for every call that has counted the uses of a user,
\* and until calls overlap the one in flight finds what it loaded.
THEOREM CatalogOrdered == CatalogSpec => [](Kept /\ Ordered)
BY InitKept, NextKeeps, InitOrdered, NextOrdered, PTL DEF CatalogSpec

\* What a promo code counts, and how far a user may exceed the own limit (CodeUses).
THEOREM CodeUsesHold == CatalogSpec => []CodeUses
<1> SUFFICES ASSUME Kept, Ordered PROVE CodeUses
  BY CatalogOrdered, PTL
<1> SUFFICES ASSUME NEW c \in Codes, Present(c)
             PROVE  /\ rows[c].used <= Uses(c)
                    /\ ~concurrent => rows[c].used = Uses(c)
                    /\ c \notin edited =>
                          /\ ~concurrent /\ rows[c].limit > 0 => Uses(c) <= rows[c].limit
                          /\ \A u \in Customers :
                                UsesBy(c, u) <= rows[c].per_user
                                    + (IF concurrent THEN Cardinality(Handlers) - 1 ELSE 0)
  BY DEF CodeUses
<1>1. rows[c].used <= Uses(c)
  BY DEF Kept, RowsOK, CodeOK
<1>2. ~concurrent => /\ rows[c].used = Uses(c)
                     /\ c \notin edited /\ rows[c].limit > 0 => Uses(c) <= rows[c].limit
  BY DEF Ordered, InOrder, CodesBooked
<1>3. ASSUME NEW u \in Customers, c \notin edited PROVE UsesBy(c, u) <= rows[c].per_user + Spare
  <2>1. UsesBy(c, u) + Cardinality(Redeeming(c, u)) <= rows[c].per_user + Spare
    BY <1>3 DEF Ordered, Room
  <2>2. UsesBy(c, u) \in Nat /\ Cardinality(Redeeming(c, u)) \in Nat /\ Spare \in Int
        /\ rows[c].per_user \in Nat
    BY UsesByType, RedeemingType, PerUserType DEF Kept
  <2> QED BY <2>1, <2>2
<1> QED BY <1>1, <1>2, <1>3 DEF Spare

\* A pricing plan has the features it was given last (ListsAsSent).
THEOREM ListsKept == CatalogSpec => []ListsAsSent
<1>1. Kept /\ Ordered => ListsAsSent
  BY DEF Kept, RowsOK, Ordered, InOrder, ListsBooked, ListsAsSent
<1> QED BY <1>1, CatalogOrdered, PTL
===============================================================================
