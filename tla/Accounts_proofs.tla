--------------------------- MODULE Accounts_proofs ---------------------------
(***************************************************************************)
(* Proofs about module Accounts, for any finite number of users,           *)
(* identities and workers.                                                 *)
(*                                                                         *)
(* Typed, the first inductive invariant, says that rows and requests are   *)
(* well formed, what is unique is unique and links lead to users; TypeOK   *)
(* follows.  PhonesOK adds where a verified phone comes from, and needs    *)
(* to know of every running request that the phone it loaded is still      *)
(* there or was replaced by one on record.  Serial is about what happens   *)
(* without overlap: a request that runs alone finds what it loaded, so     *)
(* links and columns stay in step and no account loses its last sign-in.   *)
(***************************************************************************)
EXTENDS Accounts, TLAPS

Columns == {"email", "phone", "google_id", "telegram_id"}

IdColumns == {"google_id", "telegram_id"}

LEMMA TwoColumns == \A i \in Identities : IdColumn(i) \in IdColumns
  BY DEF IdColumn, IdColumns

-------------------------------------------------------------------------------
(* Rows.                                                                   *)

\* What filling in makes of a row.
FilledFrom(row, r) ==
    /\ r.new.state = row.state /\ r.new.access = row.access
    /\ r.new.password = row.password
    /\ \/ r.new.phone = row.phone
       \/ r.number # None /\ r.new.phone \in Variants(r.number)
    /\ \/ r.new.phone_verified = row.phone_verified
       \/ r.number # None /\ r.new.phone_verified /\ r.new.phone \in Variants(r.number)
    /\ r.new[IdColumn(r.identity)] = IF row[IdColumn(r.identity)] = None THEN r.identity
                                     ELSE row[IdColumn(r.identity)]
    /\ \A c \in IdColumns \ {IdColumn(r.identity)} : r.new[c] = row[c]

Created == [NoUser EXCEPT !.state = "present"]

LEMMA RowTypes == NoUser \in User /\ Created \in User /\ Gone \in User
  BY DEF NoUser, Created, Gone, User

LEMMA FilledOK ==
    ASSUME NEW row \in User, NEW u, NEW q \in Request, q.identity \in Identities,
           NEW new, new = Filled(row, u, q), NEW r, r.new = new,
           r.number = q.number, r.identity = q.identity
    PROVE  new \in User /\ FilledFrom(row, r)
<1> DEFINE phone == IF row.phone = None /\ q.number # None /\ ~PhoneTaken(q.number, u)
                    THEN <<q.number, "bare">> ELSE row.phone
<1>1. phone \in Phones \cup {None}
  BY DEF Phones, User, Request
<1>2. phone = row.phone \/ (q.number # None /\ phone \in Variants(q.number))
  BY DEF Variants
<1>3. PICK e : e = IF row.email = None /\ q.email # None /\ ~EmailTaken(q.email, u)
                   THEN q.email ELSE row.email
  OBVIOUS
<1>4. e \in Emails \cup {None}
  BY <1>3 DEF User, Request
<1>5. PICK b : b = (row.phone_verified \/ (q.number # None /\ phone \in Variants(q.number)))
  OBVIOUS
<1>6. b \in BOOLEAN
  BY <1>5 DEF User
<1>7. new = [row EXCEPT !.email = e, !.phone = phone, !.phone_verified = b,
                        ![IdColumn(q.identity)] = IF row[IdColumn(q.identity)] = None
                              THEN q.identity ELSE row[IdColumn(q.identity)]]
  BY <1>3, <1>5 DEF Filled
<1> HIDE DEF phone
<1>8. CASE q.identity \in Google
  <2>1. PICK g : g = IF row.google_id = None THEN q.identity ELSE row.google_id
    OBVIOUS
  <2>2. g \in Google \cup {None}
    BY <1>8, <2>1 DEF User
  <2>3. new = [row EXCEPT !.email = e, !.phone = phone, !.phone_verified = b,
                          !.google_id = g]
    BY <1>7, <1>8, <2>1 DEF IdColumn
  <2>4. new \in User
    BY <1>1, <1>4, <1>6, <2>2, <2>3 DEF User
  <2>5. /\ new.state = row.state /\ new.access = row.access
        /\ new.password = row.password /\ new.phone = phone
        /\ new.google_id = g /\ new.telegram_id = row.telegram_id
    BY <2>3 DEF User
  <2>6. new.phone_verified = b
    BY <2>3 DEF User
  <2>7. \/ new.phone_verified = row.phone_verified
        \/ q.number # None /\ new.phone_verified /\ new.phone \in Variants(q.number)
    BY <1>5, <1>6, <2>5, <2>6 DEF User
  <2>8. IdColumn(q.identity) = "google_id"
    BY <1>8 DEF IdColumn
  <2> QED BY <1>2, <2>1, <2>4, <2>5, <2>7, <2>8 DEF FilledFrom, IdColumns
<1>9. CASE q.identity \notin Google
  <2>1. PICK g : g = IF row.telegram_id = None THEN q.identity ELSE row.telegram_id
    OBVIOUS
  <2>2. g \in Telegram \cup {None}
    BY <1>9, <2>1 DEF User, Identities
  <2>3. new = [row EXCEPT !.email = e, !.phone = phone, !.phone_verified = b,
                          !.telegram_id = g]
    BY <1>7, <1>9, <2>1 DEF IdColumn
  <2>4. new \in User
    BY <1>1, <1>4, <1>6, <2>2, <2>3 DEF User
  <2>5. /\ new.state = row.state /\ new.access = row.access
        /\ new.password = row.password /\ new.phone = phone
        /\ new.telegram_id = g /\ new.google_id = row.google_id
    BY <2>3 DEF User
  <2>6. new.phone_verified = b
    BY <2>3 DEF User
  <2>7. \/ new.phone_verified = row.phone_verified
        \/ q.number # None /\ new.phone_verified /\ new.phone \in Variants(q.number)
    BY <1>5, <1>6, <2>5, <2>6 DEF User
  <2>8. IdColumn(q.identity) = "telegram_id"
    BY <1>9 DEF IdColumn
  <2> QED BY <1>2, <2>1, <2>4, <2>5, <2>7, <2>8 DEF FilledFrom, IdColumns
<1> QED BY <1>8, <1>9

LEMMA WrittenOK ==
    ASSUME NEW u \in Users, users[u] \in User, NEW r \in Request
    PROVE  /\ Written(u, r) \in User
           /\ \A c \in DOMAIN NoUser :
                 Written(u, r)[c] = IF r.new[c] # r.seen[c] THEN r.new[c] ELSE users[u][c]
<1>1. r.new \in User /\ r.seen \in User
  BY DEF Request
<1>2. PICK n, s : n = r.new /\ s = r.seen
  OBVIOUS
<1>3. Written(u, r) = [c \in DOMAIN n |-> IF n[c] # s[c] THEN n[c] ELSE users[u][c]]
  BY <1>2 DEF Written
<1>4. DOMAIN n = DOMAIN NoUser
  BY <1>1, <1>2, RowTypes DEF User
<1>5. Written(u, r) \in User
  BY <1>1, <1>2, <1>3 DEF User
<1> QED BY <1>2, <1>3, <1>4, <1>5

-------------------------------------------------------------------------------
(* Types, uniqueness and links.                                            *)

\* What a request has read and decided, in the order of its steps.
RequestOK(r) ==
    /\ r.op \in {"found", "new", "fill", "unlink"} => r.identity \in Identities
    /\ r.op \in {"found", "unlink", "verify"} => r.user \in Users
    /\ r.op \in {"found", "fill", "unlink", "verify"} /\ r.user # None
           => r.seen.state = "present"
    /\ r.op = "new" => r.user = None /\ r.seen = NoUser
    /\ r.op \in {"fill", "unlink", "verify"} => r.new.state = "present"
    /\ r.op = "fill" => /\ r.user = None => r.seen = NoUser /\ r.insert
                        /\ FilledFrom(IF r.user = None THEN Created ELSE r.seen, r)
    /\ r.op = "unlink" => r.new = [r.seen EXCEPT ![IdColumn(r.identity)] = None]
    /\ r.op = "verify" => /\ r.new.phone \in Phones
                          /\ r.new = [r.seen EXCEPT !.phone = r.new.phone,
                                                    !.phone_verified = TRUE]

Unique == \A u, v \in Rows : \A column \in Columns :
              users[u][column] = users[v][column] /\ users[u][column] # None => u = v

TablesOK ==
    /\ users \in [Users -> User]
    /\ accounts \in [Identities -> Users \cup {None}]
    /\ codes \in [Users -> SUBSET Phones]
    /\ \A i \in Identities : accounts[i] # None => accounts[i] \in Rows
    /\ \A u \in Users : users[u].state = "absent" => users[u] = NoUser
    /\ Unique

HistoryOK == confirmed \in [Users -> SUBSET Phones] /\ entered \in [Users -> SUBSET Phones]

RequestsOK == /\ requests \in [Workers -> Request]
              /\ \A w \in Workers : RequestOK(requests[w])

CountersOK == served \in 0..MaxServed /\ overlapped \in BOOLEAN

Typed == TablesOK /\ HistoryOK /\ RequestsOK /\ CountersOK

LEMMA TypedType == Typed => TypeOK
<1> SUFFICES ASSUME Typed PROVE TypeOK
  OBVIOUS
<1>1. accounts \in [Identities -> Rows \cup {None}]
  BY DEF Typed, TablesOK
<1> QED BY <1>1 DEF Typed, TablesOK, HistoryOK, RequestsOK, CountersOK, TypeOK, Unique, Columns

LEMMA IdleOK == Idle \in Request /\ RequestOK(Idle)
<1>1. Idle \in Request
  BY RowTypes DEF Idle, Request
<1> QED BY <1>1 DEF Idle, RequestOK

LEMMA InitTyped == Init => Typed
<1> SUFFICES ASSUME Init PROVE Typed
  OBVIOUS
<1>1. TablesOK
  <2>1. accounts \in [Identities -> Users \cup {None}] /\ \A i \in Identities : accounts[i] = None
    BY DEF Init
  <2>2. codes \in [Users -> SUBSET Phones]
    BY DEF Init
  <2>3. CASE users = [u \in Users |-> NoUser]
    <3>1. Rows = {}
      BY <2>3 DEF Rows, Present, NoUser
    <3>2. users \in [Users -> User] /\ \A u \in Users : users[u] = NoUser
      BY <2>3, RowTypes
    <3>3. Unique
      BY <3>1 DEF Unique
    <3> QED BY <2>1, <2>2, <3>2, <3>3 DEF TablesOK
  <2>4. CASE \E u \in Users, g \in Google :
                users = [v \in Users |-> IF v = u
                             THEN [NoUser EXCEPT !.state = "present", !.google_id = g]
                             ELSE NoUser]
    <3>1. PICK u \in Users, g \in Google :
                users = [v \in Users |-> IF v = u
                             THEN [NoUser EXCEPT !.state = "present", !.google_id = g]
                             ELSE NoUser]
      BY <2>4
    <3>2. [NoUser EXCEPT !.state = "present", !.google_id = g] \in User
      BY RowTypes DEF User
    <3>3. users \in [Users -> User]
      BY <3>1, <3>2, RowTypes
    <3>4. \A v \in Users : v # u => users[v] = NoUser
      BY <3>1
    <3>5. users[u].state = "present"
      BY <3>1 DEF NoUser
    <3>6. Rows = {u}
      BY <3>4, <3>5 DEF Rows, Present, NoUser
    <3> QED BY <2>1, <2>2, <3>3, <3>4, <3>5, <3>6 DEF TablesOK, Unique
  <2> QED BY <2>3, <2>4 DEF Init
<1>2. HistoryOK
  BY DEF Init, HistoryOK
<1>3. RequestsOK
  BY IdleOK DEF Init, RequestsOK
<1>4. CountersOK
  <2>1. served = 0
    BY DEF Init
  <2>2. served \in 0..MaxServed
    BY <2>1, ConstantsAssumption
  <2> QED BY <2>2 DEF Init, CountersOK
<1> QED BY <1>1, <1>2, <1>3, <1>4 DEF Typed

\* Every way to count a request.
LEMMA ComeCounts == ASSUME CountersOK, NEW w \in Workers, Come(w) PROVE CountersOK'
<1>1. served' \in 0..MaxServed
  BY ConstantsAssumption DEF Come, CountersOK
<1>2. overlapped' \in BOOLEAN
  BY Zenon DEF Come, CountersOK
<1> QED BY <1>1, <1>2 DEF CountersOK

LEMMA ServingCounts == ASSUME CountersOK, NEW w, NEW op, Serving(w, op) PROVE CountersOK'
  BY DEF CountersOK, Serving

\* A request moves on and nothing is written.
LEMMA RequestKeeps ==
    ASSUME Typed, CountersOK', UNCHANGED <<tables, history>>, NEW w \in Workers,
           NEW r \in Request, RequestOK(r), requests' = [requests EXCEPT ![w] = r]
    PROVE  Typed'
<1>1. TablesOK'
  BY DEF Typed, TablesOK, tables, Unique, Rows, Present
<1>2. HistoryOK'
  BY DEF Typed, HistoryOK, history
<1>3. RequestsOK'
  BY DEF Typed, RequestsOK
<1> QED BY <1>1, <1>2, <1>3 DEF Typed

LEMMA FinishKeeps ==
    ASSUME RequestsOK, NEW w \in Workers, Finish(w) PROVE RequestsOK'
  BY IdleOK DEF RequestsOK, Finish

\* A row is written that keeps the unique indexes, or only clears what they are about.
LEMMA RowKeeps ==
    ASSUME TablesOK, NEW u \in Users, NEW row \in User, row.state = "present",
           users' = [users EXCEPT ![u] = row],
           \/ Fits(u, row)
           \/ Present(u) /\ \A column \in Columns : row[column] \in {None, users[u][column]},
           accounts' \in [Identities -> Users \cup {None}],
           \A i \in Identities : accounts'[i] \in {accounts[i], u, None},
           codes' \in [Users -> SUBSET Phones]
    PROVE  TablesOK'
<1>1. users' \in [Users -> User] /\ users'[u] = row
  BY DEF TablesOK
<1>2. \A v \in Users : v # u => users'[v] = users[v]
  BY DEF TablesOK
<1>3. Rows' = Rows \cup {u}
  BY <1>1, <1>2 DEF Rows, Present
<1>4. \A i \in Identities : accounts'[i] # None => accounts'[i] \in Rows'
  BY <1>3 DEF TablesOK
<1>5. \A v \in Users : users'[v].state = "absent" => users'[v] = NoUser
  BY <1>1, <1>2 DEF TablesOK
<1>6. ASSUME NEW v \in Rows, v # u, NEW column \in Columns,
             row[column] = users[v][column], row[column] # None
      PROVE  FALSE
  <2>1. CASE Fits(u, row)
    BY <1>6, <2>1 DEF Fits, Columns
  <2>2. CASE Present(u) /\ \A c \in Columns : row[c] \in {None, users[u][c]}
    BY <1>6, <2>2 DEF TablesOK, Unique, Rows
  <2> QED BY <2>1, <2>2
<1>7. Unique'
  <2> SUFFICES ASSUME NEW a \in Rows', NEW b \in Rows', NEW column \in Columns, a # b,
                      users'[a][column] = users'[b][column], users'[a][column] # None
               PROVE  FALSE
    BY DEF Unique
  <2>1. CASE a # u /\ b # u
    BY <1>2, <1>3, <2>1 DEF TablesOK, Unique, Rows
  <2>2. CASE a = u
    BY <1>1, <1>2, <1>3, <1>6, <2>2 DEF Rows
  <2>3. CASE b = u
    BY <1>1, <1>2, <1>3, <1>6, <2>3 DEF Rows
  <2> QED BY <2>1, <2>2, <2>3
<1> QED BY <1>1, <1>4, <1>5, <1>7 DEF TablesOK

-------------------------------------------------------------------------------
(* Signing in, linking and unlinking.                                      *)

LEMMA FoundPresent ==
    ASSUME TablesOK, NEW i \in Identities, NEW e, NEW n
    PROVE  Found(i, e, n) \subseteq Rows
  BY ConstantsAssumption DEF Found, TablesOK

LEMMA ResolvedOK ==
    ASSUME TablesOK, NEW i \in Identities, NEW e \in Emails \cup {None},
           NEW n \in Numbers \cup {None}, NEW retry \in BOOLEAN,
           NEW r \in Resolved(i, e, n, retry)
    PROVE  /\ r \in Request /\ RequestOK(r) /\ r.identity = i /\ r.number = n
           /\ \/ r.op = "new" /\ r.user = None /\ r.seen = NoUser
              \/ /\ r.op = "found" /\ r.user \in Found(i, e, n) /\ Present(r.user)
                 /\ r.seen = users[r.user]
<1>1. CASE r = [Idle EXCEPT !.identity = i, !.email = e, !.number = n, !.retry = retry,
                            !.op = "new"]
  <2>1. r \in Request
    BY <1>1, IdleOK DEF Request
  <2>2. /\ r.op = "new" /\ r.user = None /\ r.identity = i /\ r.number = n
        /\ r.seen = NoUser
    BY <1>1 DEF Idle
  <2> QED BY <2>1, <2>2 DEF RequestOK
<1>2. ASSUME NEW u \in Found(i, e, n),
             r = [Idle EXCEPT !.identity = i, !.email = e, !.number = n, !.retry = retry,
                              !.op = "found", !.user = u, !.seen = users[u]]
      PROVE  /\ r \in Request /\ RequestOK(r) /\ r.identity = i /\ r.number = n
             /\ r.op = "found" /\ r.user \in Found(i, e, n) /\ Present(r.user)
             /\ r.seen = users[r.user]
  <2>1. u \in Users /\ Present(u) /\ users[u] \in User
    BY <1>2, FoundPresent DEF Rows, TablesOK
  <2>2. PICK seen : seen = users[u]
    OBVIOUS
  <2>3. r = [Idle EXCEPT !.identity = i, !.email = e, !.number = n, !.retry = retry,
                         !.op = "found", !.user = u, !.seen = seen]
    BY <1>2, <2>2
  <2>4. r \in Request
    BY <2>1, <2>2, <2>3, IdleOK DEF Request
  <2>5. /\ r.op = "found" /\ r.user = u /\ r.identity = i /\ r.number = n
        /\ r.seen = seen
    BY <2>3 DEF Idle
  <2> QED BY <1>2, <2>1, <2>2, <2>4, <2>5 DEF RequestOK, Present
<1>3. \/ r = [[Idle EXCEPT !.identity = i, !.email = e, !.number = n, !.retry = retry]
                  EXCEPT !.op = "new"]
      \/ \E u \in Found(i, e, n) :
            r = [[Idle EXCEPT !.identity = i, !.email = e, !.number = n, !.retry = retry]
                     EXCEPT !.op = "found", !.user = u, !.seen = users[u]]
  BY DEF Resolved
<1> QED BY <1>1, <1>2, <1>3

\* The requests that link, unlink and verify_phone_update begin.
Linking(u, i, e, n) ==
    [Idle EXCEPT !.op = "found", !.identity = i, !.email = e, !.number = n, !.user = u,
                 !.seen = users[u]]

Unlinking(u, i) ==
    [Idle EXCEPT !.op = "unlink", !.user = u, !.identity = i, !.seen = users[u],
                 !.new = [users[u] EXCEPT ![IdColumn(i)] = None]]

Verifying(u, p) ==
    [Idle EXCEPT !.op = "verify", !.user = u, !.seen = users[u],
                 !.new = [users[u] EXCEPT !.phone = p, !.phone_verified = TRUE]]

LEMMA LinkOK ==
    ASSUME Typed, NEW u \in Users, NEW i \in Identities, NEW e \in Emails \cup {None},
           NEW n \in Numbers \cup {None}, Present(u),
           NEW r, r = Linking(u, i, e, n)
    PROVE  /\ r \in Request /\ RequestOK(r)
           /\ r.op = "found" /\ r.user = u /\ r.identity = i /\ r.seen = users[u]
<1>1. PICK seen \in User : seen = users[u] /\ seen.state = "present"
  BY DEF Typed, TablesOK, Present
<1>2. r = [Idle EXCEPT !.op = "found", !.identity = i, !.email = e, !.number = n,
                       !.user = u, !.seen = seen]
  BY <1>1 DEF Linking
<1>3. r \in Request
  BY <1>2, IdleOK DEF Request
<1>4. r.op = "found" /\ r.user = u /\ r.identity = i /\ r.seen = seen
  BY <1>2 DEF Idle
<1> QED BY <1>1, <1>3, <1>4 DEF RequestOK

LEMMA UnlinkOK ==
    ASSUME Typed, NEW u \in Users, NEW i \in Identities, Present(u),
           NEW r, r = Unlinking(u, i)
    PROVE  /\ r \in Request /\ RequestOK(r)
           /\ r.op = "unlink" /\ r.user = u /\ r.identity = i /\ r.seen = users[u]
<1>1. PICK seen \in User : seen = users[u] /\ seen.state = "present"
  BY DEF Typed, TablesOK, Present
<1>2. PICK new : new = [seen EXCEPT ![IdColumn(i)] = None]
  OBVIOUS
<1>3. new \in User /\ new.state = "present"
  <2>1. CASE i \in Google
    <3>1. new = [seen EXCEPT !.google_id = None]
      BY <1>2, <2>1 DEF IdColumn
    <3> QED BY <1>1, <3>1 DEF User
  <2>2. CASE i \notin Google
    <3>1. new = [seen EXCEPT !.telegram_id = None]
      BY <1>2, <2>2 DEF IdColumn
    <3> QED BY <1>1, <3>1 DEF User
  <2> QED BY <2>1, <2>2
<1>4. r = [Idle EXCEPT !.op = "unlink", !.user = u, !.identity = i, !.seen = seen,
                       !.new = new]
  BY <1>1, <1>2 DEF Unlinking
<1>5. r \in Request
  BY <1>3, <1>4, IdleOK DEF Request
<1>6. r.op = "unlink" /\ r.user = u /\ r.identity = i /\ r.seen = seen /\ r.new = new
  BY <1>4 DEF Idle
<1> QED BY <1>1, <1>2, <1>3, <1>5, <1>6 DEF RequestOK

LEMMA VerifyOK ==
    ASSUME Typed, NEW u \in Users, NEW p \in Phones, Present(u),
           NEW r, r = Verifying(u, p)
    PROVE  /\ r \in Request /\ RequestOK(r)
           /\ r.op = "verify" /\ r.user = u /\ r.seen = users[u]
<1>1. PICK seen \in User : seen = users[u] /\ seen.state = "present"
  BY DEF Typed, TablesOK, Present
<1>2. PICK new : new = [seen EXCEPT !.phone = p, !.phone_verified = TRUE]
  OBVIOUS
<1>3. new \in User /\ new.state = "present" /\ new.phone = p
  BY <1>1, <1>2 DEF User
<1>4. r = [Idle EXCEPT !.op = "verify", !.user = u, !.seen = seen, !.new = new]
  BY <1>1, <1>2 DEF Verifying
<1>5. r \in Request
  BY <1>3, <1>4, IdleOK DEF Request
<1>6. r.op = "verify" /\ r.user = u /\ r.seen = seen /\ r.new = new
  BY <1>4 DEF Idle
<1> QED BY <1>1, <1>2, <1>3, <1>5, <1>6 DEF RequestOK

-------------------------------------------------------------------------------
(* The steps that write nothing: a request begins, or goes on.             *)

LinksAgree ==
    \A u \in Rows, i \in Identities :
        /\ accounts[i] = u => users[u][IdColumn(i)] = i
        /\ users[u][IdColumn(i)] = i => accounts[i] \in {u, None}

Unlinked(i, u) == \A j \in SameProvider(i) : accounts[j] # u

Loaded(r) == r.user # None => Present(r.user) /\ r.seen = users[r.user]

\* A request that still finds what it decided upon.
Fresh(r) ==
    /\ Loaded(r)
    /\ r.op \in {"found", "fill"} /\ r.user # None => ~LinkedToOther(r.user, r.identity)
    /\ r.op = "fill" /\ r.user # None => r.insert = Unlinked(r.identity, r.user)
    /\ r.op = "unlink" => /\ OtherSignIn(r.user, r.identity)
                          /\ accounts[r.identity] = r.user
                          /\ \A j \in SameProvider(r.identity) \ {r.identity} :
                                accounts[j] # r.user

\* Whatever is found at a provider may be linked to the identity asked for.
LEMMA FoundMayLink ==
    ASSUME TablesOK, LinksAgree, NEW i \in Identities, NEW e, NEW n, NEW u \in Found(i, e, n)
    PROVE  ~LinkedToOther(u, i)
<1>1. u \in Rows /\ u \in Users
  BY FoundPresent DEF Rows
<1>2. ASSUME users[u][IdColumn(i)] = i
      PROVE  ~LinkedToOther(u, i)
  <2>1. ASSUME NEW j \in SameProvider(i) \ {i}, accounts[j] = u
        PROVE  FALSE
    <3>1. j \in Identities /\ IdColumn(j) = IdColumn(i)
      BY <2>1, ConstantsAssumption DEF SameProvider, IdColumn, Identities
    <3>2. users[u][IdColumn(j)] = j
      BY <1>1, <2>1, <3>1 DEF LinksAgree
    <3> QED BY <1>2, <2>1, <3>1, <3>2
  <2> QED BY <1>2, <2>1 DEF LinkedToOther
<1>3. CASE accounts[i] = u
  BY <1>1, <1>2, <1>3 DEF LinksAgree
<1>4. CASE accounts[i] # u
  BY <1>2, <1>4 DEF Found
<1> QED BY <1>3, <1>4

\* The handlers that load a row, decide, and write it later.
Begins(w) ==
    \/ \E i \in Identities, e \in Emails \cup {None}, n \in Numbers \cup {None} :
          \/ social_login(w, i, e, n)
          \/ \E u \in Users : link(w, u, i, e, n)
    \/ \E u \in Users, i \in Identities : unlink(w, u, i)
    \/ \E u \in Users, p \in Phones : verify_phone_update(w, u, p)

LEMMA Begun ==
    ASSUME Typed, NEW w \in Workers, Begins(w)
    PROVE  \E r \in Request : /\ Begin(w, r) /\ RequestOK(r) /\ Loaded(r)
                              /\ LinksAgree => Fresh(r)
<1>1. TablesOK
  BY DEF Typed
<1>2. ASSUME NEW i \in Identities, NEW e \in Emails \cup {None}, NEW n \in Numbers \cup {None},
             social_login(w, i, e, n)
      PROVE  \E r \in Request : /\ Begin(w, r) /\ RequestOK(r) /\ Loaded(r)
                                /\ LinksAgree => Fresh(r)
  <2> DEFINE retry == TRUE
  <2>1. PICK r \in Resolved(i, e, n, retry) : Begin(w, r)
    BY <1>2 DEF social_login
  <2>5. retry \in BOOLEAN
    BY Zenon
  <2> HIDE DEF retry
  <2>2. /\ r \in Request /\ RequestOK(r) /\ r.identity = i
        /\ \/ r.op = "new" /\ r.user = None
           \/ /\ r.op = "found" /\ r.user \in Found(i, e, n) /\ Present(r.user)
              /\ r.seen = users[r.user]
    BY <1>1, <2>5, ResolvedOK
  <2>3. LinksAgree => Fresh(r)
    BY <1>1, <2>2, FoundMayLink DEF Fresh, Loaded
  <2> QED BY <2>1, <2>2, <2>3 DEF Loaded
<1>3. ASSUME NEW u \in Users, NEW i \in Identities, NEW e \in Emails \cup {None},
             NEW n \in Numbers \cup {None}, link(w, u, i, e, n)
      PROVE  \E r \in Request : /\ Begin(w, r) /\ RequestOK(r) /\ Loaded(r)
                                /\ LinksAgree => Fresh(r)
  <2>1. PICK r : Begin(w, r) /\ r = Linking(u, i, e, n)
    BY <1>3 DEF link, Linking
  <2>2. Present(u) /\ accounts[i] \in {None, u} /\ (accounts[i] = None => ~LinkedToOther(u, i))
    BY <1>3 DEF link
  <2>3. /\ r \in Request /\ RequestOK(r)
        /\ r.op = "found" /\ r.user = u /\ r.identity = i /\ r.seen = users[u]
    BY <2>1, <2>2, LinkOK
  <2>4. LinksAgree => ~LinkedToOther(u, i)
    <3>1. accounts[i] = u => u \in Found(i, e, n)
      BY ConstantsAssumption DEF Found
    <3> QED BY <1>1, <2>2, <3>1, FoundMayLink
  <2> QED BY <2>1, <2>2, <2>3, <2>4 DEF Fresh, Loaded
<1>4. ASSUME NEW u \in Users, NEW i \in Identities, unlink(w, u, i)
      PROVE  \E r \in Request : /\ Begin(w, r) /\ RequestOK(r) /\ Loaded(r)
                                /\ LinksAgree => Fresh(r)
  <2>1. PICK r : Begin(w, r) /\ r = Unlinking(u, i)
    BY <1>4 DEF unlink, Unlinking
  <2>2. /\ Present(u) /\ accounts[i] = u /\ OtherSignIn(u, i)
        /\ \A j \in SameProvider(i) \ {i} : accounts[j] # u
    BY <1>4 DEF unlink
  <2>3. /\ r \in Request /\ RequestOK(r)
        /\ r.op = "unlink" /\ r.user = u /\ r.identity = i /\ r.seen = users[u]
    BY <2>1, <2>2, UnlinkOK
  <2> QED BY <2>1, <2>2, <2>3 DEF Fresh, Loaded
<1>5. ASSUME NEW u \in Users, NEW p \in Phones, verify_phone_update(w, u, p)
      PROVE  \E r \in Request : /\ Begin(w, r) /\ RequestOK(r) /\ Loaded(r)
                                /\ LinksAgree => Fresh(r)
  <2>1. PICK r : Begin(w, r) /\ r = Verifying(u, p)
    BY <1>5 DEF verify_phone_update, Verifying
  <2>2. Present(u)
    BY <1>5 DEF verify_phone_update
  <2>3. r \in Request /\ RequestOK(r) /\ r.op = "verify" /\ r.user = u /\ r.seen = users[u]
    BY <2>1, <2>2, VerifyOK
  <2> QED BY <2>1, <2>2, <2>3 DEF Fresh, Loaded
<1> QED BY <1>2, <1>3, <1>4, <1>5 DEF Begins

Continues(w) == Fill(w) \/ FillNew(w) \/ Retry(w)

LEMMA Continued ==
    ASSUME Typed, NEW w \in Workers, Continues(w)
    PROVE  /\ requests[w].op # "idle" /\ Serving(w, requests[w].op)
           /\ UNCHANGED <<tables, history>>
           /\ \E r \in Request :
                 /\ requests' = [requests EXCEPT ![w] = r] /\ RequestOK(r)
                 /\ Loaded(r) \/ (r.user = requests[w].user /\ r.seen = requests[w].seen)
                 /\ LinksAgree /\ Fresh(requests[w]) => Fresh(r)
<1>1. PICK q : q = requests[w]
  OBVIOUS
<1>2. TablesOK /\ q \in Request /\ RequestOK(q)
  BY <1>1 DEF Typed, RequestsOK
<1>3. CASE Fill(w)
  <2>1. PICK new : new = Filled(q.seen, q.user, q)
    OBVIOUS
  <2>2. PICK insert : insert = Unlinked(q.identity, q.user)
    OBVIOUS
  <2>3. PICK r : r = [q EXCEPT !.op = "fill", !.new = new, !.insert = insert]
    OBVIOUS
  <2>4. /\ requests' = [requests EXCEPT ![w] = r] /\ q.op = "found" /\ Serving(w, q.op)
        /\ UNCHANGED <<tables, history>>
    BY <1>1, <1>3, <2>1, <2>2, <2>3 DEF Fill, Unlinked, Serving
  <2>5. /\ r.op = "fill" /\ r.new = new /\ r.insert = insert /\ r.user = q.user
        /\ r.seen = q.seen /\ r.number = q.number /\ r.identity = q.identity
    BY <1>2, <2>3 DEF Request
  <2>6. q.seen \in User /\ q.identity \in Identities /\ q.user \in Users
        /\ q.seen.state = "present" /\ q.user # None
    BY <1>2, <2>4, ConstantsAssumption DEF RequestOK, Request
  <2>7. new \in User /\ FilledFrom(q.seen, r)
    BY <1>2, <2>1, <2>5, <2>6, FilledOK
  <2>8. insert \in BOOLEAN
    BY <2>2, Zenon DEF Unlinked
  <2>9. r \in Request
    BY <1>2, <2>3, <2>7, <2>8 DEF Request
  <2>10. RequestOK(r)
    BY <2>4, <2>5, <2>6, <2>7 DEF RequestOK, FilledFrom
  <2>11. Fresh(q) => Fresh(r)
    BY <2>2, <2>4, <2>5, <2>6 DEF Fresh, Loaded
  <2> QED BY <1>1, <2>4, <2>5, <2>9, <2>10, <2>11
<1>4. CASE FillNew(w)
  <2>1. PICK new : new = Filled(Created, None, q)
    OBVIOUS
  <2>2. PICK r : r = [q EXCEPT !.op = "fill", !.insert = TRUE, !.new = new]
    OBVIOUS
  <2>3. /\ requests' = [requests EXCEPT ![w] = r] /\ q.op = "new" /\ Serving(w, q.op)
        /\ UNCHANGED <<tables, history>>
    BY <1>1, <1>4, <2>1, <2>2 DEF FillNew, Serving, Created
  <2>4. /\ r.op = "fill" /\ r.new = new /\ r.insert = TRUE /\ r.user = q.user
        /\ r.seen = q.seen /\ r.number = q.number /\ r.identity = q.identity
    BY <1>2, <2>2 DEF Request
  <2>5. q.identity \in Identities /\ q.user = None /\ q.seen = NoUser
    BY <1>2, <2>3 DEF RequestOK
  <2>6. new \in User /\ FilledFrom(Created, r)
    BY <1>2, <2>1, <2>4, <2>5, RowTypes, FilledOK
  <2>7. r \in Request
    BY <1>2, <2>2, <2>6 DEF Request
  <2>8. RequestOK(r)
    BY <2>3, <2>4, <2>5, <2>6 DEF RequestOK, FilledFrom, Created, NoUser
  <2>9. Fresh(r)
    BY <2>4, <2>5 DEF Fresh, Loaded
  <2> QED BY <1>1, <2>3, <2>4, <2>7, <2>8, <2>9
<1>5. CASE Retry(w)
  <2>1. /\ q.op = "fill" /\ Serving(w, q.op) /\ UNCHANGED <<tables, history>>
        /\ \E r \in Resolved(q.identity, q.email, q.number, FALSE) :
              requests' = [requests EXCEPT ![w] = r]
    BY <1>1, <1>5 DEF Retry, Serving
  <2>2. PICK i \in Identities, e \in Emails \cup {None}, n \in Numbers \cup {None} :
           i = q.identity /\ e = q.email /\ n = q.number
    BY <1>2, <2>1 DEF RequestOK, Request
  <2> DEFINE retry == FALSE
  <2>3. PICK r \in Resolved(i, e, n, retry) : requests' = [requests EXCEPT ![w] = r]
    BY <2>1, <2>2
  <2>4. retry \in BOOLEAN
    BY Zenon
  <2> HIDE DEF retry
  <2>5. /\ r \in Request /\ RequestOK(r) /\ r.identity = i
        /\ \/ r.op = "new" /\ r.user = None
           \/ /\ r.op = "found" /\ r.user \in Found(i, e, n) /\ Present(r.user)
              /\ r.seen = users[r.user]
    BY <1>2, <2>4, ResolvedOK
  <2>6. LinksAgree => Fresh(r)
    BY <1>2, <2>5, FoundMayLink DEF Fresh, Loaded
  <2> QED BY <1>1, <2>1, <2>3, <2>5, <2>6 DEF Loaded
<1> QED BY <1>3, <1>4, <1>5 DEF Continues

-------------------------------------------------------------------------------
(* The steps that write.                                                   *)

\* A row that exists changes by itself: no link, no code and no confirmation does.
Edits(w) ==
    \E u \in Users : \/ set_password(w, u) \/ update_user_status(w, u) \/ delete_user(w, u)
                     \/ \E e \in Emails : update_email(w, u, e)
                     \/ \E p \in Phones : update_phone(w, u, p)

Edited(w, u, row) ==
    /\ AtOnce(w) /\ Present(u) /\ users' = [users EXCEPT ![u] = row]
    /\ row.state = "present"
    /\ \/ Fits(u, row)
       \/ \A column \in Columns : row[column] \in {None, users[u][column]}
    /\ \A column \in IdColumns : row[column] = users[u][column]
    /\ users[u].password => row.password
    /\ row.phone_verified = users[u].phone_verified
    /\ row.phone = users[u].phone \/ row.phone \in entered'[u]
    /\ UNCHANGED <<accounts, codes, confirmed>>
    /\ entered' \in [Users -> SUBSET Phones]
    /\ entered[u] \subseteq entered'[u]
    /\ \A v \in Users : v # u => entered'[v] = entered[v]

LEMMA EditsOneRow ==
    ASSUME Typed, NEW w \in Workers, Edits(w)
    PROVE  \E u \in Users, row \in User : Edited(w, u, row)
<1>1. /\ users \in [Users -> User]
      /\ entered \in [Users -> SUBSET Phones]
  BY DEF Typed, TablesOK, HistoryOK
<1>2. PICK u \in Users : \/ set_password(w, u) \/ update_user_status(w, u)
                         \/ delete_user(w, u)
                         \/ \E e \in Emails : update_email(w, u, e)
                         \/ \E p \in Phones : update_phone(w, u, p)
  BY DEF Edits
<1>3. PICK old \in User : old = users[u]
  BY <1>1
<1>4. CASE set_password(w, u)
  <2>1. /\ AtOnce(w) /\ Present(u) /\ UNCHANGED <<accounts, codes, history>>
        /\ users' = [users EXCEPT ![u] = [old EXCEPT !.password = TRUE]]
    BY <1>1, <1>3, <1>4 DEF set_password
  <2>2. PICK row : row = [old EXCEPT !.password = TRUE]
    OBVIOUS
  <2>3. row \in User
    BY <2>2 DEF User
  <2>4. /\ row.state = old.state /\ row.email = old.email /\ row.phone = old.phone
        /\ row.google_id = old.google_id /\ row.telegram_id = old.telegram_id
        /\ row.phone_verified = old.phone_verified /\ row.password
    BY <2>2 DEF User
  <2> QED BY <1>1, <1>3, <2>1, <2>2, <2>3, <2>4
          DEF Edited, Columns, IdColumns, Present, history
<1>5. CASE update_user_status(w, u)
  <2>1. PICK access \in {"barred", "open"} :
           /\ AtOnce(w) /\ Present(u) /\ UNCHANGED <<accounts, codes, history>>
           /\ users' = [users EXCEPT ![u] = [old EXCEPT !.access = access]]
    BY <1>1, <1>3, <1>5 DEF update_user_status
  <2>2. PICK row : row = [old EXCEPT !.access = access]
    OBVIOUS
  <2>3. row \in User
    BY <2>2 DEF User
  <2>4. /\ row.state = old.state /\ row.email = old.email /\ row.phone = old.phone
        /\ row.google_id = old.google_id /\ row.telegram_id = old.telegram_id
        /\ row.phone_verified = old.phone_verified /\ row.password = old.password
    BY <2>2 DEF User
  <2> QED BY <1>1, <1>3, <2>1, <2>2, <2>3, <2>4
          DEF Edited, Columns, IdColumns, Present, history
<1>6. CASE delete_user(w, u)
  <2>1. /\ AtOnce(w) /\ Present(u) /\ UNCHANGED <<accounts, codes, history>>
        /\ users' = [users EXCEPT ![u] = [old EXCEPT !.access = "removed"]]
    BY <1>1, <1>3, <1>6 DEF delete_user
  <2>2. PICK row : row = [old EXCEPT !.access = "removed"]
    OBVIOUS
  <2>3. row \in User
    BY <2>2 DEF User
  <2>4. /\ row.state = old.state /\ row.email = old.email /\ row.phone = old.phone
        /\ row.google_id = old.google_id /\ row.telegram_id = old.telegram_id
        /\ row.phone_verified = old.phone_verified /\ row.password = old.password
    BY <2>2 DEF User
  <2> QED BY <1>1, <1>3, <2>1, <2>2, <2>3, <2>4
          DEF Edited, Columns, IdColumns, Present, history
<1>7. ASSUME NEW e \in Emails, update_email(w, u, e)
      PROVE  \E row \in User : Edited(w, u, row)
  <2>1. PICK row : row = [old EXCEPT !.email = e]
    OBVIOUS
  <2>2. /\ AtOnce(w) /\ Present(u) /\ UNCHANGED <<accounts, codes, history>>
        /\ users' = [users EXCEPT ![u] = row] /\ Fits(u, row)
    BY <1>1, <1>3, <1>7, <2>1 DEF update_email, UpdateProfile, history
  <2>3. row \in User
    BY <2>1 DEF User
  <2>4. /\ row.state = old.state /\ row.phone = old.phone
        /\ row.google_id = old.google_id /\ row.telegram_id = old.telegram_id
        /\ row.phone_verified = old.phone_verified /\ row.password = old.password
    BY <2>1 DEF User
  <2> QED BY <1>1, <1>3, <2>2, <2>3, <2>4 DEF Edited, IdColumns, Present, history
<1>8. ASSUME NEW p \in Phones, update_phone(w, u, p)
      PROVE  \E row \in User : Edited(w, u, row)
  <2>1. PICK row : row = [old EXCEPT !.phone = p]
    OBVIOUS
  <2>2. /\ AtOnce(w) /\ Present(u) /\ UNCHANGED <<accounts, codes, confirmed>>
        /\ users' = [users EXCEPT ![u] = row] /\ Fits(u, row)
        /\ entered' = [entered EXCEPT ![u] = @ \cup {p}]
    BY <1>1, <1>3, <1>8, <2>1 DEF update_phone, UpdateProfile
  <2>3. row \in User
    BY <2>1 DEF User
  <2>4. /\ row.state = old.state /\ row.phone = p
        /\ row.google_id = old.google_id /\ row.telegram_id = old.telegram_id
        /\ row.phone_verified = old.phone_verified /\ row.password = old.password
    BY <2>1 DEF User
  <2>5. /\ entered' \in [Users -> SUBSET Phones] /\ p \in entered'[u]
        /\ entered[u] \subseteq entered'[u]
        /\ \A v \in Users : v # u => entered'[v] = entered[v]
    BY <1>1, <2>2
  <2> QED BY <1>1, <1>3, <2>2, <2>3, <2>4, <2>5 DEF Edited, IdColumns, Present
<1> QED BY <1>2, <1>4, <1>5, <1>6, <1>7, <1>8

\* register_verify inserts a row that no identity is linked to.
Registered(n) == [NoUser EXCEPT !.state = "present", !.password = TRUE,
                                !.phone = <<n, "bare">>, !.phone_verified = TRUE]

LEMMA RegisteredRow ==
    ASSUME NEW n \in Numbers, NEW row, row = Registered(n)
    PROVE  /\ row \in User /\ row.state = "present" /\ row.password /\ row.phone \in Phones
           /\ \A column \in IdColumns : row[column] = None
<1>1. PICK p \in Phones : p = <<n, "bare">>
  BY DEF Phones
<1>2. row = [NoUser EXCEPT !.state = "present", !.password = TRUE, !.phone = p,
                           !.phone_verified = TRUE]
  BY <1>1 DEF Registered
<1>3. row \in User
  BY <1>2, RowTypes DEF User
<1>4. row.state = "present" /\ row.phone = p /\ row.google_id = None /\ row.telegram_id = None
  BY <1>2 DEF NoUser
<1>5. row.password
  BY <1>2 DEF NoUser
<1> QED BY <1>3, <1>4, <1>5 DEF IdColumns

LEMMA Registers ==
    ASSUME NEW w \in Workers, NEW n \in Numbers, register(w, n)
    PROVE  /\ AtOnce(w) /\ UNCHANGED <<accounts, codes, entered>>
           /\ \E u \in Users :
                 /\ users[u].state = "absent" /\ Fits(u, Registered(n))
                 /\ users' = [users EXCEPT ![u] = Registered(n)]
                 /\ confirmed' = [confirmed EXCEPT ![u] = {Registered(n).phone}]
  BY DEF register, Registered

\* What FillCommit writes.
LEMMA FillWrites ==
    ASSUME Typed, NEW w \in Workers, FillCommit(w)
    PROVE  \E r \in Request, u \in Users :
              /\ r = requests[w] /\ r.op = "fill" /\ RequestOK(r)
              /\ Serving(w, "fill") /\ Finish(w) /\ UNCHANGED <<codes, entered>>
              /\ Target(r, u) /\ Fits(u, Written(u, r))
              /\ r.insert => accounts[r.identity] = None
              /\ Written(u, r).state = "present"
              /\ users' = [users EXCEPT ![u] = Written(u, r)]
              /\ accounts' = IF r.insert THEN [accounts EXCEPT ![r.identity] = u]
                             ELSE accounts
              /\ confirmed' = [confirmed EXCEPT ![u] = @ \cup (IF r.number = None THEN {}
                                   ELSE {r.new.phone} \cap Variants(r.number))]
<1>1. PICK r : r = requests[w]
  OBVIOUS
<1>2. r \in Request /\ RequestOK(r) /\ r.op = "fill" /\ TablesOK
  BY <1>1 DEF Typed, RequestsOK, FillCommit, Serving
<1>3. PICK u \in Users :
         /\ Writable(r, u)
         /\ users' = [users EXCEPT ![u] = Written(u, r)]
         /\ accounts' = IF r.insert THEN [accounts EXCEPT ![r.identity] = u] ELSE accounts
         /\ confirmed' = [confirmed EXCEPT ![u] = @ \cup (IF r.number = None THEN {}
                              ELSE {r.new.phone} \cap Variants(r.number))]
  BY <1>1 DEF FillCommit
<1>4. Written(u, r).state = IF r.new.state # r.seen.state THEN r.new.state ELSE users[u].state
  BY <1>2, WrittenOK DEF TablesOK, NoUser
<1>5. Target(r, u)
  BY <1>3 DEF Writable
<1>6. Written(u, r).state = "present"
  BY <1>2, <1>4, <1>5 DEF RequestOK, Target, Present, NoUser
<1> QED BY <1>1, <1>2, <1>3, <1>5, <1>6 DEF Writable, FillCommit

LEMMA CommitWrites ==
    ASSUME Typed, NEW w \in Workers, UnlinkCommit(w) \/ VerifyCommit(w)
    PROVE  \E r \in Request :
              /\ r = requests[w] /\ r.op \in {"unlink", "verify"} /\ RequestOK(r)
              /\ Serving(w, r.op) /\ Finish(w) /\ UNCHANGED entered
              /\ r.user \in Users /\ Present(r.user)
              /\ Written(r.user, r).state = "present"
              /\ users' = [users EXCEPT ![r.user] = Written(r.user, r)]
              /\ \/ /\ r.op = "unlink" /\ UNCHANGED <<codes, confirmed>>
                    /\ accounts' = [accounts EXCEPT ![r.identity] =
                                       IF @ = r.user THEN None ELSE @]
                 \/ /\ r.op = "verify" /\ UNCHANGED accounts
                    /\ Fits(r.user, Written(r.user, r))
                    /\ codes' = [codes EXCEPT ![r.user] = @ \ {r.new.phone}]
                    /\ confirmed' = [confirmed EXCEPT ![r.user] = @ \cup {r.new.phone}]
<1>1. PICK r : r = requests[w]
  OBVIOUS
<1>2. r \in Request /\ RequestOK(r) /\ r.op \in {"unlink", "verify"} /\ TablesOK
  BY <1>1 DEF Typed, RequestsOK, UnlinkCommit, VerifyCommit, Serving
<1>3. r.user \in Users /\ Present(r.user)
  BY <1>1, <1>2 DEF RequestOK, UnlinkCommit, VerifyCommit
<1>4. Written(r.user, r).state
          = IF r.new.state # r.seen.state THEN r.new.state ELSE users[r.user].state
  BY <1>2, <1>3, WrittenOK DEF TablesOK, NoUser
<1>5. Written(r.user, r).state = "present"
  BY <1>2, <1>3, <1>4, ConstantsAssumption DEF RequestOK, Present
<1>6. CASE UnlinkCommit(w)
  BY <1>1, <1>2, <1>3, <1>5, <1>6 DEF UnlinkCommit, Serving, history
<1>7. CASE VerifyCommit(w)
  BY <1>1, <1>2, <1>3, <1>5, <1>7 DEF VerifyCommit, Serving
<1> QED BY <1>6, <1>7

\* Codes come and go by themselves.
Codes(w) == \E u \in Users : code_lost(w, u) \/ \E p \in Phones : request_phone_update(w, u, p)

LEMMA CodesOnly ==
    ASSUME Typed, NEW w \in Workers, Codes(w)
    PROVE  /\ AtOnce(w) /\ UNCHANGED <<users, accounts, history>>
           /\ codes' \in [Users -> SUBSET Phones]
  BY DEF Codes, code_lost, request_phone_update, Typed, TablesOK

\* The step relation by what its actions do to the tables.
LEMMA NextForms ==
    ASSUME Next
    PROVE  \E w \in Workers :
              \/ Begins(w) \/ Continues(w) \/ Edits(w) \/ Codes(w)
              \/ \E n \in Numbers : register(w, n)
              \/ \E u \in Users : delete_account(w, u)
              \/ FillCommit(w) \/ UnlinkCommit(w) \/ VerifyCommit(w) \/ Abort(w)
<1>1. PICK w \in Workers : \/ SignInRequest(w) \/ LinkRequest(w) \/ UserRequest(w)
                           \/ AdminRequest(w) \/ Commit(w) \/ Abort(w)
  BY DEF Next
<1> DEFINE Form == \/ Begins(w) \/ Continues(w) \/ Edits(w) \/ Codes(w)
                   \/ \E n \in Numbers : register(w, n)
                   \/ \E u \in Users : delete_account(w, u)
                   \/ FillCommit(w) \/ UnlinkCommit(w) \/ VerifyCommit(w) \/ Abort(w)
<1>2. ASSUME SignInRequest(w) PROVE Form
  BY <1>2 DEF SignInRequest, Begins
<1>3. ASSUME LinkRequest(w) PROVE Form
  BY <1>3 DEF LinkRequest, Begins
<1>4. ASSUME UserRequest(w) PROVE Form
  BY <1>4 DEF UserRequest, Begins, Edits, Codes
<1>5. ASSUME AdminRequest(w) PROVE Form
  BY <1>5 DEF AdminRequest, Edits
<1>6. ASSUME Commit(w) PROVE Form
  BY <1>6 DEF Commit, Continues
<1> QED BY <1>1, <1>2, <1>3, <1>4, <1>5, <1>6

LEMMA AtOnceKeeps ==
    ASSUME Typed, NEW w \in Workers, AtOnce(w) PROVE RequestsOK' /\ CountersOK'
  BY ComeCounts DEF Typed, AtOnce, RequestsOK

LEMMA TypedStep == Typed /\ [Next]_vars => Typed'
<1> SUFFICES ASSUME Typed, [Next]_vars PROVE Typed'
  OBVIOUS
<1>1. TablesOK /\ HistoryOK /\ RequestsOK /\ CountersOK
  BY DEF Typed
<1>2. CASE UNCHANGED vars
  <2>1. TablesOK'
    BY <1>1, <1>2 DEF vars, tables, TablesOK, Unique, Rows, Present
  <2> QED BY <1>1, <1>2, <2>1 DEF vars, history, Typed, HistoryOK, RequestsOK, CountersOK
<1>3. CASE Next
  <2>1. PICK w \in Workers :
              \/ Begins(w) \/ Continues(w) \/ Edits(w) \/ Codes(w)
              \/ \E n \in Numbers : register(w, n)
              \/ \E u \in Users : delete_account(w, u)
              \/ FillCommit(w) \/ UnlinkCommit(w) \/ VerifyCommit(w) \/ Abort(w)
    BY <1>3, NextForms
  <2>2. CASE Begins(w)
    <3>1. PICK r \in Request : Begin(w, r) /\ RequestOK(r)
      BY <2>2, Begun
    <3>2. CountersOK'
      BY <1>1, <3>1, ComeCounts DEF Begin
    <3> QED BY <3>1, <3>2, RequestKeeps DEF Begin
  <2>3. CASE Continues(w)
    <3>1. PICK r \in Request : requests' = [requests EXCEPT ![w] = r] /\ RequestOK(r)
      BY <2>3, Continued
    <3>2. CountersOK' /\ UNCHANGED <<tables, history>>
      BY <1>1, <2>3, Continued, ServingCounts
    <3> QED BY <3>1, <3>2, RequestKeeps
  <2>4. CASE Edits(w)
    <3>1. PICK u \in Users, row \in User : Edited(w, u, row)
      BY <2>4, EditsOneRow
    <3>2. TablesOK'
      BY <1>1, <3>1, RowKeeps DEF Edited, TablesOK
    <3>3. HistoryOK'
      BY <1>1, <3>1 DEF Edited, HistoryOK
    <3> QED BY <3>1, <3>2, <3>3, AtOnceKeeps DEF Edited, Typed
  <2>5. CASE Codes(w)
    <3>1. TablesOK' /\ HistoryOK'
      BY <1>1, <2>5, CodesOnly DEF TablesOK, HistoryOK, history, Unique, Rows, Present
    <3> QED BY <2>5, <3>1, CodesOnly, AtOnceKeeps DEF Typed
  <2>6. ASSUME NEW n \in Numbers, register(w, n) PROVE Typed'
    <3>1. PICK row \in User : /\ row = Registered(n) /\ row.state = "present"
                              /\ row.phone \in Phones
      BY RegisteredRow
    <3>2. /\ AtOnce(w) /\ UNCHANGED <<accounts, codes, entered>>
          /\ \E u \in Users : /\ Fits(u, row) /\ users' = [users EXCEPT ![u] = row]
                              /\ confirmed' = [confirmed EXCEPT ![u] = {row.phone}]
      BY <2>6, <3>1, Registers
    <3>3. PICK u \in Users : /\ Fits(u, row) /\ users' = [users EXCEPT ![u] = row]
                             /\ confirmed' = [confirmed EXCEPT ![u] = {row.phone}]
      BY <3>2
    <3>4. TablesOK'
      BY <1>1, <3>1, <3>2, <3>3, RowKeeps DEF TablesOK
    <3>5. HistoryOK'
      BY <1>1, <3>1, <3>2, <3>3 DEF HistoryOK
    <3> QED BY <3>2, <3>4, <3>5, AtOnceKeeps DEF Typed
  <2>7. ASSUME NEW u \in Users, delete_account(w, u) PROVE Typed'
    <3>1. /\ AtOnce(w) /\ users' = [users EXCEPT ![u] = Gone] /\ UNCHANGED history
          /\ accounts' = [i \in Identities |-> IF accounts[i] = u THEN None ELSE accounts[i]]
          /\ codes' = [codes EXCEPT ![u] = {}]
      BY <2>7 DEF delete_account
    <3>2. Gone.state = "deleted"
      BY DEF Gone, NoUser
    <3>3. /\ users' \in [Users -> User] /\ users'[u] = Gone
          /\ \A v \in Users : v # u => users'[v] = users[v]
      BY <1>1, <3>1, RowTypes DEF TablesOK
    <3>4. Rows' = Rows \ {u}
      BY <3>2, <3>3 DEF Rows, Present
    <3>5. Unique'
      BY <1>1, <3>3, <3>4 DEF TablesOK, Unique, Rows
    <3>6. \A i \in Identities : accounts'[i] # None => accounts'[i] \in Rows'
      BY <1>1, <3>1, <3>4 DEF TablesOK
    <3>7. /\ accounts' \in [Identities -> Users \cup {None}]
          /\ codes' \in [Users -> SUBSET Phones]
      BY <1>1, <3>1 DEF TablesOK
    <3>8. \A v \in Users : users'[v].state = "absent" => users'[v] = NoUser
      BY <1>1, <3>2, <3>3 DEF TablesOK
    <3>9. TablesOK'
      BY <3>3, <3>5, <3>6, <3>7, <3>8 DEF TablesOK
    <3>10. HistoryOK'
      BY <1>1, <3>1 DEF HistoryOK, history
    <3> QED BY <3>1, <3>9, <3>10, AtOnceKeeps DEF Typed
  <2>8. CASE FillCommit(w)
    <3>1. PICK r \in Request, u \in Users :
              /\ r.op = "fill" /\ RequestOK(r)
              /\ Serving(w, "fill") /\ Finish(w) /\ UNCHANGED <<codes, entered>>
              /\ Fits(u, Written(u, r)) /\ Written(u, r).state = "present"
              /\ users' = [users EXCEPT ![u] = Written(u, r)]
              /\ accounts' = IF r.insert THEN [accounts EXCEPT ![r.identity] = u]
                             ELSE accounts
              /\ confirmed' = [confirmed EXCEPT ![u] = @ \cup (IF r.number = None THEN {}
                                   ELSE {r.new.phone} \cap Variants(r.number))]
      BY <2>8, FillWrites
    <3>2. PICK row \in User : row = Written(u, r)
      BY <1>1, WrittenOK DEF TablesOK
    <3>3. /\ accounts' \in [Identities -> Users \cup {None}]
          /\ \A i \in Identities : accounts'[i] \in {accounts[i], u, None}
      BY <1>1, <3>1 DEF TablesOK
    <3>4. TablesOK'
      BY <1>1, <3>1, <3>2, <3>3, RowKeeps DEF TablesOK
    <3>5. r.number # None => Variants(r.number) \subseteq Phones
      BY DEF Request, Variants, Phones
    <3>6. HistoryOK'
      BY <1>1, <3>1, <3>5 DEF HistoryOK
    <3> QED BY <1>1, <3>1, <3>4, <3>6, FinishKeeps, ServingCounts DEF Typed
  <2>9. CASE UnlinkCommit(w) \/ VerifyCommit(w)
    <3>1. PICK r \in Request :
              /\ r.op \in {"unlink", "verify"} /\ RequestOK(r)
              /\ Serving(w, r.op) /\ Finish(w) /\ UNCHANGED entered
              /\ r.user \in Users /\ Present(r.user)
              /\ Written(r.user, r).state = "present"
              /\ users' = [users EXCEPT ![r.user] = Written(r.user, r)]
              /\ \/ /\ r.op = "unlink" /\ UNCHANGED <<codes, confirmed>>
                    /\ accounts' = [accounts EXCEPT ![r.identity] =
                                       IF @ = r.user THEN None ELSE @]
                 \/ /\ r.op = "verify" /\ UNCHANGED accounts
                    /\ Fits(r.user, Written(r.user, r))
                    /\ codes' = [codes EXCEPT ![r.user] = @ \ {r.new.phone}]
                    /\ confirmed' = [confirmed EXCEPT ![r.user] = @ \cup {r.new.phone}]
      BY <2>9, CommitWrites
    <3>2. PICK u \in Users : u = r.user /\ Present(u)
      BY <3>1
    <3>3. PICK row \in User :
             /\ row = Written(u, r) /\ row.state = "present"
             /\ \A c \in DOMAIN NoUser :
                   row[c] = IF r.new[c] # r.seen[c] THEN r.new[c] ELSE users[u][c]
      BY <1>1, <3>1, <3>2, WrittenOK DEF TablesOK
    <3>4. CASE r.op = "unlink"
      <4>1. \A c \in Columns : row[c] \in {None, users[u][c]}
        <5>1. PICK old \in User : old = r.seen
          BY DEF Request
        <5>2. r.new = [old EXCEPT ![IdColumn(r.identity)] = None]
          BY <3>1, <3>4, <5>1 DEF RequestOK
        <5>3. \A c \in Columns : r.new[c] = old[c] \/ r.new[c] = None
          BY <5>2 DEF Columns, User, IdColumn
        <5>4. Columns \subseteq DOMAIN NoUser
          BY DEF Columns, NoUser
        <5> QED BY <3>3, <5>1, <5>3, <5>4
      <4>2. /\ accounts' \in [Identities -> Users \cup {None}]
            /\ \A i \in Identities : accounts'[i] \in {accounts[i], u, None}
        BY <1>1, <3>1, <3>4 DEF TablesOK
      <4>3. TablesOK'
        BY <1>1, <3>1, <3>2, <3>3, <3>4, <4>1, <4>2, RowKeeps DEF TablesOK
      <4>4. HistoryOK'
        BY <1>1, <3>1, <3>4 DEF HistoryOK
      <4> QED BY <1>1, <3>1, <4>3, <4>4, FinishKeeps, ServingCounts DEF Typed
    <3>5. CASE r.op = "verify"
      <4>1. /\ accounts' \in [Identities -> Users \cup {None}]
            /\ \A i \in Identities : accounts'[i] \in {accounts[i], u, None}
            /\ codes' \in [Users -> SUBSET Phones]
        BY <1>1, <3>1, <3>5 DEF TablesOK
      <4>2. TablesOK'
        BY <1>1, <3>1, <3>2, <3>3, <3>5, <4>1, RowKeeps
      <4>3. HistoryOK'
        BY <1>1, <3>1, <3>5 DEF HistoryOK, RequestOK
      <4> QED BY <1>1, <3>1, <4>2, <4>3, FinishKeeps, ServingCounts DEF Typed
    <3> QED BY <3>1, <3>4, <3>5
  <2>10. CASE Abort(w)
    <3>1. /\ UNCHANGED <<tables, history>> /\ Finish(w) /\ Serving(w, requests[w].op)
      BY <2>10 DEF Abort
    <3>2. CountersOK'
      BY <1>1, <3>1, ServingCounts
    <3> QED BY <3>1, <3>2, IdleOK, RequestKeeps DEF Finish
  <2> QED BY <2>1, <2>2, <2>3, <2>4, <2>5, <2>6, <2>7, <2>8, <2>9, <2>10
<1> QED BY <1>2, <1>3

LEMMA TypedAlways == Spec => []Typed
  BY InitTyped, TypedStep, PTL DEF Spec

\* Rows and requests are well formed whatever overlaps, e-mail, phone and identities are
\* unique among the accounts, and an identity is linked to an account that exists: the
\* unique columns and the cascade of auth/models.py are all the code relies on.
THEOREM TypeCorrect == Spec => []TypeOK
  BY TypedAlways, TypedType, PTL

-------------------------------------------------------------------------------
(* Where a verified phone comes from.                                      *)

OnRecord(u) == confirmed[u] \cup entered[u]

\* The phone that a request loaded is still there, or was replaced by one on record.
KnownPhone(r) ==
    r.user # None =>
        /\ users[r.user].state # "absent"
        /\ Present(r.user) => users[r.user].phone \in {r.seen.phone} \cup OnRecord(r.user)

PhonesOK ==
    /\ PhoneWasConfirmed
    /\ \A w \in Workers : \A r \in Request : r = requests[w] => KnownPhone(r)

LEMMA InitPhones == Init => PhonesOK
<1> SUFFICES ASSUME Init PROVE PhonesOK
  OBVIOUS
<1>1. \A u \in Users : users[u].phone_verified = FALSE
  <2>1. CASE users = [u \in Users |-> NoUser]
    BY <2>1 DEF NoUser
  <2>2. ASSUME NEW v \in Users, NEW g \in Google,
               users = [x \in Users |-> IF x = v
                            THEN [NoUser EXCEPT !.state = "present", !.google_id = g]
                            ELSE NoUser]
        PROVE  \A u \in Users : users[u].phone_verified = FALSE
    BY <2>2 DEF NoUser
  <2> QED BY <2>1, <2>2 DEF Init
<1>2. PhoneWasConfirmed
  BY <1>1 DEF PhoneWasConfirmed, Rows
<1>3. \A w \in Workers : requests[w] = Idle
  BY DEF Init
<1>4. Idle.user = None
  BY DEF Idle
<1> QED BY <1>2, <1>3, <1>4 DEF PhonesOK, KnownPhone

\* A request moves on: nothing else changes, and it knows the phone of its row.
LEMMA PhonesKept ==
    ASSUME Typed, PhonesOK, UNCHANGED <<tables, history>>,
           NEW w \in Workers, NEW q \in Request, KnownPhone(q),
           requests' = [requests EXCEPT ![w] = q]
    PROVE  PhonesOK'
<1>1. PhoneWasConfirmed'
  BY DEF PhonesOK, PhoneWasConfirmed, tables, history, Rows, Present
<1>2. ASSUME NEW v \in Workers, NEW r \in Request, r = requests'[v]
      PROVE  KnownPhone(r)'
  <2>1. r = q \/ r = requests[v]
    BY <1>2 DEF Typed, RequestsOK
  <2>2. KnownPhone(r)
    BY <2>1 DEF PhonesOK
  <2> QED BY <2>2 DEF KnownPhone, OnRecord, tables, history, Present
<1> QED BY <1>1, <1>2 DEF PhonesOK

LEMMA IdleKnows == KnownPhone(Idle) /\ Loaded(Idle) /\ Fresh(Idle)
<1>1. Idle.user = None /\ Idle.op = "idle"
  BY DEF Idle
<1> QED BY <1>1 DEF KnownPhone, Loaded, Fresh

LEMMA LoadedKnows == ASSUME NEW r, r.user # None => r.user \in Users, Loaded(r)
                     PROVE  KnownPhone(r)
  BY DEF KnownPhone, Loaded, Present

\* A row is written: what is on record only grows, and covers its phone.
LEMMA PhonesWritten ==
    ASSUME Typed, PhonesOK, NEW u \in Users, NEW row \in User, row.state = "present",
           users' = [users EXCEPT ![u] = row],
           \A v \in Users : v # u => confirmed'[v] = confirmed[v] /\ entered'[v] = entered[v],
           Present(u) => OnRecord(u) \subseteq OnRecord(u)',
           \/ Present(u) /\ row.phone = users[u].phone
           \/ row.phone \in OnRecord(u)'
           \/ users[u].state = "absent",
           row.phone_verified => confirmed'[u] # {} /\ row.phone \in OnRecord(u)',
           Present(u) \/ users[u].state = "absent",
           \A v \in Workers : requests'[v] \in {requests[v], Idle}
    PROVE  PhonesOK'
<1>1. users'[u] = row /\ \A v \in Users : v # u => users'[v] = users[v]
  BY DEF Typed, TablesOK
<1>2. PhoneWasConfirmed'
  BY <1>1 DEF PhonesOK, PhoneWasConfirmed, Rows, Present, OnRecord
<1>3. ASSUME NEW v \in Workers, NEW r \in Request, r = requests'[v]
      PROVE  KnownPhone(r)'
  <2>1. KnownPhone(r)
    BY <1>3, IdleKnows DEF PhonesOK
  <2>2. CASE r.user = None
    BY <2>2 DEF KnownPhone
  <2>3. CASE r.user = u
    BY <1>1, <2>1, <2>3 DEF KnownPhone, Present, Request
  <2>4. CASE r.user \in Users \ {u}
    BY <1>1, <2>1, <2>4 DEF KnownPhone, OnRecord, Present
  <2> QED BY <2>2, <2>3, <2>4 DEF Request
<1> QED BY <1>2, <1>3 DEF PhonesOK

LEMMA PhonesStep == Typed /\ Typed' /\ PhonesOK /\ [Next]_vars => PhonesOK'
<1> SUFFICES ASSUME Typed, Typed', PhonesOK, [Next]_vars PROVE PhonesOK'
  OBVIOUS
<1>1. TablesOK /\ HistoryOK /\ RequestsOK
  BY DEF Typed
<1>2. CASE UNCHANGED vars
  BY <1>2 DEF vars, tables, history, PhonesOK, PhoneWasConfirmed, Rows, Present, KnownPhone,
              OnRecord
<1>3. CASE Next
  <2>1. PICK w \in Workers :
              \/ Begins(w) \/ Continues(w) \/ Edits(w) \/ Codes(w)
              \/ \E n \in Numbers : register(w, n)
              \/ \E u \in Users : delete_account(w, u)
              \/ FillCommit(w) \/ UnlinkCommit(w) \/ VerifyCommit(w) \/ Abort(w)
    BY <1>3, NextForms
  <2>2. CASE Begins(w)
    <3>1. PICK r \in Request : Begin(w, r) /\ RequestOK(r) /\ Loaded(r)
      BY <2>2, Begun
    <3>2. KnownPhone(r)
      BY <3>1, LoadedKnows DEF Request
    <3> QED BY <3>1, <3>2, PhonesKept DEF Begin
  <2>3. CASE Continues(w)
    <3>1. PICK r \in Request :
             /\ requests' = [requests EXCEPT ![w] = r]
             /\ Loaded(r) \/ (r.user = requests[w].user /\ r.seen = requests[w].seen)
      BY <2>3, Continued
    <3>2. PICK q \in Request : q = requests[w] /\ KnownPhone(q)
      BY <1>1 DEF PhonesOK, RequestsOK
    <3>3. KnownPhone(r)
      BY <3>1, <3>2, LoadedKnows DEF KnownPhone, Request
    <3> QED BY <2>3, <3>1, <3>3, Continued, PhonesKept
  <2>4. CASE Edits(w)
    <3>1. PICK u \in Users, row \in User : Edited(w, u, row)
      BY <2>4, EditsOneRow
    <3>2. PICK old \in User : old = users[u]
      BY <1>1 DEF TablesOK
    <3>3. OnRecord(u) \subseteq OnRecord(u)'
      BY <3>1 DEF Edited, OnRecord
    <3>4. row.phone_verified => old.phone_verified
      BY <3>1, <3>2 DEF Edited
    <3>5. u \in Rows
      BY <3>1 DEF Edited, Rows
    <3>6. old.phone_verified => confirmed[u] # {} /\ old.phone \in OnRecord(u)
      BY <3>2, <3>5 DEF PhonesOK, PhoneWasConfirmed, OnRecord
    <3>7. row.phone = old.phone \/ row.phone \in OnRecord(u)'
      BY <3>1, <3>2 DEF Edited, OnRecord
    <3>8. confirmed' = confirmed /\ requests' = requests
      BY <3>1 DEF Edited, AtOnce
    <3>9. /\ users' = [users EXCEPT ![u] = row] /\ row.state = "present" /\ Present(u)
          /\ \A v \in Users : v # u => entered'[v] = entered[v]
      BY <3>1 DEF Edited
    <3>10. row.phone_verified => confirmed'[u] # {} /\ row.phone \in OnRecord(u)'
      BY <3>3, <3>4, <3>6, <3>7, <3>8
    <3> QED BY <3>2, <3>3, <3>7, <3>8, <3>9, <3>10, PhonesWritten
  <2>5. CASE Codes(w)
    <3>1. AtOnce(w) /\ UNCHANGED <<users, history>>
      BY <2>5, CodesOnly
    <3> QED BY <3>1 DEF AtOnce, history, PhonesOK, PhoneWasConfirmed, Rows, Present,
                        KnownPhone, OnRecord
  <2>6. ASSUME NEW n \in Numbers, register(w, n) PROVE PhonesOK'
    <3>1. PICK row \in User : row = Registered(n) /\ row.state = "present"
      BY RegisteredRow
    <3>2. /\ AtOnce(w) /\ UNCHANGED entered
          /\ \E u \in Users : /\ users[u].state = "absent"
                              /\ users' = [users EXCEPT ![u] = row]
                              /\ confirmed' = [confirmed EXCEPT ![u] = {row.phone}]
      BY <2>6, <3>1, Registers
    <3>3. PICK u \in Users : /\ users[u].state = "absent"
                             /\ users' = [users EXCEPT ![u] = row]
                             /\ confirmed' = [confirmed EXCEPT ![u] = {row.phone}]
      BY <3>2
    <3>4. confirmed'[u] # {} /\ row.phone \in OnRecord(u)'
      BY <1>1, <3>3 DEF HistoryOK, OnRecord
    <3>5. \A v \in Users : v # u => confirmed'[v] = confirmed[v]
      BY <1>1, <3>3 DEF HistoryOK
    <3>6. ~Present(u)
      BY <3>3 DEF Present
    <3> QED BY <3>1, <3>2, <3>3, <3>4, <3>5, <3>6, PhonesWritten DEF AtOnce
  <2>7. ASSUME NEW u \in Users, delete_account(w, u) PROVE PhonesOK'
    <3>1. /\ AtOnce(w) /\ users' = [users EXCEPT ![u] = Gone] /\ UNCHANGED history
      BY <2>7 DEF delete_account
    <3>2. Gone.state = "deleted"
      BY DEF Gone, NoUser
    <3>3. users'[u] = Gone /\ \A v \in Users : v # u => users'[v] = users[v]
      BY <1>1, <3>1 DEF TablesOK
    <3>4. PhoneWasConfirmed'
      BY <3>1, <3>2, <3>3 DEF PhonesOK, PhoneWasConfirmed, Rows, Present, history
    <3>5. ASSUME NEW r \in Request, KnownPhone(r) PROVE KnownPhone(r)'
      BY <3>1, <3>2, <3>3, <3>5 DEF KnownPhone, OnRecord, Present, history, Request
    <3> QED BY <3>1, <3>4, <3>5 DEF PhonesOK, AtOnce
  <2>8. CASE FillCommit(w)
    <3>1. PICK r \in Request, u \in Users :
              /\ r = requests[w] /\ r.op = "fill" /\ RequestOK(r) /\ Finish(w)
              /\ UNCHANGED entered /\ Target(r, u) /\ Written(u, r).state = "present"
              /\ users' = [users EXCEPT ![u] = Written(u, r)]
              /\ confirmed' = [confirmed EXCEPT ![u] = @ \cup (IF r.number = None THEN {}
                                   ELSE {r.new.phone} \cap Variants(r.number))]
      BY <2>8, FillWrites
    <3>2. PICK row \in User :
             /\ row = Written(u, r) /\ row.state = "present"
             /\ \A c \in DOMAIN NoUser :
                   row[c] = IF r.new[c] # r.seen[c] THEN r.new[c] ELSE users[u][c]
      BY <1>1, <3>1, WrittenOK DEF TablesOK
    <3>3. PICK new \in User, seen \in User, old \in User :
             new = r.new /\ seen = r.seen /\ old = users[u]
      BY <1>1 DEF TablesOK, Request
    <3>4. /\ row.phone = IF new.phone # seen.phone THEN new.phone ELSE old.phone
          /\ row.phone_verified = IF new.phone_verified # seen.phone_verified
                                  THEN new.phone_verified ELSE old.phone_verified
      BY <3>2, <3>3 DEF NoUser
    <3>5. seen.phone = (IF r.user = None THEN Created ELSE seen).phone
      BY <3>1, <3>3 DEF RequestOK, Created, NoUser
    <3>6. seen.phone_verified = (IF r.user = None THEN Created ELSE seen).phone_verified
      BY <3>1, <3>3 DEF RequestOK, Created, NoUser
    <3> DEFINE byNumber == r.number # None /\ new.phone \in Variants(r.number)
    <3>7. new.phone = seen.phone \/ byNumber
      BY <3>1, <3>3, <3>5 DEF RequestOK, FilledFrom
    <3>8. new.phone_verified = seen.phone_verified \/ byNumber
      BY <3>1, <3>3, <3>6 DEF RequestOK, FilledFrom
    <3>9. /\ byNumber => new.phone \in confirmed'[u]
          /\ confirmed[u] \subseteq confirmed'[u]
          /\ \A v \in Users : v # u => confirmed'[v] = confirmed[v]
      BY <1>1, <3>1, <3>3 DEF HistoryOK
    <3> HIDE DEF byNumber
    <3>10. OnRecord(u) \subseteq OnRecord(u)'
      BY <3>1, <3>9 DEF OnRecord
    <3>13. /\ users' = [users EXCEPT ![u] = row]
           /\ \A v \in Users : v # u => confirmed'[v] = confirmed[v] /\ entered'[v] = entered[v]
           /\ \A v \in Workers : requests'[v] \in {requests[v], Idle}
      BY <1>1, <3>1, <3>2, <3>9 DEF Finish, RequestsOK
    <3>11. CASE r.user = None
      <4>1. old = NoUser /\ seen = NoUser /\ old.state = "absent"
        BY <1>1, <3>1, <3>3, <3>11 DEF Target, TablesOK, RequestOK
      <4>2. seen.phone = None /\ seen.phone_verified = FALSE /\ old.phone_verified = FALSE
            /\ old.phone = None
        BY <4>1 DEF NoUser
      <4>3. row.phone_verified => byNumber
        BY <3>4, <3>8, <4>2
      <4>4. row.phone = new.phone
        BY <3>4, <4>2
      <4>5. row.phone_verified => confirmed'[u] # {} /\ row.phone \in OnRecord(u)'
        BY <3>9, <4>3, <4>4 DEF OnRecord
      <4>6. users[u].state = "absent" /\ ~Present(u)
        BY <3>3, <4>1 DEF Present
      <4> QED BY <3>2, <3>13, <4>5, <4>6, PhonesWritten
    <3>12. CASE r.user # None
      <4>1. r.user = u /\ Present(u) /\ u \in Rows
        BY <3>1, <3>12 DEF Target, Rows
      <4>2. old.phone \in {seen.phone} \cup OnRecord(u)
        BY <3>1, <3>3, <3>12, <4>1 DEF PhonesOK, KnownPhone
      <4>3. old.phone_verified => confirmed[u] # {} /\ old.phone \in OnRecord(u)
        BY <3>3, <4>1 DEF PhonesOK, PhoneWasConfirmed, OnRecord
      <4>4. row.phone_verified => old.phone_verified \/ byNumber
        BY <3>4, <3>8
      <4>5. byNumber => confirmed'[u] # {} /\ row.phone \in OnRecord(u)'
        <5>1. byNumber => new.phone \in OnRecord(u)'
          BY <3>9 DEF OnRecord
        <5> QED BY <3>4, <3>9, <3>10, <4>2, <5>1
      <4>6. row.phone = old.phone \/ byNumber
        BY <3>4, <3>7
      <4>7. row.phone_verified => confirmed'[u] # {} /\ row.phone \in OnRecord(u)'
        BY <3>9, <3>10, <4>3, <4>4, <4>5, <4>6
      <4>8. row.phone = users[u].phone \/ row.phone \in OnRecord(u)'
        BY <3>3, <4>5, <4>6
      <4> QED BY <3>2, <3>10, <3>13, <4>1, <4>7, <4>8, PhonesWritten
    <3> QED BY <3>11, <3>12
  <2>9. CASE UnlinkCommit(w) \/ VerifyCommit(w)
    <3>1. PICK r \in Request :
              /\ r = requests[w] /\ r.op \in {"unlink", "verify"} /\ RequestOK(r)
              /\ Finish(w) /\ UNCHANGED entered /\ r.user \in Users /\ Present(r.user)
              /\ Written(r.user, r).state = "present"
              /\ users' = [users EXCEPT ![r.user] = Written(r.user, r)]
              /\ \/ r.op = "unlink" /\ UNCHANGED confirmed
                 \/ /\ r.op = "verify"
                    /\ confirmed' = [confirmed EXCEPT ![r.user] = @ \cup {r.new.phone}]
      BY <2>9, CommitWrites
    <3>2. PICK u \in Users : u = r.user /\ Present(u) /\ u \in Rows /\ u # None
      BY <3>1, ConstantsAssumption DEF Rows
    <3>3. PICK row \in User :
             /\ row = Written(u, r) /\ row.state = "present"
             /\ \A c \in DOMAIN NoUser :
                   row[c] = IF r.new[c] # r.seen[c] THEN r.new[c] ELSE users[u][c]
      BY <1>1, <3>1, <3>2, WrittenOK DEF TablesOK
    <3>4. PICK new \in User, seen \in User, old \in User :
             new = r.new /\ seen = r.seen /\ old = users[u]
      BY <1>1 DEF TablesOK, Request
    <3>5. /\ row.phone = IF new.phone # seen.phone THEN new.phone ELSE old.phone
          /\ row.phone_verified = IF new.phone_verified # seen.phone_verified
                                  THEN new.phone_verified ELSE old.phone_verified
      BY <3>3, <3>4 DEF NoUser
    <3>6. old.phone \in {seen.phone} \cup OnRecord(u)
      BY <3>1, <3>2, <3>4 DEF PhonesOK, KnownPhone
    <3>7. old.phone_verified => confirmed[u] # {} /\ old.phone \in OnRecord(u)
      BY <3>2, <3>4 DEF PhonesOK, PhoneWasConfirmed, OnRecord
    <3>8. /\ confirmed[u] \subseteq confirmed'[u]
          /\ \A v \in Users : v # u => confirmed'[v] = confirmed[v] /\ entered'[v] = entered[v]
      BY <1>1, <3>1, <3>2 DEF HistoryOK
    <3>9. OnRecord(u) \subseteq OnRecord(u)'
      BY <3>1, <3>8 DEF OnRecord
    <3>10. /\ users' = [users EXCEPT ![u] = row]
           /\ \A v \in Workers : requests'[v] \in {requests[v], Idle}
      BY <1>1, <3>1, <3>2, <3>3 DEF Finish, RequestsOK
    <3>11. CASE r.op = "unlink"
      <4>1. new = [seen EXCEPT ![IdColumn(r.identity)] = None]
        BY <3>1, <3>4, <3>11 DEF RequestOK
      <4>2. new.phone = seen.phone /\ new.phone_verified = seen.phone_verified
        BY <4>1 DEF IdColumn, User
      <4>3. row.phone = old.phone /\ row.phone_verified = old.phone_verified
        BY <3>5, <4>2
      <4>4. row.phone_verified => confirmed'[u] # {} /\ row.phone \in OnRecord(u)'
        BY <3>7, <3>8, <3>9, <4>3
      <4> QED BY <3>2, <3>3, <3>4, <3>8, <3>9, <3>10, <4>3, <4>4, PhonesWritten
    <3>12. CASE r.op = "verify"
      <4>1. new.phone \in confirmed'[u]
        BY <1>1, <3>1, <3>2, <3>4, <3>12 DEF HistoryOK
      <4>2. row.phone \in OnRecord(u)'
        BY <3>5, <3>6, <3>9, <4>1 DEF OnRecord
      <4>3. row.phone_verified => confirmed'[u] # {} /\ row.phone \in OnRecord(u)'
        BY <4>1, <4>2
      <4> QED BY <3>2, <3>3, <3>8, <3>9, <3>10, <4>2, <4>3, PhonesWritten
    <3> QED BY <3>1, <3>11, <3>12
  <2>10. CASE Abort(w)
    <3>1. UNCHANGED <<tables, history>> /\ Finish(w)
      BY <2>10 DEF Abort
    <3> QED BY <3>1, IdleOK, IdleKnows, PhonesKept DEF Finish
  <2> QED BY <2>1, <2>2, <2>3, <2>4, <2>5, <2>6, <2>7, <2>8, <2>9, <2>10
<1> QED BY <1>2, <1>3

\* A phone that is marked verified was confirmed by a code or by Telegram, or the profile
\* has replaced the one that was, even when the row is written from a copy loaded before
\* another request changed it (_link_and_fill, verify_phone_update).
THEOREM VerifiedPhones == Spec => []PhoneWasConfirmed
<1>1. PhonesOK => PhoneWasConfirmed
  BY DEF PhonesOK
<1> QED BY <1>1, InitPhones, PhonesStep, TypedAlways, PTL DEF Spec

-------------------------------------------------------------------------------
(* Without overlap.                                                        *)

SignIn(u) == \/ users[u].password
             \/ \E i \in Identities : accounts[i] = u \/ users[u][IdColumn(i)] = i

SignIns == \A u \in Rows : SignIn(u)

Serial ==
    ~overlapped =>
        /\ \A v, w \in Workers : requests[v].op # "idle" /\ requests[w].op # "idle" => v = w
        /\ \A w \in Workers : \A r \in Request : r = requests[w] /\ r.op # "idle" => Fresh(r)
        /\ LinksAgree
        /\ SignIns

LEMMA SerialShows == Serial => LinksMatchColumns /\ SignInLeft
  BY DEF Serial, LinksMatchColumns, SignInLeft, LinksAgree, SignIns, SignIn

LEMMA SameColumn ==
    ASSUME NEW i \in Identities, NEW j \in Identities
    PROVE  IdColumn(j) = IdColumn(i) <=> j \in SameProvider(i)
  BY ConstantsAssumption DEF IdColumn, SameProvider, Identities

LEMMA InitSerial == Init => Serial
<1> SUFFICES ASSUME Init PROVE Serial
  OBVIOUS
<1>1. /\ \A w \in Workers : requests[w].op = "idle"
      /\ \A i \in Identities : accounts[i] = None
  BY DEF Init, Idle
<1>2. CASE users = [u \in Users |-> NoUser]
  <2>1. Rows = {}
    BY <1>2 DEF Rows, Present, NoUser
  <2> QED BY <1>1, <2>1 DEF Serial, LinksAgree, SignIns
<1>3. ASSUME NEW v \in Users, NEW g \in Google,
             users = [x \in Users |-> IF x = v
                          THEN [NoUser EXCEPT !.state = "present", !.google_id = g]
                          ELSE NoUser]
      PROVE  Serial
  <2>1. Rows = {v}
    BY <1>3 DEF Rows, Present, NoUser
  <2>2. users[v].google_id = g
    BY <1>3 DEF NoUser
  <2>3. g \in Identities /\ IdColumn(g) = "google_id"
    BY DEF Identities, IdColumn
  <2>4. SignIns
    BY <2>1, <2>2, <2>3 DEF SignIns, SignIn
  <2>5. LinksAgree
    BY <1>1, <2>1, ConstantsAssumption DEF LinksAgree, Rows
  <2> QED BY <1>1, <2>4, <2>5 DEF Serial
<1> QED BY <1>2, <1>3 DEF Init

LEMMA ComeAlone ==
    ASSUME Typed, Serial, NEW w \in Workers, Come(w), ~overlapped'
    PROVE  /\ ~overlapped /\ LinksAgree /\ SignIns
           /\ \A v \in Workers : requests[v].op = "idle"
<1>1. ~overlapped /\ ~Busy
  BY Zenon DEF Come
<1> QED BY <1>1 DEF Serial, Busy

LEMMA ServeAlone ==
    ASSUME Typed, Serial, NEW w \in Workers, NEW r \in Request, r = requests[w],
           r.op # "idle", Serving(w, r.op), ~overlapped'
    PROVE  /\ ~overlapped /\ LinksAgree /\ SignIns /\ Fresh(r)
           /\ \A v \in Workers : v # w => requests[v].op = "idle"
<1>1. ~overlapped
  BY DEF Serving
<1> QED BY <1>1 DEF Serial

\* A request begins or goes on while no other is served.
LEMMA SerialKept ==
    ASSUME Typed, LinksAgree, SignIns, UNCHANGED <<tables, history>>,
           NEW w \in Workers, \A v \in Workers : v # w => requests[v].op = "idle",
           NEW q \in Request, q.op # "idle" => Fresh(q),
           requests' = [requests EXCEPT ![w] = q]
    PROVE  Serial'
<1>1. LinksAgree' /\ SignIns'
  BY DEF LinksAgree, SignIns, SignIn, tables, Rows, Present
<1>2. requests'[w] = q /\ \A v \in Workers : v # w => requests'[v].op = "idle"
  BY DEF Typed, RequestsOK
<1>3. q.op # "idle" => Fresh(q)'
  BY DEF Fresh, Loaded, LinkedToOther, Unlinked, OtherSignIn, tables, Present
<1> QED BY <1>1, <1>2, <1>3 DEF Serial

LEMMA SerialRests ==
    ASSUME LinksAgree', SignIns', \A v \in Workers : requests'[v].op = "idle"
    PROVE  Serial'
  BY DEF Serial

\* A row changes that keeps its identities and its password.
LEMMA EditKeepsLinks ==
    ASSUME TablesOK, LinksAgree, SignIns, NEW u \in Users, NEW row, Present(u),
           row.state = "present", users' = [users EXCEPT ![u] = row],
           \A column \in IdColumns : row[column] = users[u][column],
           users[u].password => row.password, UNCHANGED accounts
    PROVE  LinksAgree' /\ SignIns'
<1>1. users'[u] = row /\ \A v \in Users : v # u => users'[v] = users[v]
  BY DEF TablesOK
<1>2. Rows' = Rows
  BY <1>1 DEF Rows, Present
<1>3. \A v \in Users, i \in Identities : users'[v][IdColumn(i)] = users[v][IdColumn(i)]
  BY <1>1, TwoColumns
<1>4. LinksAgree'
  BY <1>2, <1>3 DEF LinksAgree, Rows
<1>5. \A v \in Users : users[v].password => users'[v].password
  BY <1>1
<1> QED BY <1>2, <1>3, <1>4, <1>5 DEF SignIns, SignIn, Rows

\* _link_and_fill and _create_social_user, on the row they loaded.
LEMMA FillKeepsLinks ==
    ASSUME Typed, LinksAgree, SignIns, NEW r \in Request, NEW u \in Users,
           r.op = "fill", RequestOK(r), Fresh(r), Target(r, u), Fits(u, Written(u, r)),
           r.insert => accounts[r.identity] = None,
           Written(u, r).state = "present",
           users' = [users EXCEPT ![u] = Written(u, r)],
           accounts' = IF r.insert THEN [accounts EXCEPT ![r.identity] = u] ELSE accounts
    PROVE  LinksAgree' /\ SignIns'
<1>1. TablesOK
  BY DEF Typed
<1>2. PICK i \in Identities : i = r.identity
  BY DEF RequestOK
<1>3. PICK row \in User :
         /\ row = Written(u, r) /\ row.state = "present"
         /\ \A c \in DOMAIN NoUser :
               row[c] = IF r.new[c] # r.seen[c] THEN r.new[c] ELSE users[u][c]
  BY <1>1, WrittenOK DEF TablesOK
<1>4. PICK new \in User, seen \in User, old \in User :
         new = r.new /\ seen = r.seen /\ old = users[u]
  BY <1>1 DEF TablesOK, Request
<1> DEFINE from == IF r.user = None THEN Created ELSE seen
<1>5. \A c \in IdColumns : from[c] = seen[c]
  BY <1>4 DEF RequestOK, Created, NoUser, IdColumns
<1>6. FilledFrom(from, r)
  BY <1>4 DEF RequestOK
<1> HIDE DEF from
<1>7. /\ new[IdColumn(i)] = IF seen[IdColumn(i)] = None THEN i ELSE seen[IdColumn(i)]
      /\ \A c \in IdColumns \ {IdColumn(i)} : new[c] = seen[c]
  BY <1>2, <1>4, <1>5, <1>6, TwoColumns DEF FilledFrom
<1>8. seen = old
  <2>1. CASE r.user = None
    BY <1>1, <1>4, <2>1 DEF Target, TablesOK, RequestOK
  <2>2. CASE r.user # None
    BY <1>4, <2>2 DEF Target, Fresh, Loaded
  <2> QED BY <2>1, <2>2
<1>9. IdColumns \subseteq DOMAIN NoUser
  BY DEF IdColumns, NoUser
<1>10. u \notin Rows => /\ \A j \in Identities : accounts[j] # u
                        /\ \A c \in IdColumns : old[c] = None
  <2>1. u \notin Rows => old = NoUser
    BY <1>1, <1>4 DEF Target, TablesOK, Rows, Present
  <2>2. u # None
    BY ConstantsAssumption
  <2> QED BY <1>1, <2>1, <2>2 DEF TablesOK, IdColumns, NoUser
<1>11. /\ old[IdColumn(i)] \in {None, i}
       /\ \A j \in SameProvider(i) \ {i} : accounts[j] # u
  <2>1. CASE r.user = None
    <3>1. u \notin Rows
      BY <2>1 DEF Target, Rows, Present
    <3> QED BY <1>10, <3>1, TwoColumns DEF SameProvider, Identities
  <2>2. CASE r.user # None
    <3>1. ~LinkedToOther(u, i)
      BY <1>2, <2>2 DEF Fresh, Target
    <3> QED BY <1>4, <3>1 DEF LinkedToOther
  <2> QED BY <2>1, <2>2
<1>12. row[IdColumn(i)] = i /\ \A c \in IdColumns \ {IdColumn(i)} : row[c] = old[c]
  BY <1>3, <1>4, <1>7, <1>8, <1>9, <1>11, TwoColumns
<1>13. accounts'[i] = u /\ \A j \in Identities : j # i => accounts'[j] = accounts[j]
  <2>1. CASE r.insert
    BY <1>1, <1>2, <2>1 DEF TablesOK
  <2>2. CASE ~r.insert
    <3>1. r.user = u
      BY <2>2 DEF RequestOK, Target
    <3>2. PICK j \in SameProvider(i) : accounts[j] = u
      BY <1>2, <2>2, <3>1, ConstantsAssumption DEF Fresh, Unlinked
    <3> QED BY <1>11, <2>2, <3>2
  <2> QED BY <2>1, <2>2
<1>14. accounts[i] \in {u, None}
  <2>1. CASE r.insert
    BY <1>2, <2>1
  <2>2. CASE ~r.insert
    BY <1>13, <2>2
  <2> QED BY <2>1, <2>2
<1>15. users'[u] = row /\ \A v \in Users : v # u => users'[v] = users[v]
  BY <1>1, <1>3 DEF TablesOK
<1>16. Rows' = Rows \cup {u}
  BY <1>3, <1>15 DEF Rows, Present
<1>17. IdColumn(i) \in {"email", "phone", "google_id", "telegram_id"}
  BY DEF IdColumn
<1>18. ASSUME NEW v \in Rows, v # u, NEW j \in Identities
       PROVE  /\ accounts'[j] = v => users'[v][IdColumn(j)] = j
              /\ users'[v][IdColumn(j)] = j => accounts'[j] \in {v, None}
  <2>1. CASE j # i
    BY <1>13, <1>15, <1>18, <2>1 DEF LinksAgree, Rows
  <2>2. CASE j = i
    <3>1. users[v][IdColumn(i)] # row[IdColumn(i)]
      BY <1>3, <1>12, <1>17, <1>18, ConstantsAssumption DEF Fits
    <3> QED BY <1>12, <1>13, <1>15, <1>18, <2>2, <3>1 DEF Rows
  <2> QED BY <2>1, <2>2
<1>19. ASSUME NEW j \in Identities
       PROVE  /\ accounts'[j] = u => users'[u][IdColumn(j)] = j
              /\ users'[u][IdColumn(j)] = j => accounts'[j] \in {u, None}
  <2>1. CASE j \in SameProvider(i)
    BY <1>11, <1>12, <1>13, <1>15, <2>1, SameColumn
  <2>2. CASE j \notin SameProvider(i)
    <3>1. IdColumn(j) \in IdColumns \ {IdColumn(i)} /\ j # i
      BY <2>2, SameColumn, TwoColumns DEF SameProvider, Identities
    <3>2. row[IdColumn(j)] = users[u][IdColumn(j)]
      BY <1>4, <1>12, <3>1
    <3>3. CASE u \in Rows
      BY <1>13, <1>15, <3>1, <3>2, <3>3 DEF LinksAgree
    <3>4. CASE u \notin Rows
      <4>1. accounts'[j] # u
        BY <1>10, <1>13, <3>1, <3>4
      <4>2. row[IdColumn(j)] = None
        BY <1>4, <1>10, <3>1, <3>2, <3>4
      <4> QED BY <1>15, <4>1, <4>2, ConstantsAssumption
    <3> QED BY <3>3, <3>4
  <2> QED BY <2>1, <2>2
<1>20. LinksAgree'
  BY <1>16, <1>18, <1>19 DEF LinksAgree
<1>21. SignIn(u)'
  BY <1>13 DEF SignIn
<1>22. ASSUME NEW v \in Rows, v # u PROVE SignIn(v)'
  <2>1. SignIn(v) /\ v \in Users /\ v # None
    BY ConstantsAssumption DEF SignIns, Rows
  <2>2. \A j \in Identities : accounts[j] = v => accounts'[j] = v
    BY <1>13, <1>14, <1>22, <2>1
  <2> QED BY <1>15, <1>22, <2>1, <2>2 DEF SignIn
<1> QED BY <1>16, <1>20, <1>21, <1>22 DEF SignIns

\* _unlink_provider, on the row it loaded.
LEMMA UnlinkKeepsLinks ==
    ASSUME Typed, LinksAgree, SignIns, NEW r \in Request, NEW u \in Users, u = r.user,
           r.op = "unlink", RequestOK(r), Fresh(r), Present(u),
           Written(u, r).state = "present",
           users' = [users EXCEPT ![u] = Written(u, r)],
           accounts' = [accounts EXCEPT ![r.identity] = IF @ = u THEN None ELSE @]
    PROVE  LinksAgree' /\ SignIns'
<1>1. TablesOK /\ u \in Rows /\ u # None
  BY ConstantsAssumption DEF Typed, Rows
<1>2. PICK i \in Identities : i = r.identity
  BY DEF RequestOK
<1>3. PICK row \in User :
         /\ row = Written(u, r) /\ row.state = "present"
         /\ \A c \in DOMAIN NoUser :
               row[c] = IF r.new[c] # r.seen[c] THEN r.new[c] ELSE users[u][c]
  BY <1>1, WrittenOK DEF TablesOK
<1>4. PICK old \in User : old = users[u] /\ old = r.seen
  BY <1>1 DEF TablesOK, Fresh, Loaded
<1>5. PICK new : new = r.new /\ new = [old EXCEPT ![IdColumn(i)] = None]
  BY <1>2, <1>4 DEF RequestOK
<1>6. /\ new[IdColumn(i)] = None /\ new.password = old.password
      /\ \A c \in IdColumns \ {IdColumn(i)} : new[c] = old[c]
  BY <1>5 DEF User, IdColumn, IdColumns
<1>7. IdColumns \subseteq DOMAIN NoUser /\ "password" \in DOMAIN NoUser
  BY DEF IdColumns, NoUser
<1>8. /\ row[IdColumn(i)] = None
      /\ \A c \in IdColumns \ {IdColumn(i)} : row[c] = old[c]
  BY <1>3, <1>4, <1>5, <1>6, <1>7, TwoColumns
<1>9. row.password = old.password
  BY <1>3, <1>4, <1>5, <1>6, <1>7
<1>10. /\ OtherSignIn(u, i) /\ accounts[i] = u
       /\ \A j \in SameProvider(i) \ {i} : accounts[j] # u
  BY <1>2 DEF Fresh
<1>11. accounts'[i] = None /\ \A j \in Identities : j # i => accounts'[j] = accounts[j]
  BY <1>1, <1>2, <1>10 DEF TablesOK
<1>12. users'[u] = row /\ \A v \in Users : v # u => users'[v] = users[v]
  BY <1>1, <1>3 DEF TablesOK
<1>13. Rows' = Rows
  BY <1>1, <1>3, <1>12 DEF Rows, Present
<1>14. ASSUME NEW v \in Rows, v # u, NEW j \in Identities
       PROVE  /\ accounts'[j] = v => users'[v][IdColumn(j)] = j
              /\ users'[v][IdColumn(j)] = j => accounts'[j] \in {v, None}
  <2>1. v \in Users /\ v # None
    BY ConstantsAssumption DEF Rows
  <2> QED BY <1>11, <1>12, <1>14, <2>1 DEF LinksAgree
<1>15. ASSUME NEW j \in Identities
       PROVE  /\ accounts'[j] = u => users'[u][IdColumn(j)] = j
              /\ users'[u][IdColumn(j)] = j => accounts'[j] \in {u, None}
  <2>1. CASE j \in SameProvider(i)
    <3>1. accounts'[j] # u
      BY <1>1, <1>10, <1>11, <2>1
    <3>2. row[IdColumn(j)] = None
      BY <1>8, <2>1, SameColumn
    <3> QED BY <1>12, <3>1, <3>2, ConstantsAssumption
  <2>2. CASE j \notin SameProvider(i)
    <3>1. IdColumn(j) \in IdColumns \ {IdColumn(i)} /\ j # i
      BY <2>2, SameColumn, TwoColumns DEF SameProvider, Identities
    <3>2. row[IdColumn(j)] = users[u][IdColumn(j)]
      BY <1>4, <1>8, <3>1
    <3> QED BY <1>1, <1>11, <1>12, <3>1, <3>2 DEF LinksAgree
  <2> QED BY <2>1, <2>2
<1>16. LinksAgree'
  BY <1>13, <1>14, <1>15 DEF LinksAgree
<1>17. SignIn(u)'
  <2>1. CASE old.password
    BY <1>9, <1>12, <2>1 DEF SignIn
  <2>2. CASE ~old.password
    <3>1. PICK j \in Identities \ SameProvider(i) : accounts[j] = u
      BY <1>4, <1>10, <2>2 DEF OtherSignIn
    <3>2. j # i
      BY <3>1 DEF SameProvider, Identities
    <3> QED BY <1>11, <3>1, <3>2 DEF SignIn
  <2> QED BY <2>1, <2>2
<1>18. ASSUME NEW v \in Rows, v # u PROVE SignIn(v)'
  <2>1. SignIn(v) /\ v \in Users
    BY DEF SignIns, Rows
  <2>2. \A j \in Identities : accounts[j] = v => accounts'[j] = v
    BY <1>10, <1>11, <1>18
  <2> QED BY <1>12, <1>18, <2>1, <2>2 DEF SignIn
<1> QED BY <1>13, <1>16, <1>17, <1>18 DEF SignIns

LEMMA SerialStep == Typed /\ Typed' /\ Serial /\ [Next]_vars => Serial'
<1> SUFFICES ASSUME Typed, Typed', Serial, [Next]_vars, ~overlapped' PROVE Serial'
  BY DEF Serial
<1>1. TablesOK /\ TablesOK' /\ RequestsOK
  BY DEF Typed
<1>2. CASE UNCHANGED vars
  <2>1. ~overlapped
    BY <1>2 DEF vars
  <2>2. LinksAgree' /\ SignIns'
    BY <1>2, <2>1 DEF Serial, LinksAgree, SignIns, SignIn, vars, tables, Rows, Present
  <2>3. \A r \in Request : Fresh(r) => Fresh(r)'
    BY <1>2 DEF Fresh, Loaded, LinkedToOther, Unlinked, OtherSignIn, vars, tables, Present
  <2> QED BY <1>2, <2>1, <2>2, <2>3 DEF Serial, vars
<1>3. CASE Next
  <2>1. PICK w \in Workers :
              \/ Begins(w) \/ Continues(w) \/ Edits(w) \/ Codes(w)
              \/ \E n \in Numbers : register(w, n)
              \/ \E u \in Users : delete_account(w, u)
              \/ FillCommit(w) \/ UnlinkCommit(w) \/ VerifyCommit(w) \/ Abort(w)
    BY <1>3, NextForms
  <2>2. CASE Begins(w)
    <3>1. PICK r \in Request : Begin(w, r) /\ RequestOK(r) /\ (LinksAgree => Fresh(r))
      BY <2>2, Begun
    <3>2. LinksAgree /\ SignIns /\ \A v \in Workers : requests[v].op = "idle"
      BY <3>1, ComeAlone DEF Begin
    <3> QED BY <3>1, <3>2, SerialKept DEF Begin
  <2>3. CASE Continues(w)
    <3>1. PICK q \in Request : q = requests[w]
      BY <1>1 DEF RequestsOK
    <3>2. LinksAgree /\ SignIns /\ Fresh(q) /\ \A v \in Workers : v # w => requests[v].op = "idle"
      BY <2>3, <3>1, Continued, ServeAlone
    <3>3. PICK r \in Request : requests' = [requests EXCEPT ![w] = r] /\ Fresh(r)
      BY <2>3, <3>1, <3>2, Continued
    <3> QED BY <2>3, <3>2, <3>3, Continued, SerialKept
  <2>4. CASE Edits(w)
    <3>1. PICK u \in Users, row \in User : Edited(w, u, row)
      BY <2>4, EditsOneRow
    <3>2. LinksAgree /\ SignIns /\ \A v \in Workers : requests'[v].op = "idle"
      BY <3>1, ComeAlone DEF Edited, AtOnce
    <3>3. LinksAgree' /\ SignIns'
      BY <1>1, <3>1, <3>2, EditKeepsLinks DEF Edited
    <3> QED BY <3>2, <3>3, SerialRests
  <2>5. CASE Codes(w)
    <3>1. LinksAgree /\ SignIns /\ \A v \in Workers : requests'[v].op = "idle"
      BY <2>5, CodesOnly, ComeAlone DEF AtOnce
    <3>2. LinksAgree' /\ SignIns'
      BY <2>5, <3>1, CodesOnly DEF LinksAgree, SignIns, SignIn, Rows, Present
    <3> QED BY <3>1, <3>2, SerialRests
  <2>6. ASSUME NEW n \in Numbers, register(w, n) PROVE Serial'
    <3>1. PICK row \in User : /\ row = Registered(n) /\ row.state = "present" /\ row.password
                              /\ \A column \in IdColumns : row[column] = None
      BY RegisteredRow
    <3>2. /\ AtOnce(w) /\ UNCHANGED accounts
          /\ \E u \in Users : users[u].state = "absent" /\ users' = [users EXCEPT ![u] = row]
      BY <2>6, <3>1, Registers
    <3>3. PICK u \in Users : users[u].state = "absent" /\ users' = [users EXCEPT ![u] = row]
      BY <3>2
    <3>4. LinksAgree /\ SignIns /\ \A v \in Workers : requests'[v].op = "idle"
      BY <3>2, ComeAlone DEF AtOnce
    <3>5. users'[u] = row /\ \A v \in Users : v # u => users'[v] = users[v]
      BY <1>1, <3>3 DEF TablesOK
    <3>6. Rows' = Rows \cup {u} /\ u \notin Rows
      BY <3>1, <3>3, <3>5 DEF Rows, Present
    <3>7. \A i \in Identities : accounts'[i] # u /\ row[IdColumn(i)] # i
      <4>1. u # None /\ \A i \in Identities : i # None
        BY ConstantsAssumption
      <4> QED BY <1>1, <3>1, <3>2, <3>6, <4>1, TwoColumns DEF TablesOK
    <3>8. LinksAgree'
      BY <3>2, <3>4, <3>5, <3>6, <3>7 DEF LinksAgree, Rows
    <3>9. SignIns'
      BY <3>1, <3>2, <3>4, <3>5, <3>6 DEF SignIns, SignIn, Rows
    <3> QED BY <3>4, <3>8, <3>9, SerialRests
  <2>7. ASSUME NEW u \in Users, delete_account(w, u) PROVE Serial'
    <3>1. /\ AtOnce(w) /\ users' = [users EXCEPT ![u] = Gone]
          /\ accounts' = [i \in Identities |-> IF accounts[i] = u THEN None ELSE accounts[i]]
      BY <2>7 DEF delete_account
    <3>2. Gone.state = "deleted"
      BY DEF Gone, NoUser
    <3>3. users'[u] = Gone /\ \A v \in Users : v # u => users'[v] = users[v]
      BY <1>1, <3>1 DEF TablesOK
    <3>4. Rows' = Rows \ {u}
      BY <3>2, <3>3 DEF Rows, Present
    <3>5. LinksAgree /\ SignIns /\ \A v \in Workers : requests'[v].op = "idle"
      BY <3>1, ComeAlone DEF AtOnce
    <3>6. \A v \in Rows \ {u} :
             /\ users'[v] = users[v]
             /\ \A i \in Identities :
                   /\ accounts'[i] = v <=> accounts[i] = v
                   /\ accounts[i] \in {v, None} => accounts'[i] \in {v, None}
      BY <3>1, <3>3, ConstantsAssumption DEF Rows
    <3>7. LinksAgree'
      BY <3>4, <3>5, <3>6 DEF LinksAgree
    <3>8. ASSUME NEW v \in Rows \ {u} PROVE SignIn(v)'
      <4>1. SignIn(v)
        BY <3>5 DEF SignIns
      <4>2. users'[v] = users[v] /\ \A i \in Identities : accounts[i] = v => accounts'[i] = v
        BY <3>6
      <4> QED BY <4>1, <4>2 DEF SignIn
    <3> QED BY <3>4, <3>5, <3>7, <3>8, SerialRests DEF SignIns
  <2>8. CASE FillCommit(w)
    <3>1. PICK r \in Request, u \in Users :
              /\ r = requests[w] /\ r.op = "fill" /\ RequestOK(r)
              /\ Serving(w, "fill") /\ Finish(w)
              /\ Target(r, u) /\ Fits(u, Written(u, r))
              /\ r.insert => accounts[r.identity] = None
              /\ Written(u, r).state = "present"
              /\ users' = [users EXCEPT ![u] = Written(u, r)]
              /\ accounts' = IF r.insert THEN [accounts EXCEPT ![r.identity] = u]
                             ELSE accounts
      BY <2>8, FillWrites
    <3>2. LinksAgree /\ SignIns /\ Fresh(r) /\ \A v \in Workers : v # w => requests[v].op = "idle"
      BY <3>1, ServeAlone
    <3>3. LinksAgree' /\ SignIns'
      BY <3>1, <3>2, FillKeepsLinks
    <3>4. \A v \in Workers : requests'[v].op = "idle"
      BY <1>1, <3>1, <3>2 DEF RequestsOK, Finish, Idle
    <3> QED BY <3>3, <3>4, SerialRests
  <2>9. CASE UnlinkCommit(w) \/ VerifyCommit(w)
    <3>1. PICK r \in Request :
              /\ r = requests[w] /\ r.op \in {"unlink", "verify"} /\ RequestOK(r)
              /\ Serving(w, r.op) /\ Finish(w) /\ r.user \in Users /\ Present(r.user)
              /\ Written(r.user, r).state = "present"
              /\ users' = [users EXCEPT ![r.user] = Written(r.user, r)]
              /\ \/ /\ r.op = "unlink"
                    /\ accounts' = [accounts EXCEPT ![r.identity] =
                                       IF @ = r.user THEN None ELSE @]
                 \/ r.op = "verify" /\ UNCHANGED accounts
      BY <2>9, CommitWrites
    <3>2. LinksAgree /\ SignIns /\ Fresh(r) /\ \A v \in Workers : v # w => requests[v].op = "idle"
      BY <3>1, ServeAlone
    <3>3. \A v \in Workers : requests'[v].op = "idle"
      BY <1>1, <3>1, <3>2 DEF RequestsOK, Finish, Idle
    <3>4. PICK u \in Users : u = r.user
      BY <3>1
    <3>5. CASE r.op = "unlink"
      <4>1. LinksAgree' /\ SignIns'
        BY <3>1, <3>2, <3>4, <3>5, UnlinkKeepsLinks
      <4> QED BY <3>3, <4>1, SerialRests
    <3>6. CASE r.op = "verify"
      <4>1. PICK row \in User :
               /\ row = Written(u, r) /\ row.state = "present"
               /\ \A c \in DOMAIN NoUser :
                     row[c] = IF r.new[c] # r.seen[c] THEN r.new[c] ELSE users[u][c]
        BY <1>1, <3>1, <3>4, WrittenOK DEF TablesOK
      <4>2. PICK new \in User, seen \in User : new = r.new /\ seen = r.seen
        BY DEF Request
      <4>3. new = [seen EXCEPT !.phone = new.phone, !.phone_verified = TRUE]
        BY <3>1, <3>6, <4>2 DEF RequestOK
      <4>4. /\ new.password = seen.password /\ new.google_id = seen.google_id
            /\ new.telegram_id = seen.telegram_id
        BY <4>3 DEF User
      <4>5. \A column \in IdColumns : row[column] = users[u][column]
        BY <4>1, <4>2, <4>4 DEF IdColumns, NoUser
      <4>6. row.password = users[u].password
        BY <4>1, <4>2, <4>4 DEF NoUser
      <4>7. users[u].password => row.password
        BY <4>6
      <4>8. /\ users' = [users EXCEPT ![u] = row] /\ Present(u) /\ row.state = "present"
            /\ UNCHANGED accounts
        BY <3>1, <3>4, <3>6, <4>1
      <4>9. LinksAgree' /\ SignIns'
        BY <1>1, <3>2, <4>5, <4>7, <4>8, EditKeepsLinks
      <4> QED BY <3>3, <4>9, SerialRests
    <3> QED BY <3>1, <3>5, <3>6
  <2>10. CASE Abort(w)
    <3>1. PICK r \in Request : r = requests[w]
      BY <1>1 DEF RequestsOK
    <3>2. /\ UNCHANGED <<tables, history>> /\ Finish(w) /\ r.op # "idle" /\ Serving(w, r.op)
      BY <2>10, <3>1 DEF Abort
    <3>3. LinksAgree /\ SignIns /\ \A v \in Workers : v # w => requests[v].op = "idle"
      BY <3>1, <3>2, ServeAlone
    <3> QED BY <3>2, <3>3, IdleOK, IdleKnows, SerialKept DEF Finish
  <2> QED BY <2>1, <2>2, <2>3, <2>4, <2>5, <2>6, <2>7, <2>8, <2>9, <2>10
<1> QED BY <1>2, <1>3

LEMMA SerialAlways == Spec => []Serial
  BY InitSerial, SerialStep, TypedAlways, PTL DEF Spec

\* Unless requests overlapped, social_accounts and the columns of users that came before it
\* tell the same story: whichever of the two a sign-in asks, it finds the same account.
THEOREM LinksInStep == Spec => []LinksMatchColumns
  BY SerialAlways, SerialShows, PTL

\* Unless requests overlapped, no account is left without a way in: the check that unlink
\* makes before its commit is still true at the commit.
THEOREM NeverLockedOut == Spec => []SignInLeft
  BY SerialAlways, SerialShows, PTL

\* Together: what is linked leads to the account it shows, and something does (sign-in,
\* link and unlink of AuthService), unless requests overlapped.
THEOREM SignInsSafe == Spec => []SignInsAreKept
  BY LinksInStep, NeverLockedOut, PTL DEF SignInsAreKept

==============================================================================
