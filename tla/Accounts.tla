------------------------------- MODULE Accounts -------------------------------
(***************************************************************************)
(* Who an account belongs to: social sign-in, linking and unlinking        *)
(* (auth/service.py), the e-mail and phone of the profile                  *)
(* (users/service.py) and what an administrator does to an account         *)
(* (admin/service.py).  Sessions, passwords and the attempts of one-time   *)
(* codes are in module Auth; here a code is sent, confirmed or lost.       *)
(*                                                                         *)
(* A sign-in finds the account, looks up what is still free to fill in,    *)
(* and commits; a unique index that refuses makes it start over, once.  A  *)
(* session writes the columns that differ from what it loaded.             *)
(***************************************************************************)
EXTENDS Integers, FiniteSets

CONSTANTS Users,               \* rows of the table users
          Google, Telegram,    \* identities at the two providers
          Emails, Numbers,     \* addresses and telephone numbers
          Workers,
          MaxServed,           \* bound on the requests
          None

VARIABLES users,          \* table users
          accounts,       \* table social_accounts: the user each identity is linked to
          codes,          \* table phone_verifications: the phones with an unused code
          confirmed,      \* history: the phones a code or Telegram confirmed
          entered,        \* history: the phones typed into the profile
          requests,       \* the request each worker is serving
          served,         \* how many requests have started
          overlapped      \* history: some request has started beside another

tables == <<users, accounts, codes>>

history == <<confirmed, entered>>

vars == <<tables, history, requests, served, overlapped>>

Identities == Google \cup Telegram

ASSUME ConstantsAssumption ==
    /\ Google \cap Telegram = {} /\ MaxServed \in Nat
    /\ IsFiniteSet(Identities) /\ IsFiniteSet(Users) /\ IsFiniteSet(Workers)
    /\ None \notin Users \cup Identities \cup Emails \cup Numbers

\* The column takes a number with or without its plus sign.
Phones == Numbers \X {"bare", "plus"}

\* access: is_active with status "active"; not so; or deleted_at is set.
User == [state : {"absent", "present", "deleted"},
         access : {"open", "barred", "removed"},
         password : BOOLEAN, email : Emails \cup {None},
         phone : Phones \cup {None}, phone_verified : BOOLEAN,
         google_id : Google \cup {None}, telegram_id : Telegram \cup {None}]

NoUser == [state |-> "absent", access |-> "open", password |-> FALSE, email |-> None,
           phone |-> None, phone_verified |-> FALSE, google_id |-> None,
           telegram_id |-> None]

Gone == [NoUser EXCEPT !.state = "deleted"]

\* What a request keeps between its steps.
Request == [op : {"idle", "found", "new", "fill", "unlink", "verify"},
            user : Users \cup {None}, identity : Identities \cup {None},
            email : Emails \cup {None},      \* what the provider has verified
            number : Numbers \cup {None},
            seen : User, new : User,         \* the row as loaded and as it is to be
            insert : BOOLEAN,                \* a row of social_accounts is to be added
            retry : BOOLEAN]                 \* one more try after a refused commit

Idle == [op |-> "idle", user |-> None, identity |-> None, email |-> None, number |-> None,
         seen |-> NoUser, new |-> NoUser, insert |-> FALSE, retry |-> FALSE]

\* No account yet, or one older than the table social_accounts.
Init == /\ \/ users = [u \in Users |-> NoUser]
           \/ \E u \in Users, g \in Google :
                 users = [v \in Users |-> IF v = u
                              THEN [NoUser EXCEPT !.state = "present", !.google_id = g]
                              ELSE NoUser]
        /\ accounts = [i \in Identities |-> None]
        /\ codes = [u \in Users |-> {}]
        /\ confirmed = [u \in Users |-> {}] /\ entered = [u \in Users |-> {}]
        /\ requests = [w \in Workers |-> Idle]
        /\ served = 0 /\ overlapped = FALSE

-------------------------------------------------------------------------------
(* Queries.                                                                *)

Present(u) == users[u].state = "present"

Rows == {u \in Users : Present(u)}

\* _provider_columns
IdColumn(i) == IF i \in Google THEN "google_id" ELSE "telegram_id"

SameProvider(i) == IF i \in Google THEN Google ELSE Telegram

\* phone_variants
Variants(n) == {<<n, "bare">>, <<n, "plus">>}

\* _email_taken and _phone_taken, with the user to exclude
EmailTaken(e, u) == \E v \in Rows \ {u} : users[v].email = e

PhoneTaken(n, u) == \E v \in Rows \ {u} : users[v].phone \in Variants(n)

\* Variant: another identity of the provider is no obstacle.
LinkedNowhereElse(u, i) == FALSE

\* _linked_to_other_identity
LinkedToOther(u, i) ==
    \/ users[u][IdColumn(i)] \notin {None, i}
    \/ \E j \in SameProvider(i) \ {i} : accounts[j] = u

\* Variant: the index on the phone is missing.
FitsButPhone(u, row) ==
    \A v \in Rows \ {u} : \A column \in {"email", "google_id", "telegram_id"} :
        row[column] = None \/ users[v][column] # row[column]

\* The unique indexes of the table users.
Fits(u, row) ==
    \A v \in Rows \ {u} : \A column \in {"email", "phone", "google_id", "telegram_id"} :
        row[column] = None \/ users[v][column] # row[column]

\* The columns of the row that the session changed.
Written(u, r) ==
    [column \in DOMAIN r.new |-> IF r.new[column] # r.seen[column] THEN r.new[column]
                                 ELSE users[u][column]]

-------------------------------------------------------------------------------
(* Requests.                                                               *)

Busy == \E w \in Workers : requests[w].op # "idle"

Come(w) == /\ requests[w].op = "idle" /\ served < MaxServed
           /\ served' = served + 1
           /\ overlapped' = (overlapped \/ Busy)

\* The first step of a handler that writes later.
Begin(w, r) == /\ Come(w) /\ requests' = [requests EXCEPT ![w] = r]
               /\ UNCHANGED <<tables, history>>

\* A handler in one step.
AtOnce(w) == Come(w) /\ UNCHANGED requests

Serving(w, op) == requests[w].op = op /\ UNCHANGED <<served, overlapped>>

Finish(w) == requests' = [requests EXCEPT ![w] = Idle]

\* An error, a constraint of the database or a restart: nothing is committed.
Abort(w) == /\ requests[w].op # "idle" /\ Serving(w, requests[w].op) /\ Finish(w)
            /\ UNCHANGED <<tables, history>>

-------------------------------------------------------------------------------
(* Social sign-in.                                                         *)

\* _find_social_user, in this order: the linked account, the column of rows older than the
\* table, a verified e-mail, a verified phone.
Found(i, e, n) ==
    LET linked == {accounts[i]} \ {None}
        column == {u \in Rows : users[u][IdColumn(i)] = i}
        email == {u \in Rows : e # None /\ users[u].email = e /\ ~LinkedToOther(u, i)}
        phone == {u \in Rows : /\ n # None /\ users[u].phone \in Variants(n)
                               /\ users[u].phone_verified /\ ~LinkedToOther(u, i)}
    IN IF linked # {} THEN linked ELSE IF column # {} THEN column
       ELSE IF email # {} THEN email ELSE phone

\* _ensure_can_login
CanLogin(u) == users[u].access = "open"

\* What a sign-in finds: an account that may be used, or none.
Resolved(i, e, n, retry) ==
    LET r == [Idle EXCEPT !.identity = i, !.email = e, !.number = n, !.retry = retry]
    IN IF Found(i, e, n) = {} THEN {[r EXCEPT !.op = "new"]}
       ELSE {[r EXCEPT !.op = "found", !.user = u, !.seen = users[u]] :
                u \in {u \in Found(i, e, n) : CanLogin(u)}}

\* Google tells an e-mail, Telegram a telephone number.
GoogleProfile(i, n) == i \in Google /\ n = None

TelegramProfile(i, e) == i \in Telegram /\ e = None

\* A profile whose token was verified.
Profiled(i, e, n) == GoogleProfile(i, n) \/ TelegramProfile(i, e)

social_login(w, i, e, n) ==
    Profiled(i, e, n) /\ \E r \in Resolved(i, e, n, TRUE) : Begin(w, r)

\* _link_social: a signed-in user adds an identity; there is no second try.
link(w, u, i, e, n) ==
    /\ Profiled(i, e, n) /\ Present(u) /\ accounts[i] \in {None, u}
    /\ accounts[i] = None => /\ \A v \in Rows \ {u} : users[v][IdColumn(i)] # i
                             /\ ~LinkedToOther(u, i)
    /\ Begin(w, [Idle EXCEPT !.op = "found", !.identity = i, !.email = e, !.number = n,
                             !.user = u, !.seen = users[u]])

\* Variant: a number from Telegram verifies whatever phone the account has.
FilledLoosely(row, u, r) ==
    [row EXCEPT !.email = IF @ = None /\ r.email # None /\ ~EmailTaken(r.email, u)
                          THEN r.email ELSE @,
                !.phone_verified = @ \/ r.number # None,
                ![IdColumn(r.identity)] = IF @ = None THEN r.identity ELSE @]

\* The e-mail and the phone of an account that has none, if they are not taken.
Filled(row, u, r) ==
    LET phone == IF row.phone = None /\ r.number # None /\ ~PhoneTaken(r.number, u)
                 THEN <<r.number, "bare">> ELSE row.phone
    IN [row EXCEPT !.email = IF @ = None /\ r.email # None /\ ~EmailTaken(r.email, u)
                             THEN r.email ELSE @,
                   !.phone = phone,
                   !.phone_verified = @ \/ (r.number # None /\ phone \in Variants(r.number)),
                   ![IdColumn(r.identity)] = IF @ = None THEN r.identity ELSE @]

\* _link_and_fill
Fill(w) ==
    LET r == requests[w] IN
    /\ Serving(w, "found")
    /\ requests' = [requests EXCEPT ![w] =
           [r EXCEPT !.op = "fill", !.new = Filled(r.seen, r.user, r),
                     !.insert = \A j \in SameProvider(r.identity) : accounts[j] # r.user]]
    /\ UNCHANGED <<tables, history>>

\* _create_social_user
FillNew(w) ==
    LET r == requests[w] IN
    /\ Serving(w, "new")
    /\ requests' = [requests EXCEPT ![w] =
           [r EXCEPT !.op = "fill", !.insert = TRUE,
                     !.new = Filled([NoUser EXCEPT !.state = "present"], None, r)]]
    /\ UNCHANGED <<tables, history>>

\* The row to write: the one that was found, or a new one.
Target(r, u) == IF r.user = None THEN users[u].state = "absent" ELSE u = r.user /\ Present(u)

Writable(r, u) == /\ Target(r, u) /\ Fits(u, Written(u, r))
                  /\ r.insert => accounts[r.identity] = None

FillCommit(w) ==
    LET r == requests[w] IN
    /\ Serving(w, "fill") /\ Finish(w)
    /\ \E u \in Users :
          /\ Writable(r, u)
          /\ users' = [users EXCEPT ![u] = Written(u, r)]
          /\ accounts' = IF r.insert THEN [accounts EXCEPT ![r.identity] = u] ELSE accounts
          /\ confirmed' = [confirmed EXCEPT ![u] = @ \cup (IF r.number = None THEN {}
                               ELSE {r.new.phone} \cap Variants(r.number))]
    /\ UNCHANGED <<codes, entered>>

\* IntegrityError: rolled back and resolved again.
Retry(w) ==
    LET r == requests[w] IN
    /\ Serving(w, "fill") /\ r.retry /\ \A u \in Users : ~Writable(r, u)
    /\ \E again \in Resolved(r.identity, r.email, r.number, FALSE) :
          requests' = [requests EXCEPT ![w] = again]
    /\ UNCHANGED <<tables, history>>

\* A password, or an account at the other provider.
OtherSignIn(u, i) == users[u].password \/ \E j \in Identities \ SameProvider(i) : accounts[j] = u

\* unlink_google, unlink_telegram.  Two accounts at one provider are an error (no step).
unlink(w, u, i) ==
    /\ Present(u) /\ accounts[i] = u /\ \A j \in SameProvider(i) \ {i} : accounts[j] # u
    /\ OtherSignIn(u, i)
    /\ Begin(w, [Idle EXCEPT !.op = "unlink", !.user = u, !.identity = i, !.seen = users[u],
                             !.new = [users[u] EXCEPT ![IdColumn(i)] = None]])

UnlinkCommit(w) ==
    LET r == requests[w] IN
    /\ Serving(w, "unlink") /\ Finish(w) /\ Present(r.user)
    /\ users' = [users EXCEPT ![r.user] = Written(r.user, r)]
    /\ accounts' = [accounts EXCEPT ![r.identity] = IF @ = r.user THEN None ELSE @]
    /\ UNCHANGED <<codes, history>>

-------------------------------------------------------------------------------
(* The account itself.                                                     *)

\* register_verify (in detail in module Auth)
register(w, n) ==
    /\ AtOnce(w)
    /\ \E u \in Users :
          LET row == [NoUser EXCEPT !.state = "present", !.password = TRUE,
                                    !.phone = <<n, "bare">>, !.phone_verified = TRUE]
          IN /\ users[u].state = "absent" /\ Fits(u, row)
             /\ users' = [users EXCEPT ![u] = row]
             /\ confirmed' = [confirmed EXCEPT ![u] = {row.phone}]
    /\ UNCHANGED <<accounts, codes, entered>>

set_password(w, u) == /\ AtOnce(w) /\ Present(u) /\ ~users[u].password
                      /\ users' = [users EXCEPT ![u].password = TRUE]
                      /\ UNCHANGED <<accounts, codes, history>>

\* update_profile: neither is confirmed, and phone_verified stays what it was.
UpdateProfile(w, u, row) == /\ AtOnce(w) /\ Present(u) /\ Fits(u, row)
                            /\ users' = [users EXCEPT ![u] = row]
                            /\ UNCHANGED <<accounts, codes, confirmed>>

update_email(w, u, e) == /\ UpdateProfile(w, u, [users[u] EXCEPT !.email = e])
                         /\ UNCHANGED entered

update_phone(w, u, p) == /\ UpdateProfile(w, u, [users[u] EXCEPT !.phone = p])
                         /\ entered' = [entered EXCEPT ![u] = @ \cup {p}]

\* The links and the codes go with the row.
delete_account(w, u) ==
    /\ AtOnce(w) /\ Present(u)
    /\ users' = [users EXCEPT ![u] = Gone]
    /\ accounts' = [i \in Identities |-> IF accounts[i] = u THEN None ELSE accounts[i]]
    /\ codes' = [codes EXCEPT ![u] = {}]
    /\ UNCHANGED history

\* The unused codes of the user are void, and one is sent to the phone.
request_phone_update(w, u, p) ==
    /\ AtOnce(w) /\ Present(u) /\ \A v \in Rows \ {u} : users[v].phone # p
    /\ codes' = [codes EXCEPT ![u] = {p}]
    /\ UNCHANGED <<users, accounts, history>>

\* The right code; it expires, and too many wrong ones void it.
verify_phone_update(w, u, p) ==
    /\ Present(u) /\ p \in codes[u]
    /\ Begin(w, [Idle EXCEPT !.op = "verify", !.user = u, !.seen = users[u],
                             !.new = [users[u] EXCEPT !.phone = p, !.phone_verified = TRUE]])

VerifyCommit(w) ==
    LET r == requests[w]
        p == r.new.phone
    IN /\ Serving(w, "verify") /\ Finish(w)
       /\ Present(r.user) /\ Fits(r.user, Written(r.user, r))
       /\ users' = [users EXCEPT ![r.user] = Written(r.user, r)]
       /\ codes' = [codes EXCEPT ![r.user] = @ \ {p}]
       /\ confirmed' = [confirmed EXCEPT ![r.user] = @ \cup {p}]
       /\ UNCHANGED <<accounts, entered>>

code_lost(w, u) == /\ AtOnce(w) /\ codes[u] # {} /\ codes' = [codes EXCEPT ![u] = {}]
                   /\ UNCHANGED <<users, accounts, history>>

\* AdminService.update_user_status; a deleted account stays deleted.
update_user_status(w, u) ==
    /\ AtOnce(w) /\ Present(u) /\ users[u].access # "removed"
    /\ users' = [users EXCEPT ![u].access = IF @ = "open" THEN "barred" ELSE "open"]
    /\ UNCHANGED <<accounts, codes, history>>

\* AdminService.delete_user keeps the row, with all that is unique in it.
delete_user(w, u) == /\ AtOnce(w) /\ Present(u)
                     /\ users' = [users EXCEPT ![u].access = "removed"]
                     /\ UNCHANGED <<accounts, codes, history>>

-------------------------------------------------------------------------------
\* auth/router.py
SignInRequest(w) ==
    \/ \E n \in Numbers : register(w, n)
    \/ \E i \in Identities, e \in Emails \cup {None}, n \in Numbers \cup {None} :
          social_login(w, i, e, n)

LinkRequest(w) ==
    \E u \in Users, i \in Identities :
        \/ unlink(w, u, i)
        \/ \E e \in Emails \cup {None}, n \in Numbers \cup {None} : link(w, u, i, e, n)

\* users/router.py
UserRequest(w) ==
    \E u \in Users : \/ delete_account(w, u) \/ code_lost(w, u) \/ set_password(w, u)
                     \/ \E e \in Emails : update_email(w, u, e)
                     \/ \E p \in Phones : \/ update_phone(w, u, p)
                                          \/ request_phone_update(w, u, p)
                                          \/ verify_phone_update(w, u, p)

\* admin/router.py
AdminRequest(w) == \E u \in Users : update_user_status(w, u) \/ delete_user(w, u)

Commit(w) == \/ Fill(w) \/ FillNew(w) \/ FillCommit(w) \/ Retry(w)
             \/ UnlinkCommit(w) \/ VerifyCommit(w)

Next == \E w \in Workers :
            \/ SignInRequest(w) \/ LinkRequest(w) \/ UserRequest(w) \/ AdminRequest(w)
            \/ Commit(w) \/ Abort(w)

Spec == Init /\ [][Next]_vars

-------------------------------------------------------------------------------
(* Properties.                                                             *)

\* Rows are well formed, what is unique is unique, and an identity is linked to a user that
\* exists (auth/models.py: unique columns, ON DELETE CASCADE).
TypeOK ==
    /\ users \in [Users -> User]
    /\ accounts \in [Identities -> Rows \cup {None}]
    /\ codes \in [Users -> SUBSET Phones]
    /\ confirmed \in [Users -> SUBSET Phones] /\ entered \in [Users -> SUBSET Phones]
    /\ requests \in [Workers -> Request]
    /\ served \in 0..MaxServed /\ overlapped \in BOOLEAN
    /\ \A u, v \in Rows : \A column \in {"email", "phone", "google_id", "telegram_id"} :
          users[u][column] = users[v][column] /\ users[u][column] # None => u = v

\* Links and columns agree (AuthService._link_and_fill, _unlink_provider): unless requests
\* overlapped, an identity that is linked is in the column of its user, who so has one at
\* each provider, and an identity in a column is linked, or the row is older than links.
LinksMatchColumns ==
    ~overlapped => \A u \in Rows, i \in Identities :
        /\ accounts[i] = u => users[u][IdColumn(i)] = i
        /\ users[u][IdColumn(i)] = i => accounts[i] \in {u, None}

\* "Set a password before unlinking your only sign-in" (auth/service.py:1114): unless
\* requests overlapped, whoever has an account can get back into it.
SignInLeft ==
    ~overlapped => \A u \in Rows :
        \/ users[u].password
        \/ \E i \in Identities : accounts[i] = u \/ users[u][IdColumn(i)] = i

\* An account and its sign-ins (_link_and_fill, _unlink_provider): what is linked leads to the
\* account it shows, and something does.
SignInsAreKept == LinksMatchColumns /\ SignInLeft

\* A phone is marked verified only after a code or Telegram confirmed it, or one the
\* profile has replaced since (UserService.verify_phone_update, update_profile).
PhoneWasConfirmed ==
    \A u \in Rows : users[u].phone_verified =>
        /\ confirmed[u] # {}
        /\ users[u].phone \in confirmed[u] \cup entered[u]

===============================================================================
