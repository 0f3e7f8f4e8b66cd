--------------------------------- MODULE Auth ---------------------------------
(***************************************************************************)
(* Accounts, one-time codes and refresh sessions: AuthService              *)
(* (auth/service.py) and the devices of UserService (users/service.py).    *)
(*                                                                         *)
(* An account is known by its phone.  A registration ticket and a reset    *)
(* code are one-time codes of two kinds: sent by SMS after a cool-down,    *)
(* and verified by the same checks in the same order.  A session carries   *)
(* one refresh token, which a refresh exchanges for a new session.         *)
(***************************************************************************)
EXTENDS Integers, Sequences, FiniteSets

CONSTANTS Users,          \* the accounts, each with its phone
          Passwords, Workers,
          MAX_ATTEMPTS,   \* wrong codes allowed per one-time code
          MaxCodes, MaxSessions, MaxResets,   \* bounds on rows and resets
          None

VARIABLES accounts,       \* table users
          codes,          \* tables phone_registration_tickets and phone_verifications
          sessions,       \* table sessions, oldest first
          requests,       \* the request each worker is serving
          resets,         \* history: how often the password of a user was reset
          latest,         \* history: the password a user set last
          overlapped      \* history: some request has started beside another

tables == <<accounts, codes, sessions>>

history == <<resets, latest>>

vars == <<accounts, codes, sessions, requests, resets, latest, overlapped>>

ASSUME ConstantsAssumption ==
    /\ MAX_ATTEMPTS \in Nat /\ MaxCodes \in Nat /\ MaxSessions \in Nat /\ MaxResets \in Nat
    /\ None \notin Users /\ None \notin Passwords

Account == [password : Passwords \cup {None},    \* None: there is no such row
            legacy : BOOLEAN]                    \* password_hash needs a rehash

Kinds == {"ticket", "reset"}

\* sent, guesses and redeemed are history: whose SMS was delivered, how often a
\* wrong code was answered and how often the right one was accepted.
Code == [kind : Kinds, user : Users, is_used : BOOLEAN, attempts : Nat,
         age : {"new", "old", "expired"},    \* within RESEND_COOLDOWN, OTP_TTL, later
         password : Passwords \cup {None},   \* PhoneRegistrationTicket.password_hash
         guesses : Nat, redeemed : Nat]

\* parent: the session this one was refreshed from; era: the resets before its login.
\* An expired session is one that is refreshed no more: expiry needs no state.
Session == [user : Users, is_revoked : BOOLEAN, parent : Nat, era : Nat]

Request == [op : {"idle", "send", "sms", "void", "wrong", "redeem", "login", "refresh",
                  "change"},
            user : Users \cup {None}, kind : Kinds,
            code : Nat, attempts : Nat,         \* the one-time code, as it was loaded
            session : Nat, era : Nat,
            password : Passwords \cup {None}, rehash : BOOLEAN]

NoAccount == [password |-> None, legacy |-> FALSE]

Idle == [op |-> "idle", user |-> None, kind |-> "ticket", code |-> 0, attempts |-> 0,
         session |-> 0, era |-> 0, password |-> None, rehash |-> FALSE]

\* Some accounts are older than the program's hashing of passwords.
Init == /\ accounts \in [Users -> {NoAccount} \cup [password : Passwords, legacy : {TRUE}]]
        /\ codes = <<>>
        /\ sessions = <<>>
        /\ requests = [w \in Workers |-> Idle]
        /\ resets = [u \in Users |-> 0]
        /\ latest = [u \in Users |-> accounts[u].password]
        /\ overlapped = FALSE

-------------------------------------------------------------------------------
(* Queries and requests.                                                   *)

Registered(u) == accounts[u].password # None

UnusedCodes(u, k) == {c \in DOMAIN codes : /\ codes[c].user = u /\ codes[c].kind = k
                                           /\ ~codes[c].is_used}

\* order_by(created_at.desc()).limit(1)
NewestUnused(u, k, c) == c \in UnusedCodes(u, k) /\ \A d \in UnusedCodes(u, k) : d <= c

SessionsOf(u) == {s \in DOMAIN sessions : sessions[s].user = u}

Begin(w, r) == /\ requests[w].op = "idle"
               /\ requests' = [requests EXCEPT ![w] = r]
               /\ overlapped' = (overlapped \/ \E v \in Workers : requests[v].op # "idle")
               /\ UNCHANGED <<tables, history>>

Serving(w, op) == requests[w].op = op /\ UNCHANGED overlapped

Finish(w) == requests' = [requests EXCEPT ![w] = Idle]

\* An error or a restart; get_db rolls back what is not committed.
Abort(w) == /\ requests[w].op # "idle" /\ Finish(w)
            /\ UNCHANGED <<tables, history, overlapped>>

\* update(Session).where(...).values(is_revoked=True)
Revoke(S) == sessions' = [s \in DOMAIN sessions |->
                 IF s \in S THEN [sessions[s] EXCEPT !.is_revoked = TRUE] ELSE sessions[s]]

NewSession(u, parent, era) == [user |-> u, is_revoked |-> FALSE, parent |-> parent, era |-> era]

-------------------------------------------------------------------------------
(* One-time codes: register_send_code, forgot_password_send_code.          *)

\* A ticket is for a phone without account, a reset for one with account; within
\* the cool-down of the last unused code nothing happens.
SendRead(w, u, k) ==
    /\ (k = "reset") <=> Registered(u)
    /\ \E p \in IF k = "ticket" THEN Passwords ELSE {None} :
       \E c \in DOMAIN codes \cup {0} :
          /\ IF UnusedCodes(u, k) = {} THEN c = 0
             ELSE NewestUnused(u, k, c) /\ codes[c].age # "new"
          /\ Begin(w, [Idle EXCEPT !.op = "send", !.user = u, !.kind = k, !.code = c,
                                   !.password = p])

NewCode(r) == [kind |-> r.kind, user |-> r.user, is_used |-> FALSE, attempts |-> 0,
               age |-> "new", password |-> r.password, guesses |-> 0, redeemed |-> 0]

LastVoided(c) == [d \in DOMAIN codes |->
                     IF d = c THEN [codes[d] EXCEPT !.is_used = TRUE] ELSE codes[d]]

\* Variant: the request goes on with the code it replaced.
AwaitSmsOfLast(w) == requests' = [requests EXCEPT ![w].op = "sms"]

AwaitSms(w) ==
    requests' = [requests EXCEPT ![w] = [Idle EXCEPT !.op = "sms", !.user = requests[w].user,
                                                     !.code = Len(codes')]]

\* The last code is voided and the new one committed before its SMS is sent.
SendCommit(w) ==
    /\ Serving(w, "send") /\ Len(codes) < MaxCodes
    /\ codes' = Append(LastVoided(requests[w].code), NewCode(requests[w]))
    /\ AwaitSms(w)
    /\ UNCHANGED <<accounts, sessions, history>>

\* The provider delivers the SMS, or fails and the code is voided.
SmsAnswers(w) ==
    /\ Serving(w, "sms") /\ Finish(w)
    /\ \/ UNCHANGED codes
       \/ codes' = [codes EXCEPT ![requests[w].code].is_used = TRUE]
    /\ UNCHANGED <<accounts, sessions, history>>

-------------------------------------------------------------------------------
(* Verification: register_verify and forgot_password_reset.                 *)

\* Expiry and the number of attempts come before the code, which may be either.
Verdicts(c) == IF c.age = "expired" \/ c.attempts >= MAX_ATTEMPTS THEN {"void"}
               ELSE {"wrong", "redeem"}

\* The newest unused code is loaded and judged; a reset comes with a new password, a
\* ticket has its own.
VerifyRead(w, u, k) ==
    /\ k = "reset" => Registered(u)
    /\ \E c \in UnusedCodes(u, k) : \E op \in Verdicts(codes[c]) :
       \E p \in IF k = "reset" /\ op = "redeem" THEN Passwords ELSE {codes[c].password} :
          /\ NewestUnused(u, k, c)
          /\ Begin(w, [Idle EXCEPT !.op = op, !.user = u, !.kind = k, !.code = c,
                                   !.attempts = IF op = "wrong" THEN codes[c].attempts ELSE 0,
                                   !.password = p])

VoidCommit(w) ==
    /\ Serving(w, "void") /\ Finish(w)
    /\ codes' = [codes EXCEPT ![requests[w].code].is_used = TRUE]
    /\ UNCHANGED <<accounts, sessions, history>>

\* attempts += 1, from the value loaded.
WrongCommit(w) ==
    LET r == requests[w] IN
    /\ Serving(w, "wrong") /\ Finish(w)
    /\ codes' = [codes EXCEPT ![r.code].attempts = r.attempts + 1,
                              ![r.code].guesses = @ + 1]
    /\ UNCHANGED <<accounts, sessions, history>>

Redeem(c) == codes' = [codes EXCEPT ![c].is_used = TRUE, ![c].redeemed = @ + 1]

\* Variant: without the constraint.
PhoneFreeUnchecked(u) == TRUE

\* users.phone is UNIQUE: without a free phone the transaction fails (Abort).
PhoneFree(u) == ~Registered(u)

SetPassword(u, p) == /\ accounts' = [accounts EXCEPT ![u] = [password |-> p, legacy |-> FALSE]]
                     /\ latest' = [latest EXCEPT ![u] = p]

\* The account and the used ticket are committed; the session comes in a second
\* transaction, as at a login.
RedeemTicket(w) ==
    LET r == requests[w] IN
    /\ Serving(w, "redeem") /\ r.kind = "ticket" /\ PhoneFree(r.user)
    /\ Redeem(r.code)
    /\ SetPassword(r.user, r.password)
    /\ requests' = [requests EXCEPT ![w] = [Idle EXCEPT !.op = "login", !.user = r.user,
                                                        !.era = resets[r.user]]]
    /\ UNCHANGED <<sessions, resets>>

\* Variant: the sessions stay.
RedeemResetOnly(w) ==
    LET r == requests[w] IN
    /\ Serving(w, "redeem") /\ r.kind = "reset" /\ resets[r.user] < MaxResets
    /\ Redeem(r.code)
    /\ SetPassword(r.user, r.password)
    /\ resets' = [resets EXCEPT ![r.user] = @ + 1]
    /\ Finish(w) /\ UNCHANGED sessions

\* The new password, the used code and the end of all sessions are one transaction.
RedeemReset(w) ==
    LET r == requests[w] IN
    /\ Serving(w, "redeem") /\ r.kind = "reset" /\ resets[r.user] < MaxResets
    /\ Redeem(r.code)
    /\ SetPassword(r.user, r.password)
    /\ Revoke(SessionsOf(r.user))
    /\ resets' = [resets EXCEPT ![r.user] = @ + 1]
    /\ Finish(w)

-------------------------------------------------------------------------------
(* Sessions: login, refresh, logout and the list of devices.                *)

\* The password was right; a request without rehash has no more use for it.
LoginRead(w, u) ==
    /\ Registered(u)
    /\ Begin(w, [Idle EXCEPT !.op = "login", !.user = u, !.rehash = accounts[u].legacy,
                             !.password = IF accounts[u].legacy THEN accounts[u].password
                                          ELSE None,
                             !.era = resets[u]])

\* The password that was typed replaces an old hash, whatever is stored by now.
LoginCommit(w) ==
    LET r == requests[w] IN
    /\ Serving(w, "login") /\ Finish(w)
    /\ Len(sessions) < MaxSessions
    /\ sessions' = Append(sessions, NewSession(r.user, 0, r.era))
    /\ accounts' = IF r.rehash
                   THEN [accounts EXCEPT ![r.user] = [password |-> r.password, legacy |-> FALSE]]
                   ELSE accounts
    /\ UNCHANGED <<codes, history>>

\* Variant: a revoked session is accepted.
RefreshReadRevoked(w, s) ==
    Begin(w, [Idle EXCEPT !.op = "refresh", !.user = sessions[s].user, !.session = s])

\* Only an unrevoked session is refreshed; its row was found by the token itself.
RefreshRead(w, s) ==
    /\ ~sessions[s].is_revoked
    /\ Begin(w, [Idle EXCEPT !.op = "refresh", !.user = sessions[s].user, !.session = s])

\* The old session ends in the transaction that starts the new one.
RefreshCommit(w) ==
    LET r == requests[w] IN
    /\ Serving(w, "refresh") /\ Finish(w)
    /\ Len(sessions) < MaxSessions
    /\ sessions' = Append([sessions EXCEPT ![r.session].is_revoked = TRUE],
                          NewSession(r.user, r.session, sessions[r.session].era))
    /\ UNCHANGED <<accounts, codes, history>>

\* Single statements: each takes effect where it is executed.
Statement == /\ overlapped' = (overlapped \/ \E v \in Workers : requests[v].op # "idle")
             /\ UNCHANGED <<accounts, codes, requests, history>>

\* logout, revoke_device
Logout(s) == ~sessions[s].is_revoked /\ Revoke({s}) /\ Statement

LogoutAll(u) == SessionsOf(u) # {} /\ Revoke(SessionsOf(u)) /\ Statement

\* revoke_other_devices
LogoutOthers(s) == Revoke(SessionsOf(sessions[s].user) \ {s}) /\ Statement

-------------------------------------------------------------------------------
(* change_password, and time.                                              *)

\* No session ends when a password is changed.
ChangeRead(w, u) == /\ Registered(u)
                    /\ \E p \in Passwords : Begin(w, [Idle EXCEPT !.op = "change", !.user = u,
                                                                  !.password = p])

ChangeCommit(w) == /\ Serving(w, "change") /\ Finish(w)
                   /\ SetPassword(requests[w].user, requests[w].password)
                   /\ UNCHANGED <<codes, sessions, resets>>

\* The age of a used code is never looked at.
CodeAges(c) == /\ codes[c].age # "expired" /\ ~codes[c].is_used
               /\ codes' = [codes EXCEPT ![c].age = IF @ = "new" THEN "old" ELSE "expired"]
               /\ UNCHANGED <<accounts, sessions, requests, history, overlapped>>

CodeStep(w) == \/ \E u \in Users, k \in Kinds : SendRead(w, u, k) \/ VerifyRead(w, u, k)
               \/ SendCommit(w) \/ SmsAnswers(w)
               \/ VoidCommit(w) \/ WrongCommit(w) \/ RedeemTicket(w) \/ RedeemReset(w)

SessionStep(w) == \/ \E u \in Users : LoginRead(w, u) \/ ChangeRead(w, u)
                  \/ \E s \in DOMAIN sessions : RefreshRead(w, s)
                  \/ LoginCommit(w) \/ RefreshCommit(w) \/ ChangeCommit(w)

Next == \/ \E w \in Workers : CodeStep(w) \/ SessionStep(w) \/ Abort(w)
        \/ \E s \in DOMAIN sessions : Logout(s) \/ LogoutOthers(s)
        \/ \E u \in Users : LogoutAll(u)
        \/ \E c \in DOMAIN codes : CodeAges(c)

Spec == Init /\ [][Next]_vars

-------------------------------------------------------------------------------
(* Properties.                                                             *)

\* Rows and requests are well formed: a request that judged a code holds one, a
\* session is refreshed from an older one (auth/models.py, auth/service.py).
TypeOK ==
    /\ accounts \in [Users -> Account]
    /\ codes \in Seq(Code)
    /\ sessions \in Seq(Session)
    /\ requests \in [Workers -> Request]
    /\ resets \in [Users -> 0..MaxResets]
    /\ latest \in [Users -> Passwords \cup {None}]
    /\ overlapped \in BOOLEAN
    /\ \A s \in DOMAIN sessions : sessions[s].parent < s
    /\ \A c \in DOMAIN codes : codes[c].password = None <=> codes[c].kind = "reset"
    /\ \A w \in Workers :
          /\ requests[w].op \in {"sms", "void", "wrong", "redeem"}
                => requests[w].code \in DOMAIN codes
          /\ requests[w].op = "refresh" => requests[w].session \in DOMAIN sessions

\* A refresh token that was exchanged is void, in every interleaving: refresh revokes
\* the session in the transaction that inserts the next one, and nothing revives it.
RotatedIsRevoked ==
    \A s \in DOMAIN sessions :
        sessions[s].parent # 0 => sessions[sessions[s].parent].is_revoked

\* register_verify creates an account at most once per phone, in every interleaving: a
\* ticket is accepted once, with its account, and no second ticket of the phone is.
RegisteredOnce ==
    \A c \in DOMAIN codes :
        codes[c].kind = "ticket" /\ codes[c].redeemed > 0 =>
            /\ Registered(codes[c].user)
            /\ codes[c].is_used /\ codes[c].redeemed = 1
            /\ \A d \in DOMAIN codes \ {c} :
                  codes[d].kind = "ticket" /\ codes[d].user = codes[c].user
                      => codes[d].redeemed = 0

\* While requests do not overlap, a refresh token is exchanged once: no session has two
\* successors (refresh selects unrevoked sessions only).
OneSuccessor ==
    ~overlapped => \A s, t \in DOMAIN sessions :
        sessions[s].parent = sessions[t].parent /\ sessions[s].parent # 0 => s = t

\* "After the password is replaced all old sessions are revoked" (auth/service.py:497):
\* while requests do not overlap, every live session goes back, over any number of
\* refreshes, to a login after the last reset.
ResetEndsSessions ==
    ~overlapped => \A s \in DOMAIN sessions :
        ~sessions[s].is_revoked => sessions[s].era = resets[sessions[s].user]

\* While requests do not overlap, a user has one open code of a kind, because the next
\* one voids the last; at most MAX_ATTEMPTS wrong answers are judged per code, and it is
\* accepted once.
CodeIsBounded ==
    ~overlapped =>
        /\ \A u \in Users, k \in Kinds : Cardinality(UnusedCodes(u, k)) <= 1
        /\ \A c \in DOMAIN codes : codes[c].guesses <= MAX_ATTEMPTS /\ codes[c].redeemed <= 1

\* While requests do not overlap, the password of an account is the one its user set
\* last: the rehash at a login stores what is already stored.
PasswordIsLatest == ~overlapped => \A u \in Users : accounts[u].password = latest[u]

\* What is handed out is used once (refresh, register_verify, forgot_password_reset):
\* neither a token nor a code serves twice, and in no interleaving does one that was
\* exchanged.
UsedOnce == RotatedIsRevoked /\ OneSuccessor /\ CodeIsBounded

\* A new password takes hold (forgot_password_reset, change_password, login): it is the
\* one that is stored, and no session from before a reset lives on.
PasswordTakesHold == ResetEndsSessions /\ PasswordIsLatest

===============================================================================
