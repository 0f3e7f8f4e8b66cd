------------------------------ MODULE Auth_proofs ------------------------------
(* What holds of accounts, codes and sessions for any number of requests.   *)
EXTENDS Auth, FiniteSetTheorems, TLAPS

\* What a request carries from its read to its commit.
RequestOK(r) ==
    /\ r.op # "idle" => r.user \in Users
    /\ r.op = "send" => (r.password = None <=> r.kind = "reset")
    /\ r.op \in {"sms", "void", "wrong", "redeem"} => r.code \in DOMAIN codes
    /\ r.op = "redeem" => /\ r.password \in Passwords
                          /\ codes[r.code].user = r.user /\ codes[r.code].kind = r.kind
    /\ r.op = "refresh" => r.session \in DOMAIN sessions
    /\ r.op = "login" /\ r.rehash => r.password \in Passwords
    /\ r.op = "change" => r.password \in Passwords

RequestsOK == \A w \in Workers : requests[w] \in Request /\ RequestOK(requests[w])

\* TypeOK, a part per variable.
AccountsOK == /\ accounts \in [Users -> Account]
              /\ resets \in [Users -> 0..MaxResets]
              /\ latest \in [Users -> Passwords \cup {None}]
              /\ overlapped \in BOOLEAN

CodesOK == /\ codes \in Seq(Code)
           /\ \A c \in DOMAIN codes : codes[c].password = None <=> codes[c].kind = "reset"

SessionsOK == /\ sessions \in Seq(Session)
              /\ \A s \in DOMAIN sessions : sessions[s].parent < s
              /\ RotatedIsRevoked

IndInv == /\ AccountsOK /\ CodesOK /\ SessionsOK /\ RegisteredOnce
          /\ requests \in [Workers -> Request] /\ RequestsOK

-------------------------------------------------------------------------------
(* Steps on one table.                                                     *)

\* A registered account stays registered.
AccountsKept == \A u \in Users : Registered(u) => Registered(u)'

\* Codes are neither removed nor given to somebody else.
CodesKept == /\ DOMAIN codes \subseteq DOMAIN codes'
             /\ \A c \in DOMAIN codes : /\ codes'[c].user = codes[c].user
                                        /\ codes'[c].kind = codes[c].kind

SessionsKept == DOMAIN sessions \subseteq DOMAIN sessions'

LEMMA IdleIsRequest == Idle \in Request /\ Idle.op = "idle"
  BY ConstantsAssumption DEF Idle, Request, Kinds

\* A request in flight stays in order while rows are only added.
LEMMA RequestsSurvive ==
  ASSUME IndInv, CodesKept, SessionsKept, NEW w \in Workers
  PROVE  requests'[w] = requests[w] => RequestOK(requests[w])'
  BY DEF IndInv, RequestsOK, RequestOK, CodesKept, SessionsKept

\* A step that changes one request.
LEMMA RequestsStep ==
  ASSUME IndInv, CodesKept, SessionsKept, NEW w \in Workers, NEW r \in Request,
         requests' = [requests EXCEPT ![w] = r],
         RequestOK(r)'
  PROVE  (requests \in [Workers -> Request] /\ RequestsOK)'
  <1>1. requests' \in [Workers -> Request]
    BY DEF IndInv
  <1>2. ASSUME NEW v \in Workers PROVE (requests[v] \in Request /\ RequestOK(requests[v]))'
    <2>1. CASE v = w
      BY <2>1 DEF IndInv
    <2>2. CASE v # w
      <3>1. requests'[v] = requests[v]
        BY <2>2 DEF IndInv
      <3>2. QED
        BY <1>1, <3>1, RequestsSurvive
    <2>3. QED
      BY <2>1, <2>2
  <1>3. QED
    BY <1>1, <1>2 DEF RequestsOK

LEMMA CodeTypes == IndInv => \A c \in DOMAIN codes : codes[c] \in Code
  BY DEF IndInv, CodesOK

LEMMA SessionTypes == IndInv => \A s \in DOMAIN sessions : sessions[s] \in Session
  BY DEF IndInv, SessionsOK

\* Tables that do not change keep the invariant of their rows.
LEMMA SameCodes ==
  ASSUME IndInv, codes' = codes, AccountsKept
  PROVE  CodesOK' /\ CodesKept /\ RegisteredOnce'
  <1>1. CodesOK' /\ CodesKept
    BY DEF IndInv, CodesOK, CodesKept
  <1>2. \A c \in DOMAIN codes : codes[c].user \in Users
    BY CodeTypes DEF Code
  <1>3. QED
    BY <1>1, <1>2 DEF IndInv, RegisteredOnce, AccountsKept

LEMMA SameSessions ==
  ASSUME IndInv, sessions' = sessions
  PROVE  SessionsOK' /\ SessionsKept
  BY DEF IndInv, SessionsOK, SessionsKept, RotatedIsRevoked

LEMMA SameAccounts ==
  ASSUME IndInv, accounts' = accounts, resets' = resets, latest' = latest,
         overlapped' \in BOOLEAN
  PROVE  AccountsOK' /\ AccountsKept
  BY DEF IndInv, AccountsOK, AccountsKept, Registered

\* Only the bookkeeping of one code changes, and it is not accepted.
LEMMA OneCodeMoves ==
  ASSUME IndInv, AccountsKept, NEW c \in DOMAIN codes, NEW d \in Code,
         codes' = [codes EXCEPT ![c] = d],
         d.user = codes[c].user, d.kind = codes[c].kind, d.password = codes[c].password,
         d.redeemed = codes[c].redeemed, codes[c].is_used => d.is_used
  PROVE  CodesOK' /\ CodesKept /\ RegisteredOnce'
  <1>1. codes' \in Seq(Code) /\ DOMAIN codes' = DOMAIN codes
    BY DEF IndInv, CodesOK
  <1>2. \A e \in DOMAIN codes : codes'[e] = IF e = c THEN d ELSE codes[e]
    BY DEF IndInv, CodesOK
  <1>3. CodesKept
    BY <1>1, <1>2 DEF CodesKept
  <1>4. CodesOK'
    BY <1>1, <1>2 DEF CodesOK, IndInv
  <1>5. \A e \in DOMAIN codes : codes[e].user \in Users
    BY CodeTypes DEF Code
  <1>6. RegisteredOnce'
    BY <1>1, <1>2, <1>5 DEF IndInv, RegisteredOnce, AccountsKept
  <1>7. QED
    BY <1>3, <1>4, <1>6

\* Sessions are only revoked.
LEMMA RevokeKeeps ==
  ASSUME IndInv, NEW S, Revoke(S)
  PROVE  SessionsOK' /\ SessionsKept
  <1>1. /\ DOMAIN sessions = 1..Len(sessions) /\ Len(sessions) \in Nat
        /\ \A s \in DOMAIN sessions : sessions[s] \in Session
    BY DEF IndInv, SessionsOK
  <1>2. /\ DOMAIN sessions' = DOMAIN sessions
        /\ \A s \in DOMAIN sessions : sessions'[s] =
               IF s \in S THEN [sessions[s] EXCEPT !.is_revoked = TRUE] ELSE sessions[s]
    BY DEF Revoke
  <1>3. \A s \in DOMAIN sessions :
            /\ sessions'[s] \in Session /\ sessions'[s].parent = sessions[s].parent
            /\ sessions[s].is_revoked => sessions'[s].is_revoked
    BY <1>1, <1>2 DEF Session
  <1>4. sessions' \in Seq(Session)
    BY <1>1, <1>2, <1>3 DEF Revoke
  <1>5. \A s \in DOMAIN sessions : sessions[s].parent # 0 => sessions[s].parent \in DOMAIN sessions
    BY <1>1 DEF IndInv, SessionsOK, Session
  <1>6. QED
    BY <1>2, <1>3, <1>4, <1>5 DEF IndInv, SessionsOK, SessionsKept, RotatedIsRevoked

LEMMA VoidedCode ==
  ASSUME NEW k \in Code, NEW v, v = [k EXCEPT !.is_used = TRUE]
  PROVE  /\ v \in Code /\ v.is_used /\ v.user = k.user /\ v.kind = k.kind
         /\ v.password = k.password /\ v.redeemed = k.redeemed
  BY DEF Code

\* A code is added, and perhaps the last one voided.
LEMMA CodeAdded ==
  ASSUME IndInv, AccountsKept, NEW d \in Code, NEW c,
         codes' = Append(LastVoided(c), d),
         d.password = None <=> d.kind = "reset", d.redeemed = 0
  PROVE  CodesOK' /\ CodesKept /\ RegisteredOnce' /\ Len(codes') \in DOMAIN codes'
  <1>1. /\ DOMAIN codes = 1..Len(codes) /\ Len(codes) \in Nat
        /\ \A e \in DOMAIN codes : codes[e] \in Code
    BY DEF IndInv, CodesOK
  <1> DEFINE last == LastVoided(c)
  <1>2. /\ DOMAIN last = DOMAIN codes
        /\ \A e \in DOMAIN codes :
              last[e] = IF e = c THEN [codes[e] EXCEPT !.is_used = TRUE] ELSE codes[e]
    BY DEF LastVoided
  <1>3. \A e \in DOMAIN codes :
            /\ last[e] \in Code
            /\ last[e].user = codes[e].user /\ last[e].kind = codes[e].kind
            /\ last[e].password = codes[e].password
            /\ last[e].redeemed = codes[e].redeemed
            /\ codes[e].is_used => last[e].is_used
    BY <1>1, <1>2, VoidedCode
  <1>4. last \in Seq(Code) /\ Len(last) = Len(codes)
    BY <1>1, <1>2, <1>3 DEF LastVoided
  <1>5. codes' = Append(last, d)
    OBVIOUS
  <1> HIDE DEF last
  <1>6. /\ codes' \in Seq(Code) /\ Len(codes') = Len(codes) + 1
        /\ DOMAIN codes' = DOMAIN codes \cup {Len(codes) + 1}
        /\ codes'[Len(codes) + 1] = d
        /\ \A e \in DOMAIN codes : codes'[e] = last[e]
    BY <1>1, <1>4, <1>5
  <1>7. CodesKept
    BY <1>3, <1>6 DEF CodesKept
  <1>8. CodesOK'
    BY SMTT(60), <1>1, <1>3, <1>6 DEF CodesOK, IndInv
  <1>9. \A e \in DOMAIN codes : codes[e].user \in Users
    BY CodeTypes DEF Code
  <1>10. RegisteredOnce'
    BY SMTT(60), <1>1, <1>3, <1>6, <1>9 DEF IndInv, RegisteredOnce, AccountsKept
  <1>11. QED
    BY <1>1, <1>6, <1>7, <1>8, <1>10

\* A session is added to a table of the same length that keeps who was revoked.
LEMMA SessionAdded ==
  ASSUME IndInv, NEW S \in Seq(Session), NEW n \in Session,
         sessions' = Append(S, n), Len(S) = Len(sessions),
         \A s \in DOMAIN sessions : /\ S[s].parent = sessions[s].parent
                                    /\ sessions[s].is_revoked => S[s].is_revoked,
         n.parent # 0 => n.parent \in DOMAIN sessions /\ S[n.parent].is_revoked
  PROVE  SessionsOK' /\ SessionsKept
  <1>1. /\ DOMAIN sessions = 1..Len(sessions) /\ Len(sessions) \in Nat
        /\ DOMAIN S = DOMAIN sessions
    BY DEF IndInv, SessionsOK
  <1>2. /\ sessions' \in Seq(Session)
        /\ DOMAIN sessions' = DOMAIN sessions \cup {Len(sessions) + 1}
        /\ sessions'[Len(sessions) + 1] = n
        /\ \A s \in DOMAIN sessions : sessions'[s] = S[s]
    BY <1>1
  <1>3. \A s \in DOMAIN sessions : sessions[s].parent # 0 => sessions[s].parent \in DOMAIN sessions
    <2>1. \A s \in DOMAIN sessions : sessions[s].parent \in Nat /\ sessions[s].parent < s
      BY SessionTypes DEF IndInv, SessionsOK, Session
    <2>2. QED
      BY <1>1, <2>1
  <1>4. \A s \in DOMAIN sessions' : sessions'[s].parent < s
    <2>1. n.parent = 0 \/ n.parent \in 1..Len(sessions)
      BY <1>1
    <2>2. QED
      BY <1>1, <1>2, <2>1 DEF IndInv, SessionsOK
  <1>5. RotatedIsRevoked'
    BY SMTT(60), <1>1, <1>2, <1>3 DEF IndInv, SessionsOK, RotatedIsRevoked
  <1>6. QED
    BY <1>2, <1>4, <1>5 DEF SessionsOK, SessionsKept

\* A password is stored, so that the account is registered.
LEMMA PasswordStored ==
  ASSUME IndInv, NEW u \in Users, NEW p \in Passwords, SetPassword(u, p),
         resets' \in [Users -> 0..MaxResets], overlapped' \in BOOLEAN
  PROVE  AccountsOK' /\ AccountsKept /\ Registered(u)'
  BY ConstantsAssumption DEF IndInv, AccountsOK, AccountsKept, Registered, SetPassword, Account

-------------------------------------------------------------------------------
(* The steps of requests.                                                  *)

LEMMA BeginKeeps ==
  ASSUME IndInv, NEW w \in Workers, NEW r \in Request, RequestOK(r), Begin(w, r)
  PROVE  IndInv'
  <1>1. /\ codes' = codes /\ sessions' = sessions /\ accounts' = accounts
        /\ resets' = resets /\ latest' = latest /\ requests' = [requests EXCEPT ![w] = r]
        /\ overlapped' \in BOOLEAN
    BY DEF Begin, tables, history, IndInv, AccountsOK
  <1>2. AccountsOK' /\ AccountsKept
    BY <1>1, SameAccounts
  <1>3. CodesOK' /\ CodesKept /\ RegisteredOnce'
    BY <1>1, <1>2, SameCodes
  <1>4. SessionsOK' /\ SessionsKept
    BY <1>1, SameSessions
  <1>5. RequestOK(r)'
    BY <1>1 DEF RequestOK
  <1>6. QED
    BY <1>1, <1>2, <1>3, <1>4, <1>5, RequestsStep DEF IndInv

LEMMA FinishKeeps ==
  ASSUME IndInv, NEW w \in Workers, Finish(w),
         AccountsOK', CodesOK', CodesKept, RegisteredOnce', SessionsOK', SessionsKept
  PROVE  IndInv'
  <1>1. requests' = [requests EXCEPT ![w] = Idle]
    BY DEF Finish
  <1>2. RequestOK(Idle)'
    BY IdleIsRequest DEF RequestOK, Idle
  <1>3. QED
    BY <1>1, <1>2, IdleIsRequest, RequestsStep DEF IndInv

LEMMA SendReadKeeps ==
  ASSUME IndInv, NEW w \in Workers, NEW u \in Users, NEW k \in Kinds, SendRead(w, u, k)
  PROVE  IndInv'
  <1>1. PICK p \in Passwords \cup {None}, c \in DOMAIN codes \cup {0} :
            /\ p = None <=> k = "reset"
            /\ Begin(w, [Idle EXCEPT !.op = "send", !.user = u, !.kind = k, !.code = c,
                                     !.password = p])
    BY ConstantsAssumption DEF SendRead, Kinds
  <1> DEFINE r == [Idle EXCEPT !.op = "send", !.user = u, !.kind = k, !.code = c,
                               !.password = p]
  <1>2. c \in Nat
    BY DEF IndInv, CodesOK
  <1>3. r \in Request
    BY <1>2, ConstantsAssumption DEF Idle, Request, Kinds
  <1>4. RequestOK(r)
    BY <1>1 DEF RequestOK, Idle
  <1>5. QED
    BY <1>1, <1>3, <1>4, BeginKeeps

LEMMA VerifyReadKeeps ==
  ASSUME IndInv, NEW w \in Workers, NEW u \in Users, NEW k \in Kinds, VerifyRead(w, u, k)
  PROVE  IndInv'
  <1> DEFINE r(c, op, p) ==
               [Idle EXCEPT !.op = op, !.user = u, !.kind = k, !.code = c,
                            !.attempts = IF op = "wrong" THEN codes[c].attempts ELSE 0,
                            !.password = p]
  <1>0. PICK c \in UnusedCodes(u, k) : \E op \in Verdicts(codes[c]) :
          \E p \in IF k = "reset" /\ op = "redeem" THEN Passwords ELSE {codes[c].password} :
             Begin(w, r(c, op, p))
    BY DEF VerifyRead
  <1>1. PICK op \in Verdicts(codes[c]) :
          \E p \in IF k = "reset" /\ op = "redeem" THEN Passwords ELSE {codes[c].password} :
             Begin(w, r(c, op, p))
    BY <1>0
  <1>2. /\ c \in DOMAIN codes /\ c \in Nat /\ codes[c].user = u /\ codes[c].kind = k
        /\ codes[c].password \in Passwords \cup {None} /\ codes[c].attempts \in Nat
        /\ codes[c].password = None <=> k = "reset"
    <2>1. c \in DOMAIN codes /\ codes[c].user = u /\ codes[c].kind = k
      BY DEF UnusedCodes
    <2>2. codes[c] \in Code
      BY <2>1, CodeTypes
    <2>3. QED
      BY <2>1, <2>2 DEF IndInv, CodesOK, Code
  <1>3. PICK p \in Passwords \cup {None} : /\ op = "redeem" => p \in Passwords
                                           /\ Begin(w, r(c, op, p))
    BY <1>1, <1>2
  <1>4. op \in {"void", "wrong", "redeem"}
    BY DEF Verdicts
  <1>5. r(c, op, p) \in Request
    BY <1>2, <1>4, ConstantsAssumption DEF Idle, Request, Kinds
  <1>6. RequestOK(r(c, op, p))
    BY <1>2, <1>3, <1>4 DEF RequestOK, Idle
  <1>7. QED
    BY <1>3, <1>5, <1>6, BeginKeeps

LEMMA LoginReadKeeps ==
  ASSUME IndInv, NEW w \in Workers, NEW u \in Users, LoginRead(w, u)
  PROVE  IndInv'
  <1> DEFINE r == [Idle EXCEPT !.op = "login", !.user = u, !.rehash = accounts[u].legacy,
                               !.password = IF accounts[u].legacy THEN accounts[u].password
                                            ELSE None,
                               !.era = resets[u]]
  <1>1. accounts[u] \in Account /\ accounts[u].password \in Passwords /\ resets[u] \in Nat
    BY DEF LoginRead, Registered, IndInv, AccountsOK, Account
  <1>2. r \in Request
    BY <1>1, ConstantsAssumption DEF Idle, Request, Kinds, Account
  <1>3. RequestOK(r)
    BY <1>1 DEF RequestOK, Idle
  <1>4. QED
    BY <1>2, <1>3, BeginKeeps DEF LoginRead

LEMMA RefreshReadKeeps ==
  ASSUME IndInv, NEW w \in Workers, NEW s \in DOMAIN sessions, RefreshRead(w, s)
  PROVE  IndInv'
  <1> DEFINE r == [Idle EXCEPT !.op = "refresh", !.user = sessions[s].user, !.session = s]
  <1>1. sessions[s] \in Session /\ s \in Nat
    BY SessionTypes DEF IndInv, SessionsOK
  <1>2. r \in Request
    BY <1>1, ConstantsAssumption DEF Idle, Request, Kinds, Session
  <1>3. RequestOK(r)
    BY <1>1 DEF RequestOK, Idle, Session
  <1>4. QED
    BY <1>2, <1>3, BeginKeeps DEF RefreshRead

LEMMA ChangeReadKeeps ==
  ASSUME IndInv, NEW w \in Workers, NEW u \in Users, ChangeRead(w, u)
  PROVE  IndInv'
  <1>1. PICK p \in Passwords : Begin(w, [Idle EXCEPT !.op = "change", !.user = u, !.password = p])
    BY DEF ChangeRead
  <1> DEFINE r == [Idle EXCEPT !.op = "change", !.user = u, !.password = p]
  <1>2. r \in Request
    BY ConstantsAssumption DEF Idle, Request, Kinds
  <1>3. RequestOK(r)
    BY DEF RequestOK, Idle
  <1>4. QED
    BY <1>1, <1>2, <1>3, BeginKeeps

LEMMA AbortKeeps ==
  ASSUME IndInv, NEW w \in Workers, Abort(w)
  PROVE  IndInv'
  <1>1. /\ codes' = codes /\ sessions' = sessions /\ accounts' = accounts
        /\ resets' = resets /\ latest' = latest /\ overlapped' \in BOOLEAN /\ Finish(w)
    BY DEF Abort, tables, history, IndInv, AccountsOK
  <1>2. QED
    BY <1>1, SameAccounts, SameCodes, SameSessions, FinishKeeps

\* What a step leaves alone that only writes codes.
LEMMA OnlyCodes ==
  ASSUME IndInv, UNCHANGED <<accounts, sessions, history, overlapped>>
  PROVE  AccountsOK' /\ AccountsKept /\ SessionsOK' /\ SessionsKept
  <1>1. /\ sessions' = sessions /\ accounts' = accounts
        /\ resets' = resets /\ latest' = latest /\ overlapped' \in BOOLEAN
    BY DEF history, IndInv, AccountsOK
  <1>2. QED
    BY <1>1, SameAccounts, SameSessions

LEMMA SendCommitKeeps ==
  ASSUME IndInv, NEW w \in Workers, SendCommit(w)
  PROVE  IndInv'
  <1> DEFINE r == requests[w]
             d == NewCode(r)
  <1>1. r \in Request /\ RequestOK(r) /\ r.op = "send"
    BY DEF IndInv, RequestsOK, SendCommit, Serving
  <1>2. d \in Code /\ d.redeemed = 0 /\ (d.password = None <=> d.kind = "reset")
    BY <1>1 DEF NewCode, Code, Request, RequestOK
  <1>3. AccountsOK' /\ AccountsKept /\ SessionsOK' /\ SessionsKept
    BY OnlyCodes DEF SendCommit, Serving
  <1>4. codes' = Append(LastVoided(r.code), d)
    BY DEF SendCommit
  <1>5. CodesOK' /\ CodesKept /\ RegisteredOnce' /\ Len(codes') \in DOMAIN codes'
    <2> HIDE DEF d
    <2>1. QED
      BY <1>2, <1>3, <1>4, CodeAdded
  <1>6. PICK m \in Nat : m = Len(codes')
    BY <1>5 DEF CodesOK
  <1>7. PICK u \in Users : u = r.user
    BY <1>1 DEF RequestOK
  <1> DEFINE n == [Idle EXCEPT !.op = "sms", !.user = u, !.code = m]
  <1>8. n \in Request
    BY ConstantsAssumption DEF Idle, Request, Kinds
  <1>9. RequestOK(n)'
    BY <1>5, <1>6 DEF RequestOK, Idle
  <1>10. requests' = [requests EXCEPT ![w] = n]
    BY <1>6, <1>7 DEF SendCommit, AwaitSms
  <1> HIDE DEF n
  <1>11. QED
    BY <1>3, <1>5, <1>8, <1>9, <1>10, RequestsStep DEF IndInv

\* The request names a code: one that is voided, or whose wrong answer is counted.
LEMMA CodeOfRequest ==
  ASSUME IndInv, NEW w \in Workers,
         requests[w].op \in {"sms", "void", "wrong", "redeem"}
  PROVE  requests[w].code \in DOMAIN codes /\ codes[requests[w].code] \in Code
  BY CodeTypes DEF IndInv, RequestsOK, RequestOK

LEMMA CodeVoided ==
  ASSUME IndInv, AccountsKept, NEW c \in DOMAIN codes,
         codes' = [codes EXCEPT ![c].is_used = TRUE]
  PROVE  CodesOK' /\ CodesKept /\ RegisteredOnce'
  <1> DEFINE d == [codes[c] EXCEPT !.is_used = TRUE]
  <1>1. /\ d \in Code /\ d.is_used /\ d.user = codes[c].user /\ d.kind = codes[c].kind
        /\ d.password = codes[c].password /\ d.redeemed = codes[c].redeemed
    BY CodeTypes, VoidedCode
  <1>2. codes' = [codes EXCEPT ![c] = d]
    OBVIOUS
  <1> HIDE DEF d
  <1>3. QED
    BY <1>1, <1>2, OneCodeMoves

LEMMA VoidCommitKeeps ==
  ASSUME IndInv, NEW w \in Workers, VoidCommit(w)
  PROVE  IndInv'
  <1>1. requests[w].code \in DOMAIN codes
    BY CodeOfRequest DEF VoidCommit, Serving
  <1>2. AccountsOK' /\ AccountsKept /\ SessionsOK' /\ SessionsKept
    BY OnlyCodes DEF VoidCommit, Serving
  <1>3. CodesOK' /\ CodesKept /\ RegisteredOnce'
    BY <1>1, <1>2, CodeVoided DEF VoidCommit
  <1>4. QED
    BY <1>2, <1>3, FinishKeeps DEF VoidCommit

LEMMA SmsAnswersKeeps ==
  ASSUME IndInv, NEW w \in Workers, SmsAnswers(w)
  PROVE  IndInv'
  <1>1. requests[w].code \in DOMAIN codes
    BY CodeOfRequest DEF SmsAnswers, Serving
  <1>2. AccountsOK' /\ AccountsKept /\ SessionsOK' /\ SessionsKept
    BY OnlyCodes DEF SmsAnswers, Serving
  <1>3. CodesOK' /\ CodesKept /\ RegisteredOnce'
    <2>1. CASE UNCHANGED codes
      BY <1>2, <2>1, SameCodes
    <2>2. CASE codes' = [codes EXCEPT ![requests[w].code].is_used = TRUE]
      BY <1>1, <1>2, <2>2, CodeVoided
    <2>3. QED
      BY <2>1, <2>2 DEF SmsAnswers
  <1>4. QED
    BY <1>2, <1>3, FinishKeeps DEF SmsAnswers

LEMMA WrongCommitKeeps ==
  ASSUME IndInv, NEW w \in Workers, WrongCommit(w)
  PROVE  IndInv'
  <1> DEFINE c == requests[w].code
             d == [codes[c] EXCEPT !.attempts = requests[w].attempts + 1,
                                !.guesses = codes[c].guesses + 1]
  <1>1. c \in DOMAIN codes /\ codes[c] \in Code /\ requests[w] \in Request
    BY CodeOfRequest DEF WrongCommit, Serving, IndInv, RequestsOK
  <1>2. AccountsOK' /\ AccountsKept /\ SessionsOK' /\ SessionsKept
    BY OnlyCodes DEF WrongCommit, Serving
  <1>3. requests[w].attempts \in Nat
    BY <1>1 DEF Request
  <1>4. /\ d \in Code /\ d.is_used = codes[c].is_used /\ d.user = codes[c].user
        /\ d.kind = codes[c].kind /\ d.password = codes[c].password
        /\ d.redeemed = codes[c].redeemed
    <2>1. requests[w].attempts + 1 \in Nat /\ codes[c].guesses + 1 \in Nat
      BY <1>1, <1>3 DEF Code
    <2> DEFINE e == [codes[c] EXCEPT !.attempts = requests[w].attempts + 1]
    <2>2. /\ e \in Code /\ e.is_used = codes[c].is_used /\ e.user = codes[c].user
          /\ e.kind = codes[c].kind /\ e.password = codes[c].password
          /\ e.redeemed = codes[c].redeemed
      BY <1>1, <2>1 DEF Code
    <2>3. d = [e EXCEPT !.guesses = codes[c].guesses + 1]
      BY <1>1 DEF Code
    <2> HIDE DEF d, e
    <2>4. QED
      BY <2>1, <2>2, <2>3 DEF Code
  <1>5. codes' = [codes EXCEPT ![c] = d]
    BY <1>1 DEF WrongCommit, IndInv, CodesOK, Code
  <1>6. CodesOK' /\ CodesKept /\ RegisteredOnce'
    <2> HIDE DEF d
    <2>1. QED
      BY <1>1, <1>2, <1>4, <1>5, OneCodeMoves
  <1>7. QED
    BY <1>2, <1>6, FinishKeeps DEF WrongCommit

LEMMA CodeAgesKeeps ==
  ASSUME IndInv, NEW c \in DOMAIN codes, CodeAges(c)
  PROVE  IndInv'
  <1> DEFINE d == [codes[c] EXCEPT !.age = IF @ = "new" THEN "old" ELSE "expired"]
  <1>1. AccountsOK' /\ AccountsKept /\ SessionsOK' /\ SessionsKept
    BY OnlyCodes DEF CodeAges
  <1>2. /\ d \in Code /\ d.is_used = codes[c].is_used /\ d.user = codes[c].user
        /\ d.kind = codes[c].kind /\ d.password = codes[c].password
        /\ d.redeemed = codes[c].redeemed
    BY CodeTypes DEF Code
  <1>3. codes' = [codes EXCEPT ![c] = d]
    BY CodeTypes DEF CodeAges, IndInv, CodesOK, Code
  <1>4. CodesOK' /\ CodesKept /\ RegisteredOnce'
    <2> HIDE DEF d
    <2>1. QED
      BY <1>1, <1>2, <1>3, OneCodeMoves
  <1>5. (requests \in [Workers -> Request] /\ RequestsOK)'
    BY <1>1, <1>4, RequestsSurvive DEF CodeAges, IndInv, RequestsOK
  <1>6. QED
    BY <1>1, <1>4, <1>5 DEF IndInv

LEMMA LoginCommitKeeps ==
  ASSUME IndInv, NEW w \in Workers, LoginCommit(w)
  PROVE  IndInv'
  <1> DEFINE r == requests[w]
  <1>1. r \in Request /\ RequestOK(r) /\ r.op = "login"
    BY DEF IndInv, RequestsOK, LoginCommit, Serving
  <1>2. PICK n \in Session : n = NewSession(r.user, 0, r.era) /\ n.parent = 0
    <2>1. NewSession(r.user, 0, r.era) \in Session /\ NewSession(r.user, 0, r.era).parent = 0
      BY <1>1 DEF NewSession, Session, Request, RequestOK
    <2>2. QED
      BY <2>1
  <1>3. SessionsOK' /\ SessionsKept
    <2>1. PICK S \in Seq(Session) : S = sessions
      BY DEF IndInv, SessionsOK
    <2>2. sessions' = Append(S, n)
      BY <1>2, <2>1 DEF LoginCommit
    <2>3. /\ Len(S) = Len(sessions)
          /\ \A s \in DOMAIN sessions : /\ S[s].parent = sessions[s].parent
                                        /\ sessions[s].is_revoked => S[s].is_revoked
      BY <2>1
    <2>4. QED
      BY <1>2, <2>2, <2>3, SessionAdded
  <1>4. AccountsOK' /\ AccountsKept
    <2>1. /\ resets' = resets /\ latest' = latest /\ overlapped' \in BOOLEAN
          /\ accounts \in [Users -> Account]
      BY DEF LoginCommit, history, Serving, IndInv, AccountsOK
    <2>2. CASE r.rehash
      <3>1. r.user \in Users /\ r.password \in Passwords
        BY <1>1, <2>2 DEF RequestOK
      <3>2. accounts' = [accounts EXCEPT ![r.user] = [password |-> r.password, legacy |-> FALSE]]
        BY <2>2 DEF LoginCommit
      <3>3. QED
        BY <2>1, <3>1, <3>2, ConstantsAssumption
           DEF AccountsOK, AccountsKept, Registered, Account, IndInv
    <2>3. CASE ~r.rehash
      <3>1. accounts' = accounts
        BY <2>3 DEF LoginCommit
      <3>2. QED
        BY <2>1, <3>1, SameAccounts
    <2>4. QED
      BY <2>2, <2>3
  <1>5. CodesOK' /\ CodesKept /\ RegisteredOnce'
    BY <1>4, SameCodes DEF LoginCommit
  <1>6. QED
    BY <1>3, <1>4, <1>5, FinishKeeps DEF LoginCommit

LEMMA RefreshCommitKeeps ==
  ASSUME IndInv, NEW w \in Workers, RefreshCommit(w)
  PROVE  IndInv'
  <1> DEFINE r == requests[w]
             S == [sessions EXCEPT ![r.session].is_revoked = TRUE]
             n == NewSession(r.user, r.session, sessions[r.session].era)
  <1>1. r \in Request /\ RequestOK(r) /\ r.op = "refresh"
    BY DEF IndInv, RequestsOK, RefreshCommit, Serving
  <1>2. /\ r.session \in DOMAIN sessions /\ sessions[r.session] \in Session
        /\ r.user \in Users /\ r.session \in Nat
    BY <1>1, SessionTypes DEF RequestOK, Request
  <1>3. n \in Session /\ n.parent = r.session
    BY <1>2 DEF NewSession, Session
  <1>4. /\ S \in Seq(Session) /\ Len(S) = Len(sessions) /\ S[r.session].is_revoked
        /\ \A s \in DOMAIN sessions : /\ S[s].parent = sessions[s].parent
                                      /\ sessions[s].is_revoked => S[s].is_revoked
    <2>1. [sessions[r.session] EXCEPT !.is_revoked = TRUE] \in Session
      BY <1>2 DEF Session
    <2>2. S = [sessions EXCEPT ![r.session] = [sessions[r.session] EXCEPT !.is_revoked = TRUE]]
      OBVIOUS
    <2>3. sessions \in Seq(Session)
      BY DEF IndInv, SessionsOK
    <2>4. QED
      BY <1>2, <2>1, <2>2, <2>3 DEF Session
  <1>5. SessionsOK' /\ SessionsKept
    <2>1. sessions' = Append(S, n)
      BY DEF RefreshCommit
    <2> HIDE DEF n, S
    <2>2. QED
      BY <1>2, <1>3, <1>4, <2>1, SessionAdded
  <1>6. AccountsOK' /\ AccountsKept
    BY SameAccounts DEF RefreshCommit, Serving, history, IndInv, AccountsOK
  <1>7. CodesOK' /\ CodesKept /\ RegisteredOnce'
    BY <1>6, SameCodes DEF RefreshCommit
  <1>8. QED
    BY <1>5, <1>6, <1>7, FinishKeeps DEF RefreshCommit

LEMMA ChangeCommitKeeps ==
  ASSUME IndInv, NEW w \in Workers, ChangeCommit(w)
  PROVE  IndInv'
  <1>1. requests[w].user \in Users /\ requests[w].password \in Passwords
    BY DEF IndInv, RequestsOK, RequestOK, ChangeCommit, Serving
  <1>2. AccountsOK' /\ AccountsKept
    BY <1>1, PasswordStored DEF ChangeCommit, Serving, IndInv, AccountsOK
  <1>3. CodesOK' /\ CodesKept /\ RegisteredOnce'
    BY <1>2, SameCodes DEF ChangeCommit
  <1>4. SessionsOK' /\ SessionsKept
    BY SameSessions DEF ChangeCommit
  <1>5. QED
    BY <1>2, <1>3, <1>4, FinishKeeps DEF ChangeCommit

LEMMA RevocationKeeps ==
  ASSUME IndInv, NEW S, Revoke(S), Statement
  PROVE  IndInv'
  <1>1. SessionsOK' /\ SessionsKept
    BY RevokeKeeps
  <1>2. AccountsOK' /\ AccountsKept
    BY SameAccounts DEF Statement, history, IndInv, AccountsOK
  <1>3. CodesOK' /\ CodesKept /\ RegisteredOnce'
    BY <1>2, SameCodes DEF Statement
  <1>4. (requests \in [Workers -> Request] /\ RequestsOK)'
    BY <1>1, <1>3, RequestsSurvive DEF Statement, IndInv, RequestsOK
  <1>5. QED
    BY <1>1, <1>2, <1>3, <1>4 DEF IndInv

\* Acceptance of a code: the ticket of a free phone, or a reset.
LEMMA CodeRedeemed ==
  ASSUME IndInv, AccountsKept, NEW c \in DOMAIN codes, NEW u \in Users, Redeem(c),
         codes[c].user = u, Registered(u)', codes[c].kind = "ticket" => ~Registered(u)
  PROVE  CodesOK' /\ CodesKept /\ RegisteredOnce'
  <1> DEFINE d == [codes[c] EXCEPT !.is_used = TRUE, !.redeemed = codes[c].redeemed + 1]
  <1>1. codes[c] \in Code /\ codes[c].redeemed \in Nat
    BY CodeTypes DEF Code
  <1>2. /\ d \in Code /\ d.is_used /\ d.user = codes[c].user /\ d.kind = codes[c].kind
        /\ d.password = codes[c].password /\ d.redeemed = codes[c].redeemed + 1
    <2>1. codes[c].redeemed + 1 \in Nat
      BY <1>1
    <2> DEFINE e == [codes[c] EXCEPT !.is_used = TRUE]
    <2>2. /\ e \in Code /\ e.is_used /\ e.user = codes[c].user /\ e.kind = codes[c].kind
          /\ e.password = codes[c].password
      BY <1>1 DEF Code
    <2>3. d = [e EXCEPT !.redeemed = codes[c].redeemed + 1]
      BY <1>1 DEF Code
    <2> HIDE DEF d, e
    <2>4. QED
      BY <2>1, <2>2, <2>3 DEF Code
  <1>3. codes' = [codes EXCEPT ![c] = d]
    BY <1>1 DEF Redeem, IndInv, CodesOK, Code
  <1> HIDE DEF d
  <1>4. /\ codes' \in Seq(Code) /\ DOMAIN codes' = DOMAIN codes
        /\ \A e \in DOMAIN codes : codes'[e] = IF e = c THEN d ELSE codes[e]
    BY <1>2, <1>3 DEF IndInv, CodesOK
  <1>5. CodesKept
    BY <1>2, <1>4 DEF CodesKept
  <1>6. CodesOK'
    BY <1>2, <1>4 DEF IndInv, CodesOK
  <1>7. \A e \in DOMAIN codes : codes[e].user \in Users /\ codes[e].redeemed \in Nat
    BY CodeTypes DEF Code
  <1>8. RegisteredOnce'
    <2>1. CASE codes[c].kind = "reset"
      BY <1>2, <1>4, <1>7, <2>1 DEF IndInv, RegisteredOnce, AccountsKept
    <2>2. CASE codes[c].kind = "ticket"
      <3>1. \A e \in DOMAIN codes :
                codes[e].kind = "ticket" /\ codes[e].user = codes[c].user => codes[e].redeemed = 0
        BY <1>7, <2>2 DEF IndInv, RegisteredOnce
      <3>2. d.redeemed = 1
        BY <1>2, <2>2, <3>1
      <3>3. QED
        BY <1>2, <1>4, <1>7, <2>2, <3>1, <3>2 DEF IndInv, RegisteredOnce, AccountsKept
    <2>3. QED
      BY <1>1, <2>1, <2>2 DEF Code, Kinds
  <1>9. QED
    BY <1>5, <1>6, <1>8

LEMMA RedeemTicketKeeps ==
  ASSUME IndInv, NEW w \in Workers, RedeemTicket(w)
  PROVE  IndInv'
  <1>1. PICK u \in Users, p \in Passwords, c \in DOMAIN codes, era \in Nat :
           /\ u = requests[w].user /\ p = requests[w].password /\ c = requests[w].code
           /\ codes[c].user = u /\ codes[c].kind = "ticket" /\ era = resets[u]
    BY DEF IndInv, RequestsOK, RequestOK, RedeemTicket, Serving, AccountsOK
  <1> DEFINE n == [Idle EXCEPT !.op = "login", !.user = u, !.era = era]
  <1>2. /\ SetPassword(u, p) /\ Redeem(c) /\ ~Registered(u)
        /\ sessions' = sessions /\ resets' = resets /\ overlapped' = overlapped
        /\ requests' = [requests EXCEPT ![w] = n]
    BY <1>1 DEF RedeemTicket, PhoneFree, Serving
  <1>3. AccountsOK' /\ AccountsKept /\ Registered(u)'
    BY <1>2, PasswordStored DEF IndInv, AccountsOK
  <1>4. CodesOK' /\ CodesKept /\ RegisteredOnce'
    BY <1>1, <1>2, <1>3, CodeRedeemed
  <1>5. SessionsOK' /\ SessionsKept
    BY <1>2, SameSessions
  <1>6. n \in Request
    BY ConstantsAssumption DEF Idle, Request, Kinds
  <1>7. RequestOK(n)'
    BY DEF RequestOK, Idle
  <1> HIDE DEF n
  <1>8. QED
    BY <1>2, <1>3, <1>4, <1>5, <1>6, <1>7, RequestsStep DEF IndInv

LEMMA RedeemResetKeeps ==
  ASSUME IndInv, NEW w \in Workers, RedeemReset(w)
  PROVE  IndInv'
  <1>1. PICK u \in Users, p \in Passwords, c \in DOMAIN codes :
           /\ u = requests[w].user /\ p = requests[w].password /\ c = requests[w].code
           /\ codes[c].user = u /\ codes[c].kind = "reset"
    BY DEF IndInv, RequestsOK, RequestOK, RedeemReset, Serving
  <1>2. /\ SetPassword(u, p) /\ Redeem(c) /\ Revoke(SessionsOf(u))
        /\ overlapped' = overlapped /\ Finish(w)
    BY <1>1 DEF RedeemReset, Serving
  <1>3. resets' \in [Users -> 0..MaxResets]
    <2>1. resets[u] \in 0..MaxResets /\ resets[u] < MaxResets
      BY <1>1 DEF RedeemReset, IndInv, AccountsOK
    <2>2. resets[u] + 1 \in 0..MaxResets
      BY <2>1, ConstantsAssumption
    <2>3. resets' = [resets EXCEPT ![u] = resets[u] + 1]
      BY <1>1 DEF RedeemReset
    <2>4. QED
      BY <2>2, <2>3 DEF IndInv, AccountsOK
  <1>4. AccountsOK' /\ AccountsKept /\ Registered(u)'
    BY <1>2, <1>3, PasswordStored DEF IndInv, AccountsOK
  <1>5. CodesOK' /\ CodesKept /\ RegisteredOnce'
    BY <1>1, <1>2, <1>4, CodeRedeemed
  <1>6. SessionsOK' /\ SessionsKept
    BY <1>2, RevokeKeeps
  <1>7. QED
    BY <1>2, <1>4, <1>5, <1>6, FinishKeeps

-------------------------------------------------------------------------------
(* The invariant and what follows from it.                                 *)

LEMMA InitInd == Init => IndInv
  <1> SUFFICES ASSUME Init PROVE IndInv
    OBVIOUS
  <1>1. AccountsOK
    <2>1. NoAccount \in Account
      BY DEF NoAccount, Account
    <2>2. ASSUME NEW a \in [password : Passwords, legacy : {TRUE}] PROVE a \in Account
      <3>1. a = [password |-> a.password, legacy |-> TRUE] /\ a.password \in Passwords
        OBVIOUS
      <3>2. [password |-> a.password, legacy |-> TRUE] \in Account
        BY <3>1 DEF Account
      <3>3. QED
        BY <3>1, <3>2, Zenon
    <2>3. accounts \in [Users -> Account]
      BY <2>1, <2>2 DEF Init
    <2>4. latest \in [Users -> Passwords \cup {None}]
      BY <2>3 DEF Init, Account
    <2>5. resets \in [Users -> 0..MaxResets]
      BY ConstantsAssumption DEF Init
    <2>6. overlapped \in BOOLEAN
      BY Zenon DEF Init
    <2>7. QED
      BY <2>3, <2>4, <2>5, <2>6 DEF AccountsOK
  <1>2. CodesOK /\ SessionsOK /\ RegisteredOnce
    BY DEF Init, CodesOK, SessionsOK, RotatedIsRevoked, RegisteredOnce
  <1>3. requests \in [Workers -> Request] /\ RequestsOK
    BY IdleIsRequest DEF Init, RequestsOK, RequestOK
  <1>4. QED
    BY <1>1, <1>2, <1>3 DEF IndInv

LEMMA StepKeepsInd == IndInv /\ [Next]_vars => IndInv'
  <1> SUFFICES ASSUME IndInv, [Next]_vars PROVE IndInv'
    OBVIOUS
  <1>1. ASSUME NEW w \in Workers, CodeStep(w) PROVE IndInv'
    BY <1>1, SendReadKeeps, VerifyReadKeeps, SendCommitKeeps, SmsAnswersKeeps,
       VoidCommitKeeps, WrongCommitKeeps, RedeemTicketKeeps, RedeemResetKeeps DEF CodeStep
  <1>2. ASSUME NEW w \in Workers, SessionStep(w) PROVE IndInv'
    BY <1>2, LoginReadKeeps, ChangeReadKeeps, RefreshReadKeeps, LoginCommitKeeps,
       RefreshCommitKeeps, ChangeCommitKeeps DEF SessionStep
  <1>3. ASSUME NEW s \in DOMAIN sessions, Logout(s) \/ LogoutOthers(s) PROVE IndInv'
    BY <1>3, RevocationKeeps DEF Logout, LogoutOthers
  <1>4. ASSUME NEW u \in Users, LogoutAll(u) PROVE IndInv'
    BY <1>4, RevocationKeeps DEF LogoutAll
  <1>5. CASE UNCHANGED vars
    <2>1. /\ codes' = codes /\ sessions' = sessions /\ accounts' = accounts
          /\ resets' = resets /\ latest' = latest /\ overlapped' \in BOOLEAN
          /\ requests' = requests
      BY <1>5 DEF vars, IndInv, AccountsOK
    <2>2. AccountsOK' /\ AccountsKept /\ SessionsOK' /\ SessionsKept
      BY <2>1, SameAccounts, SameSessions
    <2>3. CodesOK' /\ CodesKept /\ RegisteredOnce'
      BY <2>1, <2>2, SameCodes
    <2>4. QED
      BY <2>1, <2>2, <2>3, RequestsSurvive DEF IndInv, RequestsOK
  <1>6. QED
    BY <1>1, <1>2, <1>3, <1>4, <1>5, AbortKeeps, CodeAgesKeeps DEF Next

\* IndInv is an invariant: rows are well formed, and a request in flight still names
\* rows that are there and carries what its commit needs (auth/service.py).
THEOREM IndInvHolds == Spec => []IndInv
  BY InitInd, StepKeepsInd, PTL DEF Spec

\* Type correctness of accounts, codes, sessions and requests.
THEOREM TypeCorrect == Spec => []TypeOK
  <1>1. IndInv => TypeOK
    BY DEF IndInv, AccountsOK, CodesOK, SessionsOK, RequestsOK, RequestOK, TypeOK
  <1>2. QED
    BY <1>1, IndInvHolds, PTL

\* However requests overlap, a refresh token that was exchanged is void.
THEOREM RotationSafety == Spec => []RotatedIsRevoked
  <1>1. IndInv => RotatedIsRevoked
    BY DEF IndInv, SessionsOK
  <1>2. QED
    BY <1>1, IndInvHolds, PTL

\* However requests overlap, a phone is registered at most once, by one ticket.
THEOREM RegistrationSafety == Spec => []RegisteredOnce
  <1>1. IndInv => RegisteredOnce
    BY DEF IndInv
  <1>2. QED
    BY <1>1, IndInvHolds, PTL

-------------------------------------------------------------------------------
(* Requests one at a time.  What a request has read is still true when it   *)
(* commits; only codes age meanwhile.                                       *)

Alone == \A v, w \in Workers : requests[v].op # "idle" /\ requests[w].op # "idle" => v = w

Quiet == \A w \in Workers : requests[w].op = "idle"

Fresh(r) ==
    /\ r.op = "send" => \A c \in DOMAIN codes : codes[c].user = r.user /\ codes[c].kind = r.kind
                                                  /\ ~codes[c].is_used => c = r.code
    /\ r.op = "wrong" => r.attempts = codes[r.code].attempts /\ r.attempts < MAX_ATTEMPTS
    /\ r.op = "redeem" => ~codes[r.code].is_used
    /\ r.op = "login" => r.era = resets[r.user] /\ (r.rehash => r.password = latest[r.user])
    /\ r.op = "refresh" => /\ ~sessions[r.session].is_revoked
                           /\ sessions[r.session].user = r.user

Coherent == Alone /\ \A w \in Workers : Fresh(requests[w])

\* One open code per user and kind; its wrong answers are counted, its right one is last.
OneOpen == \A c, d \in DOMAIN codes :
    codes[c].user = codes[d].user /\ codes[c].kind = codes[d].kind
      /\ ~codes[c].is_used /\ ~codes[d].is_used => c = d

Counted(c) == /\ c.guesses = c.attempts /\ c.attempts <= MAX_ATTEMPTS
              /\ c.redeemed <= 1 /\ (~c.is_used => c.redeemed = 0)

CodeBooks == OneOpen /\ \A c \in DOMAIN codes : Counted(codes[c])

\* A session is exchanged once, and a live one is younger than the last reset.
SessionBooks ==
    /\ \A s, t \in DOMAIN sessions :
          sessions[s].parent = sessions[t].parent /\ sessions[s].parent # 0 => s = t
    /\ \A s \in DOMAIN sessions :
          ~sessions[s].is_revoked => sessions[s].era = resets[sessions[s].user]

PasswordBooks == \A u \in Users : accounts[u].password = latest[u]

Books == CodeBooks /\ SessionBooks /\ PasswordBooks

Serial == ~overlapped => Coherent /\ Books

LEMMA IdleFresh == Fresh(Idle) /\ Fresh(Idle)'
  BY DEF Fresh, Idle

\* A step of one request: the others are idle before and after it.
LEMMA OneRequestMoves ==
  ASSUME IndInv, Coherent, NEW w \in Workers, NEW r, requests[w].op # "idle" \/ Quiet,
         requests' = [requests EXCEPT ![w] = r], Fresh(requests[w])'
  PROVE  Coherent'
  <1>1. \A v \in Workers : v # w => requests'[v] = requests[v] /\ requests[v].op = "idle"
    BY DEF IndInv, Coherent, Alone, Quiet
  <1>2. Alone'
    BY <1>1 DEF Alone
  <1>3. QED
    BY <1>1, <1>2 DEF Coherent, Fresh

LEMMA EndsCoherent ==
  ASSUME IndInv, Coherent, NEW w \in Workers, requests[w].op # "idle", Finish(w)
  PROVE  Coherent'
  <1>1. requests'[w] = Idle
    BY DEF IndInv, Finish
  <1>2. Fresh(requests[w])'
    BY <1>1 DEF Fresh, Idle
  <1>3. QED
    BY <1>2, OneRequestMoves DEF Finish

\* A request that starts alone has read the tables as they are.
LEMMA BeginSerial ==
  ASSUME IndInv, Serial, NEW w \in Workers, NEW r, Begin(w, r),
         ~overlapped /\ Books => Fresh(r)
  PROVE  Serial'
  <1> SUFFICES ASSUME ~overlapped' PROVE Coherent' /\ Books'
    BY DEF Serial
  <1>1. /\ ~overlapped /\ Quiet /\ requests' = [requests EXCEPT ![w] = r]
        /\ accounts' = accounts /\ codes' = codes /\ sessions' = sessions
        /\ resets' = resets /\ latest' = latest
    BY DEF Begin, tables, history, Quiet
  <1>2. Coherent /\ Books
    BY <1>1 DEF Serial
  <1>3. Fresh(requests[w])'
    <2>1. requests'[w] = r /\ Fresh(r)
      BY <1>1, <1>2 DEF IndInv
    <2>2. QED
      BY <1>1, <2>1 DEF Fresh
  <1>4. Books'
    BY <1>1, <1>2 DEF Books, CodeBooks, OneOpen, Counted, SessionBooks, PasswordBooks
  <1>5. QED
    BY <1>1, <1>2, <1>3, <1>4, OneRequestMoves

LEMMA SendReadSerial ==
  ASSUME IndInv, Serial, NEW w \in Workers, NEW u \in Users, NEW k \in Kinds, SendRead(w, u, k)
  PROVE  Serial'
  <1>1. PICK p, c :
            /\ IF UnusedCodes(u, k) = {} THEN c = 0 ELSE NewestUnused(u, k, c)
            /\ Begin(w, [Idle EXCEPT !.op = "send", !.user = u, !.kind = k, !.code = c,
                                     !.password = p])
    BY DEF SendRead
  <1> DEFINE r == [Idle EXCEPT !.op = "send", !.user = u, !.kind = k, !.code = c,
                               !.password = p]
  <1>2. r.op = "send" /\ r.user = u /\ r.kind = k /\ r.code = c
    BY DEF Idle
  <1>3. ASSUME Books PROVE Fresh(r)
    <2>1. \A d \in DOMAIN codes : codes[d].user = u /\ codes[d].kind = k /\ ~codes[d].is_used
                                    => d = c
      BY <1>1, <1>3 DEF Books, CodeBooks, OneOpen, NewestUnused, UnusedCodes
    <2>2. QED
      BY <1>2, <2>1 DEF Fresh
  <1>4. QED
    BY <1>1, <1>3, BeginSerial

LEMMA VerifyReadSerial ==
  ASSUME IndInv, Serial, NEW w \in Workers, NEW u \in Users, NEW k \in Kinds,
         VerifyRead(w, u, k)
  PROVE  Serial'
  <1> DEFINE r(c, op, a, p) == [Idle EXCEPT !.op = op, !.user = u, !.kind = k, !.code = c,
                                            !.attempts = a, !.password = p]
  <1>0. PICK c \in UnusedCodes(u, k) : \E op \in Verdicts(codes[c]) :
          \E p \in IF k = "reset" /\ op = "redeem" THEN Passwords ELSE {codes[c].password} :
             Begin(w, r(c, op, IF op = "wrong" THEN codes[c].attempts ELSE 0, p))
    BY DEF VerifyRead
  <1>1. PICK op \in Verdicts(codes[c]) :
          \E p \in IF k = "reset" /\ op = "redeem" THEN Passwords ELSE {codes[c].password} :
             Begin(w, r(c, op, IF op = "wrong" THEN codes[c].attempts ELSE 0, p))
    BY <1>0
  <1>2. PICK a : a = IF op = "wrong" THEN codes[c].attempts ELSE 0
    OBVIOUS
  <1>3. PICK p : Begin(w, r(c, op, a, p))
    BY <1>1, <1>2
  <1>4. /\ r(c, op, a, p).op = op /\ r(c, op, a, p).code = c /\ r(c, op, a, p).attempts = a
    BY DEF Idle
  <1>5. /\ op \in {"void", "wrong", "redeem"} /\ ~codes[c].is_used
        /\ op = "wrong" => ~(codes[c].attempts >= MAX_ATTEMPTS)
    BY DEF Verdicts, UnusedCodes
  <1>6. op = "wrong" => a = codes[c].attempts /\ a < MAX_ATTEMPTS
    <2>1. codes[c].attempts \in Nat
      BY CodeTypes DEF UnusedCodes, Code
    <2>2. QED
      BY <1>2, <1>5, <2>1, ConstantsAssumption
  <1> HIDE DEF r
  <1>7. Fresh(r(c, op, a, p))
    BY <1>4, <1>5, <1>6 DEF Fresh
  <1>8. QED
    BY <1>3, <1>7, BeginSerial

LEMMA SessionReadsSerial ==
  ASSUME IndInv, Serial, NEW w \in Workers,
         \/ \E u \in Users : LoginRead(w, u) \/ ChangeRead(w, u)
         \/ \E s \in DOMAIN sessions : RefreshRead(w, s)
  PROVE  Serial'
  <1>1. ASSUME NEW u \in Users, LoginRead(w, u) PROVE Serial'
    <2> DEFINE r == [Idle EXCEPT !.op = "login", !.user = u, !.rehash = accounts[u].legacy,
                                 !.password = IF accounts[u].legacy THEN accounts[u].password
                                              ELSE None,
                                 !.era = resets[u]]
    <2>1. /\ r.op = "login" /\ r.user = u /\ r.era = resets[u]
          /\ r.rehash = accounts[u].legacy
          /\ r.password = IF accounts[u].legacy THEN accounts[u].password ELSE None
      BY DEF Idle
    <2>2. ASSUME Books PROVE Fresh(r)
      <3>1. accounts[u].password = latest[u]
        BY <2>2 DEF Books, PasswordBooks
      <3>2. r.rehash => r.password = latest[u]
        BY <2>1, <3>1
      <3> HIDE DEF r
      <3>3. QED
        BY <2>1, <3>2 DEF Fresh
    <2>3. QED
      BY <1>1, <2>2, BeginSerial DEF LoginRead
  <1>2. ASSUME NEW u \in Users, ChangeRead(w, u) PROVE Serial'
    <2>1. PICK p : Begin(w, [Idle EXCEPT !.op = "change", !.user = u, !.password = p])
      BY <1>2 DEF ChangeRead
    <2> DEFINE r == [Idle EXCEPT !.op = "change", !.user = u, !.password = p]
    <2>2. Fresh(r)
      BY DEF Fresh, Idle
    <2>3. QED
      BY <2>1, <2>2, BeginSerial
  <1>3. ASSUME NEW s \in DOMAIN sessions, RefreshRead(w, s) PROVE Serial'
    <2> DEFINE r == [Idle EXCEPT !.op = "refresh", !.user = sessions[s].user, !.session = s]
    <2>1. r.op = "refresh" /\ r.user = sessions[s].user /\ r.session = s
      BY DEF Idle
    <2>2. Fresh(r)
      BY <1>3, <2>1 DEF RefreshRead, Fresh
    <2>3. QED
      BY <1>3, <2>2, BeginSerial DEF RefreshRead
  <1>4. QED
    BY <1>1, <1>2, <1>3

-------------------------------------------------------------------------------
(* The tables, one at a time.                                               *)

\* One code changes and does not come back into use.
LEMMA CodeMovesBooks ==
  ASSUME IndInv, CodeBooks, NEW c \in DOMAIN codes, NEW d,
         codes' = [codes EXCEPT ![c] = d], d.user = codes[c].user, d.kind = codes[c].kind,
         codes[c].is_used => d.is_used, Counted(d)
  PROVE  CodeBooks'
  <1>1. /\ DOMAIN codes' = DOMAIN codes
        /\ \A e \in DOMAIN codes : codes'[e] = IF e = c THEN d ELSE codes[e]
    BY DEF IndInv, CodesOK
  <1>2. \A e \in DOMAIN codes : /\ codes'[e].user = codes[e].user
                                /\ codes'[e].kind = codes[e].kind
                                /\ codes[e].is_used => codes'[e].is_used
    BY <1>1
  <1>3. OneOpen'
    BY <1>1, <1>2 DEF CodeBooks, OneOpen
  <1>4. \A e \in DOMAIN codes' : Counted(codes'[e])
    BY <1>1 DEF CodeBooks
  <1>5. QED
    BY <1>3, <1>4 DEF CodeBooks, Counted

LEMMA CodeVoidedBooks ==
  ASSUME IndInv, CodeBooks, NEW c \in DOMAIN codes,
         codes' = [codes EXCEPT ![c].is_used = TRUE]
  PROVE  CodeBooks'
  <1>1. PICK k \in Code : k = codes[c]
    BY CodeTypes
  <1>2. PICK d : d = [k EXCEPT !.is_used = TRUE]
    OBVIOUS
  <1>3. /\ d.user = k.user /\ d.kind = k.kind /\ d.is_used /\ d.guesses = k.guesses
        /\ d.attempts = k.attempts /\ d.redeemed = k.redeemed
    BY <1>2 DEF Code
  <1>4. Counted(d)
    BY <1>1, <1>3 DEF CodeBooks, Counted
  <1>5. codes' = [codes EXCEPT ![c] = d]
    BY <1>1, <1>2
  <1>6. QED
    BY <1>1, <1>3, <1>4, <1>5, CodeMovesBooks

\* The new code is the only open one when the last one, if any, is voided with it.
LEMMA CodeAddedBooks ==
  ASSUME IndInv, CodeBooks, NEW c, NEW d \in Code,
         codes' = Append(LastVoided(c), d), Counted(d),
         \A e \in DOMAIN codes : codes[e].user = d.user /\ codes[e].kind = d.kind
                                   /\ ~codes[e].is_used => e = c
  PROVE  CodeBooks'
  <1>1. /\ DOMAIN codes = 1..Len(codes) /\ Len(codes) \in Nat
        /\ \A e \in DOMAIN codes : codes[e] \in Code
    BY DEF IndInv, CodesOK
  <1> DEFINE last == LastVoided(c)
  <1>2. /\ DOMAIN last = DOMAIN codes
        /\ \A e \in DOMAIN codes :
              last[e] = IF e = c THEN [codes[e] EXCEPT !.is_used = TRUE] ELSE codes[e]
    BY DEF LastVoided
  <1>3. \A e \in DOMAIN codes :
            /\ last[e] \in Code
            /\ last[e].user = codes[e].user /\ last[e].kind = codes[e].kind
            /\ codes[e].is_used => last[e].is_used
            /\ e = c => last[e].is_used
            /\ Counted(last[e])
    <2> SUFFICES ASSUME NEW e \in DOMAIN codes
                 PROVE  /\ last[e] \in Code
                        /\ last[e].user = codes[e].user /\ last[e].kind = codes[e].kind
                        /\ codes[e].is_used => last[e].is_used
                        /\ e = c => last[e].is_used
                        /\ Counted(last[e])
      OBVIOUS
    <2>1. CASE e = c
      <3>1. PICK k \in Code : k = codes[e]
        BY <1>1
      <3>2. last[e] = [k EXCEPT !.is_used = TRUE] /\ Counted(k)
        BY <1>2, <2>1, <3>1 DEF CodeBooks
      <3> HIDE DEF last
      <3>3. /\ last[e] \in Code /\ last[e].is_used /\ last[e].user = k.user
            /\ last[e].kind = k.kind /\ last[e].guesses = k.guesses
            /\ last[e].attempts = k.attempts /\ last[e].redeemed = k.redeemed
        BY <3>2 DEF Code
      <3>4. QED
        BY <3>1, <3>2, <3>3 DEF Counted
    <2>2. CASE e # c
      <3>1. last[e] = codes[e]
        BY <1>2, <2>2
      <3>2. QED
        BY <1>1, <2>2, <3>1 DEF CodeBooks
    <2>3. QED
      BY <2>1, <2>2
  <1>4. last \in Seq(Code) /\ Len(last) = Len(codes)
    BY <1>1, <1>2, <1>3 DEF LastVoided
  <1>5. codes' = Append(last, d)
    OBVIOUS
  <1> HIDE DEF last
  <1>6. /\ DOMAIN codes' = DOMAIN codes \cup {Len(codes) + 1}
        /\ codes'[Len(codes) + 1] = d
        /\ \A e \in DOMAIN codes : codes'[e] = last[e]
    BY <1>1, <1>4, <1>5
  <1>7. \A e \in DOMAIN codes : codes'[e].user = d.user /\ codes'[e].kind = d.kind
                                  => codes'[e].is_used
    BY <1>3, <1>6
  <1>8. OneOpen'
    <2> SUFFICES ASSUME NEW e \in DOMAIN codes', NEW f \in DOMAIN codes',
                        codes'[e].user = codes'[f].user, codes'[e].kind = codes'[f].kind,
                        ~codes'[e].is_used, ~codes'[f].is_used
                 PROVE  e = f
      BY DEF OneOpen
    <2>1. CASE e \in DOMAIN codes /\ f \in DOMAIN codes
      BY <1>3, <1>6, <2>1 DEF CodeBooks, OneOpen
    <2>2. CASE e = Len(codes) + 1 \/ f = Len(codes) + 1
      BY <1>6, <1>7, <2>2
    <2>3. QED
      BY <1>6, <2>1, <2>2
  <1>9. \A e \in DOMAIN codes' : Counted(codes'[e])
    BY <1>3, <1>6
  <1>10. QED
    BY <1>8, <1>9 DEF CodeBooks, Counted

LEMMA RevokedBooks ==
  ASSUME IndInv, SessionBooks, NEW S, Revoke(S), resets' = resets
  PROVE  SessionBooks'
  <1>1. /\ DOMAIN sessions' = DOMAIN sessions
        /\ \A s \in DOMAIN sessions : sessions'[s] =
               IF s \in S THEN [sessions[s] EXCEPT !.is_revoked = TRUE] ELSE sessions[s]
    BY DEF Revoke
  <1>2. \A s \in DOMAIN sessions :
            /\ sessions'[s].parent = sessions[s].parent /\ sessions'[s].era = sessions[s].era
            /\ sessions'[s].user = sessions[s].user
            /\ sessions[s].is_revoked => sessions'[s].is_revoked
    BY <1>1, SessionTypes DEF Session
  <1>3. QED
    BY <1>1, <1>2 DEF SessionBooks

\* A session is added: with no predecessor, or with one that had no successor.
LEMMA SessionAddedBooks ==
  ASSUME IndInv, SessionBooks, NEW S \in Seq(Session), NEW n \in Session,
         sessions' = Append(S, n), Len(S) = Len(sessions), resets' = resets,
         \A s \in DOMAIN sessions : /\ S[s].parent = sessions[s].parent
                                    /\ S[s].user = sessions[s].user
                                    /\ S[s].era = sessions[s].era
                                    /\ sessions[s].is_revoked => S[s].is_revoked,
         \A s \in DOMAIN sessions : n.parent # 0 => sessions[s].parent # n.parent,
         n.era = resets[n.user]
  PROVE  SessionBooks'
  <1>1. /\ DOMAIN sessions = 1..Len(sessions) /\ Len(sessions) \in Nat
        /\ DOMAIN S = DOMAIN sessions
    BY DEF IndInv, SessionsOK
  <1>2. /\ DOMAIN sessions' = DOMAIN sessions \cup {Len(sessions) + 1}
        /\ sessions'[Len(sessions) + 1] = n
        /\ \A s \in DOMAIN sessions : sessions'[s] = S[s]
    BY <1>1
  <1>3. \A s, t \in DOMAIN sessions' :
          sessions'[s].parent = sessions'[t].parent /\ sessions'[s].parent # 0 => s = t
    <2> SUFFICES ASSUME NEW s \in DOMAIN sessions', NEW t \in DOMAIN sessions',
                        sessions'[s].parent = sessions'[t].parent, sessions'[s].parent # 0
                 PROVE  s = t
      OBVIOUS
    <2>1. CASE s \in DOMAIN sessions /\ t \in DOMAIN sessions
      BY <1>2, <2>1 DEF SessionBooks
    <2>2. CASE s = Len(sessions) + 1 \/ t = Len(sessions) + 1
      BY <1>2, <2>2
    <2>3. QED
      BY <1>2, <2>1, <2>2
  <1>4. \A s \in DOMAIN sessions' :
          ~sessions'[s].is_revoked => sessions'[s].era = resets'[sessions'[s].user]
    BY <1>2 DEF SessionBooks
  <1>5. QED
    BY <1>3, <1>4 DEF SessionBooks

-------------------------------------------------------------------------------
(* The commits.                                                             *)

\* What a commit knows when nothing has overlapped.
LEMMA CommitKnows ==
  ASSUME IndInv, Serial, ~overlapped, NEW w \in Workers
  PROVE  /\ Coherent /\ CodeBooks /\ SessionBooks /\ PasswordBooks
         /\ requests[w] \in Request /\ RequestOK(requests[w]) /\ Fresh(requests[w])
  BY DEF Serial, Coherent, Books, IndInv, RequestsOK

LEMMA SessionsUntouched ==
  ASSUME SessionBooks, sessions' = sessions, resets' = resets PROVE SessionBooks'
  BY DEF SessionBooks

LEMMA PasswordsUntouched ==
  ASSUME PasswordBooks, accounts' = accounts, latest' = latest PROVE PasswordBooks'
  BY DEF PasswordBooks

LEMMA PasswordSetBooks ==
  ASSUME IndInv, PasswordBooks, NEW u \in Users, NEW p \in Passwords, SetPassword(u, p)
  PROVE  PasswordBooks'
  BY DEF IndInv, AccountsOK, PasswordBooks, SetPassword

LEMMA SendCommitSerial ==
  ASSUME IndInv, Serial, NEW w \in Workers, SendCommit(w)
  PROVE  Serial'
  <1> SUFFICES ASSUME ~overlapped' PROVE Coherent' /\ Books'
    BY DEF Serial
  <1>0. ~overlapped
    BY DEF SendCommit, Serving
  <1>1. /\ Coherent /\ CodeBooks /\ SessionBooks /\ PasswordBooks
        /\ requests[w] \in Request /\ RequestOK(requests[w]) /\ Fresh(requests[w])
        /\ requests[w].op = "send"
    BY <1>0, CommitKnows DEF SendCommit, Serving
  <1>2. PICK r \in Request : r = requests[w]
    BY <1>1
  <1>3. PICK d : d = NewCode(r)
    OBVIOUS
  <1>4. /\ d.user = r.user /\ d.kind = r.kind
        /\ d.guesses = 0 /\ d.attempts = 0 /\ d.redeemed = 0 /\ ~d.is_used
    BY <1>3 DEF NewCode
  <1>5. d \in Code
    BY <1>1, <1>2, <1>3 DEF NewCode, Code, Request, RequestOK
  <1>6. Counted(d)
    BY <1>4, ConstantsAssumption DEF Counted
  <1>7. codes' = Append(LastVoided(r.code), d)
    BY <1>2, <1>3 DEF SendCommit
  <1>8. \A e \in DOMAIN codes : codes[e].user = d.user /\ codes[e].kind = d.kind
                                  /\ ~codes[e].is_used => e = r.code
    BY <1>1, <1>2, <1>4 DEF Fresh
  <1>9. CodeBooks'
    BY <1>1, <1>5, <1>6, <1>7, <1>8, CodeAddedBooks
  <1>10. SessionBooks' /\ PasswordBooks'
    BY <1>1, SessionsUntouched, PasswordsUntouched DEF SendCommit, history
  <1>11. Coherent'
    <2>1. PICK n : n = [Idle EXCEPT !.op = "sms", !.user = requests[w].user, !.code = Len(codes')]
      OBVIOUS
    <2>2. n.op = "sms"
      BY <2>1 DEF Idle
    <2>3. requests' = [requests EXCEPT ![w] = n]
      BY <2>1 DEF SendCommit, AwaitSms
    <2>4. requests'[w] = n
      BY <2>3 DEF IndInv
    <2>5. Fresh(requests[w])'
      BY <2>2, <2>4 DEF Fresh
    <2>6. QED
      BY <1>1, <2>3, <2>5, OneRequestMoves
  <1>12. QED
    BY <1>9, <1>10, <1>11 DEF Books

\* A commit that touches the codes only and ends its request.
LEMMA CodeCommitSerial ==
  ASSUME IndInv, Serial, NEW w \in Workers, requests[w].op # "idle", Finish(w),
         UNCHANGED <<accounts, sessions, history, overlapped>>,
         ~overlapped => CodeBooks'
  PROVE  Serial'
  <1> SUFFICES ASSUME ~overlapped' PROVE Coherent' /\ Books'
    BY DEF Serial
  <1>1. ~overlapped /\ Coherent /\ SessionBooks /\ PasswordBooks
    BY CommitKnows
  <1>2. SessionBooks' /\ PasswordBooks'
    BY <1>1, SessionsUntouched, PasswordsUntouched DEF history
  <1>3. QED
    BY <1>1, <1>2, EndsCoherent DEF Books

LEMMA VoidSerial ==
  ASSUME IndInv, Serial, NEW w \in Workers, VoidCommit(w) \/ SmsAnswers(w)
  PROVE  Serial'
  <1>1. /\ requests[w].op \in {"void", "sms"} /\ Finish(w)
        /\ UNCHANGED <<accounts, sessions, history, overlapped>>
        /\ \/ codes' = codes
           \/ codes' = [codes EXCEPT ![requests[w].code].is_used = TRUE]
    BY DEF VoidCommit, SmsAnswers, Serving
  <1>2. requests[w].code \in DOMAIN codes
    BY <1>1, CodeOfRequest
  <1>3. ~overlapped => CodeBooks'
    <2>1. CASE codes' = codes
      BY <2>1, CommitKnows DEF CodeBooks, OneOpen, Counted
    <2>2. CASE codes' = [codes EXCEPT ![requests[w].code].is_used = TRUE]
      BY <1>2, <2>2, CommitKnows, CodeVoidedBooks
    <2>3. QED
      BY <1>1, <2>1, <2>2
  <1>4. QED
    BY <1>1, <1>3, CodeCommitSerial

LEMMA WrongSerial ==
  ASSUME IndInv, Serial, NEW w \in Workers, WrongCommit(w)
  PROVE  Serial'
  <1>1. requests[w].op = "wrong" /\ requests[w].code \in DOMAIN codes
    BY CodeOfRequest DEF WrongCommit, Serving
  <1>2. PICK c \in DOMAIN codes : c = requests[w].code
    BY <1>1
  <1>3. PICK k \in Code : k = codes[c]
    BY CodeTypes
  <1>4. ASSUME ~overlapped PROVE CodeBooks'
    <2>1. CodeBooks /\ Fresh(requests[w])
      BY <1>4, CommitKnows
    <2>2. requests[w].attempts = k.attempts /\ k.attempts < MAX_ATTEMPTS
      BY <1>1, <1>2, <1>3, <2>1 DEF Fresh
    <2>3. k.attempts \in Nat /\ k.guesses \in Nat
      BY DEF Code
    <2>4. PICK a \in Nat : a = k.attempts + 1
      BY <2>3
    <2>5. PICK g \in Nat : g = k.guesses + 1
      BY <2>3
    <2>6. PICK d : d = [k EXCEPT !.attempts = a, !.guesses = g]
      OBVIOUS
    <2>7. /\ d.user = k.user /\ d.kind = k.kind /\ d.is_used = k.is_used
          /\ d.attempts = a /\ d.guesses = g /\ d.redeemed = k.redeemed
      BY <2>6 DEF Code
    <2>8. codes' = [codes EXCEPT ![c] = d]
      <3>1. codes' = [codes EXCEPT ![c] = [codes[c] EXCEPT !.attempts = requests[w].attempts + 1,
                                                         !.guesses = codes[c].guesses + 1]]
        BY <1>2, <1>3 DEF WrongCommit, IndInv, CodesOK, Code
      <3>2. QED
        BY <1>3, <2>2, <2>4, <2>5, <2>6, <3>1
    <2>9. Counted(k)
      BY <1>3, <2>1 DEF CodeBooks
    <2>10. Counted(d)
      BY <2>2, <2>3, <2>4, <2>5, <2>7, <2>9, ConstantsAssumption DEF Counted
    <2>11. QED
      BY <1>3, <2>1, <2>7, <2>8, <2>10, CodeMovesBooks
  <1>5. QED
    BY <1>1, <1>4, CodeCommitSerial DEF WrongCommit, Serving

\* A code that is accepted was open, so it is accepted for the first time.
LEMMA RedeemBooks ==
  ASSUME IndInv, CodeBooks, NEW c \in DOMAIN codes, ~codes[c].is_used, Redeem(c)
  PROVE  CodeBooks'
  <1>1. PICK k \in Code : k = codes[c]
    BY CodeTypes
  <1>2. k.redeemed = 0 /\ Counted(k)
    BY <1>1 DEF CodeBooks, Counted
  <1>3. PICK d : d = [k EXCEPT !.is_used = TRUE, !.redeemed = 1]
    OBVIOUS
  <1>4. /\ d.user = k.user /\ d.kind = k.kind /\ d.is_used /\ d.attempts = k.attempts
        /\ d.guesses = k.guesses /\ d.redeemed = 1
    BY <1>3 DEF Code
  <1>5. codes' = [codes EXCEPT ![c] = d]
    <2>1. codes' = [codes EXCEPT ![c] = [codes[c] EXCEPT !.is_used = TRUE,
                                                       !.redeemed = codes[c].redeemed + 1]]
      BY DEF Redeem, IndInv, CodesOK, Code
    <2>2. codes[c].redeemed + 1 = 1
      BY <1>1, <1>2
    <2>3. QED
      BY <1>1, <1>3, <2>1, <2>2
  <1>6. Counted(d)
    BY <1>2, <1>4 DEF Counted
  <1>7. QED
    BY <1>1, <1>4, <1>5, <1>6, CodeMovesBooks

LEMMA RedeemTicketSerial ==
  ASSUME IndInv, Serial, NEW w \in Workers, RedeemTicket(w)
  PROVE  Serial'
  <1> SUFFICES ASSUME ~overlapped' PROVE Coherent' /\ Books'
    BY DEF Serial
  <1>0. ~overlapped
    BY DEF RedeemTicket, Serving
  <1>1. /\ Coherent /\ CodeBooks /\ SessionBooks /\ PasswordBooks
        /\ RequestOK(requests[w]) /\ Fresh(requests[w]) /\ requests[w].op = "redeem"
    BY <1>0, CommitKnows DEF RedeemTicket, Serving
  <1>2. PICK u \in Users, p \in Passwords, c \in DOMAIN codes :
           u = requests[w].user /\ p = requests[w].password /\ c = requests[w].code
    BY <1>1 DEF RequestOK
  <1>3. PICK era : era = resets[u]
    OBVIOUS
  <1>4. /\ SetPassword(u, p) /\ Redeem(c) /\ sessions' = sessions /\ resets' = resets
        /\ requests' = [requests EXCEPT ![w] = [Idle EXCEPT !.op = "login", !.user = u,
                                                            !.era = era]]
    BY <1>2, <1>3 DEF RedeemTicket
  <1>5. ~codes[c].is_used
    BY <1>1, <1>2 DEF Fresh
  <1>6. Books'
    BY <1>1, <1>4, <1>5, RedeemBooks, PasswordSetBooks, SessionsUntouched DEF Books
  <1>7. PICK n : n = [Idle EXCEPT !.op = "login", !.user = u, !.era = era]
    OBVIOUS
  <1>8. n.op = "login" /\ n.user = u /\ n.era = era /\ ~n.rehash
    BY <1>7 DEF Idle
  <1>9. requests' = [requests EXCEPT ![w] = n] /\ requests'[w] = n
    BY <1>4, <1>7 DEF IndInv
  <1>10. Fresh(requests[w])'
    BY <1>3, <1>4, <1>8, <1>9 DEF Fresh
  <1>11. Coherent'
    BY <1>1, <1>9, <1>10, OneRequestMoves
  <1>12. QED
    BY <1>6, <1>11

LEMMA RedeemResetSerial ==
  ASSUME IndInv, Serial, NEW w \in Workers, RedeemReset(w)
  PROVE  Serial'
  <1> SUFFICES ASSUME ~overlapped' PROVE Coherent' /\ Books'
    BY DEF Serial
  <1>0. ~overlapped
    BY DEF RedeemReset, Serving
  <1>1. /\ Coherent /\ CodeBooks /\ SessionBooks /\ PasswordBooks
        /\ RequestOK(requests[w]) /\ Fresh(requests[w]) /\ requests[w].op = "redeem"
        /\ Finish(w)
    BY <1>0, CommitKnows DEF RedeemReset, Serving
  <1>2. PICK u \in Users, p \in Passwords, c \in DOMAIN codes :
           u = requests[w].user /\ p = requests[w].password /\ c = requests[w].code
    BY <1>1 DEF RequestOK
  <1>3. /\ SetPassword(u, p) /\ Redeem(c) /\ Revoke(SessionsOf(u))
        /\ \A x \in Users : x # u => resets'[x] = resets[x]
    BY <1>2 DEF RedeemReset, IndInv, AccountsOK
  <1>4. ~codes[c].is_used
    BY <1>1, <1>2 DEF Fresh
  <1>5. CodeBooks' /\ PasswordBooks'
    BY <1>1, <1>3, <1>4, RedeemBooks, PasswordSetBooks
  <1>6. /\ DOMAIN sessions' = DOMAIN sessions
        /\ \A s \in DOMAIN sessions :
              /\ sessions'[s].parent = sessions[s].parent
              /\ sessions'[s].user = sessions[s].user /\ sessions[s].user \in Users
              /\ IF sessions[s].user = u THEN sessions'[s].is_revoked
                 ELSE sessions'[s] = sessions[s]
    BY <1>3, SessionTypes DEF Revoke, SessionsOf, Session
  <1>7. SessionBooks'
    BY <1>1, <1>3, <1>6 DEF SessionBooks
  <1>8. Coherent'
    BY <1>1, EndsCoherent
  <1>9. QED
    BY <1>5, <1>7, <1>8 DEF Books

LEMMA LoginSerial ==
  ASSUME IndInv, Serial, NEW w \in Workers, LoginCommit(w)
  PROVE  Serial'
  <1> SUFFICES ASSUME ~overlapped' PROVE Coherent' /\ Books'
    BY DEF Serial
  <1>0. ~overlapped
    BY DEF LoginCommit, Serving
  <1> DEFINE r == requests[w]
  <1>1. /\ Coherent /\ CodeBooks /\ SessionBooks /\ PasswordBooks
        /\ r \in Request /\ RequestOK(r) /\ Fresh(r) /\ r.op = "login"
        /\ Finish(w) /\ codes' = codes /\ resets' = resets /\ latest' = latest
    BY <1>0, CommitKnows DEF LoginCommit, Serving, history
  <1>2. r.user \in Users /\ r.era = resets[r.user]
        /\ (r.rehash => r.password = latest[r.user])
    BY <1>1 DEF RequestOK, Fresh
  <1>3. CodeBooks'
    BY <1>1 DEF CodeBooks, OneOpen, Counted
  <1>4. SessionBooks'
    <2>1. PICK n \in Session : n = NewSession(r.user, 0, r.era)
      BY <1>1, <1>2 DEF NewSession, Session, Request
    <2>2. n.parent = 0 /\ n.user = r.user /\ n.era = r.era
      BY <2>1 DEF NewSession
    <2>3. PICK S \in Seq(Session) : S = sessions
      BY DEF IndInv, SessionsOK
    <2>4. sessions' = Append(S, n)
      BY <2>1, <2>3 DEF LoginCommit
    <2>5. /\ Len(S) = Len(sessions)
          /\ \A s \in DOMAIN sessions : /\ S[s].parent = sessions[s].parent
                                        /\ S[s].user = sessions[s].user
                                        /\ S[s].era = sessions[s].era
                                        /\ sessions[s].is_revoked => S[s].is_revoked
      BY <2>3
    <2>6. n.era = resets[n.user]
      BY <1>2, <2>2
    <2>7. QED
      BY <1>1, <2>2, <2>4, <2>5, <2>6, SessionAddedBooks
  <1>5. PasswordBooks'
    <2>1. CASE ~r.rehash
      BY <1>1, <2>1, PasswordsUntouched DEF LoginCommit
    <2>2. CASE r.rehash
      <3>1. accounts' = [accounts EXCEPT ![r.user] = [password |-> r.password, legacy |-> FALSE]]
        BY <2>2 DEF LoginCommit
      <3>2. QED
        BY <1>1, <1>2, <2>2, <3>1 DEF PasswordBooks, IndInv, AccountsOK
    <2>3. QED
      BY <2>1, <2>2
  <1>6. Coherent'
    BY <1>1, EndsCoherent
  <1>7. QED
    BY <1>3, <1>4, <1>5, <1>6 DEF Books

\* The session that is refreshed is live, so it was never refreshed before.
LEMMA RefreshSerial ==
  ASSUME IndInv, Serial, NEW w \in Workers, RefreshCommit(w)
  PROVE  Serial'
  <1> SUFFICES ASSUME ~overlapped' PROVE Coherent' /\ Books'
    BY DEF Serial
  <1>0. ~overlapped
    BY DEF RefreshCommit, Serving
  <1>1. /\ Coherent /\ CodeBooks /\ SessionBooks /\ PasswordBooks
        /\ requests[w] \in Request /\ RequestOK(requests[w]) /\ Fresh(requests[w])
        /\ requests[w].op = "refresh" /\ Finish(w)
        /\ accounts' = accounts /\ codes' = codes /\ resets' = resets /\ latest' = latest
    BY <1>0, CommitKnows DEF RefreshCommit, Serving, history
  <1>2. PICK o \in DOMAIN sessions : o = requests[w].session
    BY <1>1 DEF RequestOK
  <1>3. PICK old \in Session : old = sessions[o]
    BY SessionTypes
  <1>4. ~old.is_revoked /\ requests[w].user = old.user
    BY <1>1, <1>2, <1>3 DEF Fresh
  <1>5. old.era = resets[old.user]
    BY <1>1, <1>3, <1>4 DEF SessionBooks
  <1>6. PICK n : n = NewSession(old.user, o, old.era)
    OBVIOUS
  <1>7. n \in Session /\ n.parent = o /\ n.user = old.user /\ n.era = old.era
    <2>1. o \in Nat
      BY DEF IndInv, SessionsOK
    <2>2. QED
      BY <1>6, <2>1 DEF NewSession, Session
  <1>8. \A s \in DOMAIN sessions : sessions[s].parent # o
    <2> SUFFICES ASSUME NEW s \in DOMAIN sessions, sessions[s].parent = o PROVE FALSE
      OBVIOUS
    <2>1. o # 0
      BY DEF IndInv, SessionsOK
    <2>2. QED
      BY <1>3, <1>4, <2>1 DEF IndInv, SessionsOK, RotatedIsRevoked
  <1>9. PICK dead : dead = [old EXCEPT !.is_revoked = TRUE]
    OBVIOUS
  <1>10. /\ dead \in Session /\ dead.is_revoked /\ dead.parent = old.parent
         /\ dead.user = old.user /\ dead.era = old.era
    BY <1>9 DEF Session
  <1>11. sessions' = Append([sessions EXCEPT ![o] = dead], n)
    BY <1>2, <1>3, <1>4, <1>6, <1>9 DEF RefreshCommit
  <1>12. PICK S \in Seq(Session) : S = [sessions EXCEPT ![o] = dead]
    <2>1. sessions \in Seq(Session) /\ o \in DOMAIN sessions /\ dead \in Session
      BY <1>10 DEF IndInv, SessionsOK
    <2>2. [sessions EXCEPT ![o] = dead] \in Seq(Session)
      BY <2>1
    <2>3. QED
      BY <2>2
  <1>13. /\ Len(S) = Len(sessions)
         /\ \A s \in DOMAIN sessions : S[s] = IF s = o THEN dead ELSE sessions[s]
    BY <1>12 DEF IndInv, SessionsOK
  <1>14. SessionBooks'
    <2>1. sessions' = Append(S, n)
      BY <1>11, <1>12
    <2>2. \A s \in DOMAIN sessions : /\ S[s].parent = sessions[s].parent
                                     /\ S[s].user = sessions[s].user
                                     /\ S[s].era = sessions[s].era
                                     /\ sessions[s].is_revoked => S[s].is_revoked
      BY <1>3, <1>10, <1>13
    <2>3. n.era = resets[n.user] /\ \A s \in DOMAIN sessions : sessions[s].parent # n.parent
      BY <1>5, <1>7, <1>8
    <2>4. QED
      BY <1>1, <1>7, <1>13, <2>1, <2>2, <2>3, SessionAddedBooks
  <1>15. CodeBooks' /\ PasswordBooks'
    BY <1>1, PasswordsUntouched DEF CodeBooks, OneOpen, Counted
  <1>16. Coherent'
    BY <1>1, EndsCoherent
  <1>17. QED
    BY <1>14, <1>15, <1>16 DEF Books

LEMMA ChangeSerial ==
  ASSUME IndInv, Serial, NEW w \in Workers, ChangeCommit(w)
  PROVE  Serial'
  <1> SUFFICES ASSUME ~overlapped' PROVE Coherent' /\ Books'
    BY DEF Serial
  <1>0. ~overlapped
    BY DEF ChangeCommit, Serving
  <1>1. /\ Coherent /\ CodeBooks /\ SessionBooks /\ PasswordBooks
        /\ RequestOK(requests[w]) /\ requests[w].op = "change" /\ Finish(w)
        /\ codes' = codes /\ sessions' = sessions /\ resets' = resets
        /\ SetPassword(requests[w].user, requests[w].password)
    BY <1>0, CommitKnows DEF ChangeCommit, Serving
  <1>2. requests[w].user \in Users /\ requests[w].password \in Passwords
    BY <1>1 DEF RequestOK
  <1>3. CodeBooks' /\ SessionBooks' /\ PasswordBooks'
    BY <1>1, <1>2, PasswordSetBooks, SessionsUntouched DEF CodeBooks, OneOpen, Counted
  <1>4. QED
    BY <1>1, <1>3, EndsCoherent DEF Books

LEMMA AbortSerial ==
  ASSUME IndInv, Serial, NEW w \in Workers, Abort(w)
  PROVE  Serial'
  <1> SUFFICES ASSUME ~overlapped' PROVE Coherent' /\ Books'
    BY DEF Serial
  <1>1. /\ ~overlapped /\ requests[w].op # "idle" /\ Finish(w)
        /\ accounts' = accounts /\ codes' = codes /\ sessions' = sessions
        /\ resets' = resets /\ latest' = latest
    BY DEF Abort, tables, history
  <1>2. Coherent /\ Books
    BY <1>1 DEF Serial
  <1>3. Books'
    BY <1>1, <1>2 DEF Books, CodeBooks, OneOpen, Counted, SessionBooks, PasswordBooks
  <1>4. QED
    BY <1>1, <1>2, <1>3, EndsCoherent

\* A statement that runs alone.
LEMMA RevocationSerial ==
  ASSUME IndInv, Serial, NEW S, Revoke(S), Statement
  PROVE  Serial'
  <1> SUFFICES ASSUME ~overlapped' PROVE Coherent' /\ Books'
    BY DEF Serial
  <1>1. /\ ~overlapped /\ Quiet /\ requests' = requests /\ accounts' = accounts
        /\ codes' = codes /\ resets' = resets /\ latest' = latest
    BY DEF Statement, history, Quiet
  <1>2. Coherent /\ CodeBooks /\ SessionBooks /\ PasswordBooks
    BY <1>1 DEF Serial, Books
  <1>3. SessionBooks'
    BY <1>1, <1>2, RevokedBooks
  <1>4. CodeBooks' /\ PasswordBooks'
    BY <1>1, <1>2, PasswordsUntouched DEF CodeBooks, OneOpen, Counted
  <1>5. Coherent'
    BY <1>1 DEF Coherent, Alone, Quiet, Fresh
  <1>6. QED
    BY <1>3, <1>4, <1>5 DEF Books

\* A code ages while a request may run: its use and its attempts stay.
LEMMA AgesSerial ==
  ASSUME IndInv, Serial, NEW c \in DOMAIN codes, CodeAges(c)
  PROVE  Serial'
  <1> SUFFICES ASSUME ~overlapped' PROVE Coherent' /\ Books'
    BY DEF Serial
  <1>1. /\ ~overlapped /\ requests' = requests /\ accounts' = accounts
        /\ sessions' = sessions /\ resets' = resets /\ latest' = latest
    BY DEF CodeAges, history
  <1>2. Coherent /\ CodeBooks /\ SessionBooks /\ PasswordBooks
    BY <1>1 DEF Serial, Books
  <1>3. PICK k \in Code : k = codes[c]
    BY CodeTypes
  <1>4. PICK d : d = [k EXCEPT !.age = IF k.age = "new" THEN "old" ELSE "expired"]
    OBVIOUS
  <1>5. /\ d.user = k.user /\ d.kind = k.kind /\ d.is_used = k.is_used
        /\ d.attempts = k.attempts /\ d.guesses = k.guesses /\ d.redeemed = k.redeemed
    BY <1>4 DEF Code
  <1>6. codes' = [codes EXCEPT ![c] = d]
    BY <1>3, <1>4 DEF CodeAges
  <1>7. CodeBooks'
    <2>1. Counted(d)
      BY <1>2, <1>3, <1>5 DEF CodeBooks, Counted
    <2>2. QED
      BY <1>2, <1>3, <1>5, <1>6, <2>1, CodeMovesBooks
  <1>8. SessionBooks' /\ PasswordBooks'
    BY <1>1, <1>2, SessionsUntouched, PasswordsUntouched
  <1>9. /\ DOMAIN codes' = DOMAIN codes
        /\ \A e \in DOMAIN codes : /\ codes'[e].user = codes[e].user
                                   /\ codes'[e].kind = codes[e].kind
                                   /\ codes'[e].is_used = codes[e].is_used
                                   /\ codes'[e].attempts = codes[e].attempts
    BY <1>3, <1>5, <1>6 DEF IndInv, CodesOK
  <1>10. Coherent'
    <2> SUFFICES ASSUME NEW w \in Workers PROVE Fresh(requests[w])'
      BY <1>1, <1>2 DEF Coherent, Alone
    <2>1. Fresh(requests[w]) /\ RequestOK(requests[w]) /\ requests'[w] = requests[w]
      BY <1>1, <1>2 DEF Coherent, IndInv, RequestsOK
    <2>2. QED
      BY <1>1, <1>9, <2>1 DEF Fresh, RequestOK
  <1>11. QED
    BY <1>7, <1>8, <1>10 DEF Books

-------------------------------------------------------------------------------
(* What holds while requests do not overlap.                                *)

LEMMA InitSerial == Init => Serial
  <1> SUFFICES ASSUME Init PROVE Coherent /\ Books
    BY DEF Serial
  <1>1. Coherent
    BY IdleFresh DEF Init, Coherent, Alone, Idle
  <1>2. CodeBooks /\ SessionBooks
    BY DEF Init, CodeBooks, OneOpen, SessionBooks
  <1>3. PasswordBooks
    BY DEF Init, PasswordBooks
  <1>4. QED
    BY <1>1, <1>2, <1>3 DEF Books

LEMMA NextSerial == IndInv /\ Serial /\ [Next]_vars => Serial'
  <1> SUFFICES ASSUME IndInv, Serial, [Next]_vars PROVE Serial'
    OBVIOUS
  <1>1. ASSUME NEW w \in Workers, CodeStep(w) PROVE Serial'
    BY <1>1, SendReadSerial, VerifyReadSerial, SendCommitSerial, VoidSerial, WrongSerial,
       RedeemTicketSerial, RedeemResetSerial DEF CodeStep
  <1>2. ASSUME NEW w \in Workers, SessionStep(w) PROVE Serial'
    BY <1>2, SessionReadsSerial, LoginSerial, RefreshSerial, ChangeSerial DEF SessionStep
  <1>3. ASSUME NEW s \in DOMAIN sessions, Logout(s) \/ LogoutOthers(s) PROVE Serial'
    BY <1>3, RevocationSerial DEF Logout, LogoutOthers
  <1>4. ASSUME NEW u \in Users, LogoutAll(u) PROVE Serial'
    BY <1>4, RevocationSerial DEF LogoutAll
  <1>5. CASE UNCHANGED vars
    BY <1>5 DEF vars, tables, history, Serial, Coherent, Alone, Fresh, Books, CodeBooks,
                OneOpen, Counted, SessionBooks, PasswordBooks
  <1>6. QED
    BY <1>1, <1>2, <1>3, <1>4, <1>5, AbortSerial, AgesSerial DEF Next

LEMMA SerialInvariant == Spec => [](IndInv /\ Serial)
  <1>1. Init => IndInv /\ Serial
    BY InitInd, InitSerial
  <1>2. (IndInv /\ Serial) /\ [Next]_vars => (IndInv /\ Serial)'
    BY StepKeepsInd, NextSerial
  <1>3. QED
    BY <1>1, <1>2, PTL DEF Spec

LEMMA OneOpenCode ==
  ASSUME OneOpen, NEW u \in Users, NEW k \in Kinds
  PROVE  Cardinality(UnusedCodes(u, k)) <= 1
  <1>1. CASE UnusedCodes(u, k) = {}
    BY <1>1, FS_EmptySet
  <1>2. ASSUME NEW c \in UnusedCodes(u, k) PROVE Cardinality(UnusedCodes(u, k)) <= 1
    <2>1. UnusedCodes(u, k) = {c}
      BY <1>2 DEF UnusedCodes, OneOpen
    <2>2. Cardinality({c}) = 1
      BY FS_Singleton
    <2>3. QED
      BY <2>1, <2>2
  <1>3. QED
    BY <1>1, <1>2

\* What is handed out is used once: a refresh token that was exchanged is void, and, while
\* requests do not overlap, it has one successor, a user has one open code of a kind, and a
\* code takes at most MAX_ATTEMPTS wrong answers and one right one (refresh,
\* register_verify, forgot_password_reset).
THEOREM SingleUse == Spec => []UsedOnce
  <1>1. IndInv /\ Serial => UsedOnce
    <2> SUFFICES ASSUME IndInv, Serial PROVE UsedOnce
      OBVIOUS
    <2>0. RotatedIsRevoked
      BY DEF IndInv, SessionsOK
    <2>1. OneSuccessor
      BY DEF Serial, Books, SessionBooks, OneSuccessor
    <2>2. ~overlapped => \A u \in Users, k \in Kinds : Cardinality(UnusedCodes(u, k)) <= 1
      BY OneOpenCode DEF Serial, Books, CodeBooks
    <2>3. ~overlapped => \A c \in DOMAIN codes :
                            codes[c].guesses <= MAX_ATTEMPTS /\ codes[c].redeemed <= 1
      BY DEF Serial, Books, CodeBooks, Counted
    <2>4. QED
      BY <2>0, <2>1, <2>2, <2>3 DEF UsedOnce, CodeIsBounded
  <1>2. QED
    BY <1>1, SerialInvariant, PTL

\* While requests do not overlap, a new password takes hold: it is the one stored, and
\* every live session goes back to a login after the last reset.
THEOREM PasswordSafety == Spec => []PasswordTakesHold
  <1>1. IndInv /\ Serial => PasswordTakesHold
    BY DEF Serial, Books, SessionBooks, PasswordBooks, PasswordTakesHold,
           ResetEndsSessions, PasswordIsLatest
  <1>2. QED
    BY <1>1, SerialInvariant, PTL
===============================================================================
