# Verification of the Enwis backend

TLA+ models, TLC checks and TLAPS proofs for the Enwis backend (FastAPI, async
SQLAlchemy, SQLite in development and PostgreSQL in production). The models are
written from the code under `src/app`; line numbers are in `PROJECT.json` ("map").

## 1. The system

One process serves HTTP requests as coroutines. Each request has its own database
session (`core/database.py`, `get_db`), is committed when the handler returns and
rolled back when it raises. Nothing locks a row and no row carries a version: a
handler loads rows, decides, and writes later. With the sessions' settings
(`autoflush=False`, `expire_on_commit=False`) a loaded row is never read again by
itself, and a flush writes only the columns whose value differs from the one loaded.
`NotificationService.create` commits the caller's session.

| Component | State it keeps | Operations | Interacts with |
|---|---|---|---|
| subscriptions (`subscriptions/service.py`) | `user_subscriptions`, `users.subscription_tier` | activate or renew, subscribe directly, cancel, lazy expiry | called by payment review |
| payments (`BillingService`) | `payments`, `payment_events`, receipt files | initiate, upload receipt, cancel | sweeper, review |
| payment review (`admin/service.py`) | the same rows, `admin_audit_logs` | approve, reject | subscriptions, notifications |
| expiry sweeper (`main.py`) | none of its own | every 15 minutes: expire overdue payments | payments, notifications |
| payment providers, webhook | none | `manual_card` picks a card; the others answer 501 | payments |
| teacher package (`billing/service.py`) | `teacher_purchases`, roles, tier | purchase, upload, cancel, review, grant | users |
| pricing plans, discounts, promo codes (`billing/service.py`) | their own tables | CRUD by an administrator, validation, `apply_promo_code` | the page of prices; no route leads to `apply_promo_code` |
| auth: sessions and codes (`auth/service.py`) | `sessions`, one-time codes, passwords | register, verify, login, refresh, revoke | SMS provider |
| auth: accounts (`auth/service.py`, `auth/social.py`, `users/service.py`) | `users`, `social_accounts`, `phone_verifications` | social sign-in, link, unlink, profile, change of phone, deletion | Google, Telegram, SMS provider |
| exams: attempts (`exams/attempt_service.py`, `certificate_service.py`) | attempts, answers, results, certificates | start, save, submit, grade, certify | notifications, tests |
| exams: enrollment (`exams/service.py`, `apply_service.py`) | exams, participants, apply links, applications | create, publish, add, apply, review | plan limits, notifications |
| tests (`tests/service.py`, `tests/question_service.py`) | tests, their links to questions, questions | create, publish, copy, edit, import | plan limits |
| practice (`tests/practice_service.py`) | practice attempts and answers | start, save, submit | tests |
| questions (`questions/*`) | Rasch statistics | calibration | tests |
| AI generation (`ai/service.py`) | `users.ai_questions_used`, reset date | generate within a monthly quota | providers, tests |
| users, dashboard, notifications | profiles, read models, notifications | CRUD, listings, mark as read | all |
| plan limits (`core/plans.py`) | none | pure functions from tier to limits | tests, AI, exams |
| admin users and plans | users, roles, plans, cards, audit log | block, change roles and quotas, CRUD | notifications |

What is hard in it: every check-then-write pair races with every other one on the
same row; uploads await the body between the check and the write; the sweeper works
on what it read when the sweep began; an approval writes a payment, a subscription,
a tier and a trail, and is committed from inside the notification; counters and
quotas are read, then written back increased.

What would make each part correct: payments move along the documented lifecycle and
their trail tells it; an approval and what it grants are one; a user has one active
subscription and the tier that goes with it; nothing stays in flight for ever; a
teacher's lifetime access is not lost; an attempt is graded once, from the answers
saved before its deadline, and has one result; a certificate exists only for a passed
result; quotas, usage limits and refresh tokens are used at most as often as allowed; a
published test is not changed under those who take it; a practice score is what its
answers earned; an application is decided once; nobody loses the last way into an account; a
price stays between nothing and what the plan costs, and a promo code counts its uses.

## 2. Plan

| Step | Modules | Abstract specification | State |
|---|---|---|---|
| 1 | `Billing`, `Billing_proofs` | `PaymentLifecycle` | checked and proved |
| 2 | `ExamAttempts`, `ExamAttempts_proofs` | `AttemptLifecycle` | checked and proved |
| 3 | `TeacherPackage`, `BillingService_proofs` | `PaymentLifecycle`, with other names | checked and proved |
| 4 | `Auth`, `Auth_proofs`: one-time codes, registration, refresh sessions, revocation | | checked and proved |
| 5 | `Accounts`, `Accounts_proofs`: social sign-in, links, profile, change of phone, blocking and deletion | | checked and proved |
| 6 | `Tests`, `Tests_proofs`: tests, shared questions, AI generation, the limits of the plan | | checked and proved |
| 7 | `Practice`, `Practice_proofs`: practice attempts beside the owner's edits | | checked and proved |
| 8 | `Enrollment`, `Enrollment_proofs`: exams, participants, apply links, applications | | checked and proved |
| 9 | `Catalog`, `BillingService_proofs`: plans, cards, pricing page, discounts, promo codes | | checked and proved |

Every invariant, every action property and every refinement that a passing run checks is a
theorem, for every value of the constants. One run, `BillingDirect`, is there for a promise the
code breaks (section 3). Left to the runs is liveness only (`OverdueIsSettled`): it
needs fairness, which is out of the prover's reach. `TeacherPackage` and `Catalog`, the two
halves of `billing/service.py`, share one module of proofs; `Catalog` has names of its own for
that reason (`calls`, `concurrent`, `CatalogNext`, ...), and no proof about one uses the other.

How the modules meet. The handlers share rows, not calls: `Billing` and
`TeacherPackage` both write `users.subscription_tier`, so `TeacherPackage` includes
the two subscription operations that do; `ExamAttempts` includes the certificate
service, which submission, grading and the student all call; `Tests` includes the AI
generation, which writes the same tests; `Practice` includes the owner's edits of
`Tests` as single steps, `Accounts` the registration of `Auth`, and `Catalog` what the payments
and subscriptions of `Billing` refer to. Each abstract
specification is instantiated by the module that implements it.

Most promises of the code hold only while requests do not overlap. The later modules
keep a history variable `overlapped` (`concurrent` in `Catalog`), which becomes true when a request starts beside
another and stays true: a property `~overlapped => P` is the promise, and what a property
says without that condition holds in every interleaving. One run then answers both.
`Billing` has a constant `Serialized` for it instead, and `ExamAttempts` notes for each attempt
whether a stale request wrote to it (`history`).

So a property of that form does not forbid the race: where the code lets two overlapping requests
break a promise, the broken state is reachable in the model, and what the property adds is that
nothing else breaks it, or by how much. The hazards of interleaving in `PROJECT.json` that name
such a property are covered to that extent and no further: the two attempts in progress of
section 9, the exceeded uses of a link in section 10 or the second subscription of section 3 are
behaviours of the code, not excluded by any check.

How the promises without overlap are proved. The argument is the same in every `..._proofs`
module, and its invariant is called `Serial` there (`InOrder` for `Catalog`). A request in
flight is the only one (`Alone`), and what it has read is still so (`Fresh`, one line per kind
of request; `AsLoaded` for `Catalog`): that is how the check in a read and the write in a commit
come to be about the same rows. With it the tables keep their books from step to step. A step
that begins a request establishes `Fresh` for it, a commit uses it, and a step of anybody else
makes `overlapped` true (or is impossible where `Serialized` holds). `ExamAttempts` needs none
of this. What holds in every interleaving rests instead on facts that no step of the others can
undo, given section by section below.

## 3. The billing core

`Billing.tla` models `SubscriptionService`, `BillingService`, the reviews of
`AdminService`, the sweeper, and the other writer of `users.subscription_tier`: the teacher
role that the review of a teacher purchase grants (`billing/service.py:317-333`).

| Variable | Code |
|---|---|
| `payments` | table `payments`: status, `expires_at` relative to now, whether a receipt was uploaded, `subscription_id`, creation order |
| `events` | table `payment_events`, per payment |
| `subscriptions` | table `user_subscriptions` |
| `tier` | `users.subscription_tier` |
| `requests` | what each request in progress loaded and decided |
| `sweep` | the statuses the running sweep read |
| `crashes` | sweeps that stopped half way (bounded) |

An operation is a `...Read` action with the guards of the handler and a `...Commit` action with
its writes. The commit covers everything from the first flush to the commit: on SQLite the
first flush takes the database's write lock, so no other writer fits in between; what was read
before that flush may be stale. Activation reads the active subscription in a step of its own
(`Resolve`). `Abort` drops a request before its commit. On PostgreSQL other flushes fit between
the first flush and the commit of a request; the interleavings checked here are possible there
too, and properties that hold here are claimed for SQLite. Time is the two actions
`DeadlinePasses` and `SubscriptionLapses`: a datetime is "none", "ahead" or "behind".
`Serialized` starts a request or a sweep only when nothing else runs.

Abstracted: amounts, currencies, cards, files, notes and notifications (only the
commit that `NotificationService.create` makes matters). `PayUser` and `PayPlan` are
written once, by the creation, and are therefore constants.

`PaymentLifecycle.tla` is what the documentation of `PaymentStatus` promises of one
payment. `Billing!Lifecycle` maps the status column and the approvals counted in the
trail to it; `ImplementsLifecycle` is checked where requests do not overlap.

### Runs

| Run | Question | Result |
|---|---|---|
| `BillingSerial` | Do the promises of the comments hold when requests do not overlap? | yes: one active subscription, no duplicate in flight, the trail is a history, the tier follows the subscription and the role, and the lifecycle is implemented |
| `BillingRaces` | What survives every interleaving of the sweeper and two requests, direct subscriptions among them? | deadlines, the end of the trail, receipt before review, approval and entitlement together; and only stale writers break the rest |
| `BillingSweep` | Is an overdue payment settled? | yes, under the fairness of the loop |
| `BillingDirect` | Does every subscription to a paid plan have a reviewed payment behind it? | no, with one request after another: see below |

`PaymentIsSound` is the four facts of every payment: `ActiveHasDeadline`, `TrailEndsAtStatus`,
`ReviewedAfterReceipt`, `ApprovedIsEntitled`. `NothingPilesUp` is `OneActiveSubscription` and
`NoDuplicateInFlight`. `TierFollowsSubscription` says that the tier is that of the active
subscription, or `TEACHER` beside a free one (`_grant_teacher_role` replaces no paid tier), and
that a sold tier comes from a subscription of the user that nobody cancelled.

`BillingDirect` is the project's one finding. The docstring of `subscribe()`
(`subscriptions/service.py:137-142`) says that direct activation is "only allowed for free
(price == 0) plans [...] so there is always an auditable Payment/PaymentEvent trail for paid
plans", and the router's (`subscriptions/router.py:53`) that it "only works for free (price == 0)
plans". The check at `service.py:146` lets a plan with a price through when the body carries a
`payment_id`, and nothing looks that identifier up: it may name an unreviewed payment, or none.
`PaidPlansAreReviewed` states the docstring, and three steps violate it.

Some claims of the comments fail when requests overlap. "The user having exactly one
active subscription" (`subscriptions/service.py:117`): two activations that both found no
subscription both insert one, and every later lookup fails. That only such stale
activations do it is `OnlyStaleActivationsPileUp`. "Anything outside this set is a terminal state"
(`subscriptions/models.py:134`): a cancellation, an upload, a review or the sweep that
read the payment while it was active overwrites what was committed since; the subscription
an approval granted stays. "Block piling up duplicate in-flight payments for the same
plan" (`subscriptions/service.py:402`): two initiations that both look first both
insert. `ImplementsLifecycle` and `NoDuplicateInFlight` state the claims;
`OnlyStaleWritersLeaveTerminal` says that the first way is the only one. Without any
overlap, a lapsed subscription leaves the paid tier behind: only the subscription row
expires, so the first half of `TierFollowsSubscription` speaks of active subscriptions and the
second allows expired ones. The comment at `billing/service.py:330` calls the `TEACHER` tier
lifetime; a later free subscription, or the cancellation of any subscription, writes `FREE` over
it (`subscriptions/service.py:129` and `:191`). The model has these writes; no property claims
that the tier lasts.

Bounds. One user is enough: no query mixes users. Two workers give every pair of
handlers, the sweeper is a third process. Payments: two of one plan for duplicates; a free
plan beside it so that direct and reviewed activations compete in `BillingSerial`, which has
three subscription rows, since a row is used once and the second activation is the one that can
go wrong. `Refs` is what a direct subscription may carry as `payment_id`: nothing or a string
that is no payment in `BillingSerial` and `BillingDirect`, nothing or the payment itself in
`BillingRaces`, so that in both the paid plan is also reached around the review. `Buyers` have a
teacher purchase to approve: the user, in `BillingSerial`; which purchase it is belongs to
`TeacherPackage`. `PageSize` is the 50 of the code and never reached with two payments: that the
check looks at the newest 50 only is not exercised. `MaxCrashes` is 1 where a sweep has more than
one payment; `BillingRaces` has a single payment, where a sweep that stops half way is one that
has not started. Lifetime plans are in `BillingSweep` only.
`CHECK_DEADLOCK FALSE`: when all rows are used and nobody acts the system may rest.

Fairness. `FairSpec` asks weak fairness of the sweeper only: the loop of `main.py`
sleeps, sweeps, and catches every exception but cancellation. Nothing is assumed of
users, admins or requests in flight.

### Proofs (`Billing_proofs.tla`)

For every set of users, plans, payments (finite), subscription rows and workers:

- `TypeCorrect`, and `DeadlineSafety`, `TrailSafety`, `ReviewSafety`, `EntitlementSafety`,
  together `PaymentSafety`: the invariants of `BillingRaces`.
- `TerminalLeftOnlyByStaleWriters` and `PileUpOnlyByStaleActivations`: its action
  properties.

The argument. The invariants are not inductive as they stand: a commit relies on what
its read saw, and the rows move in between. `IndInv` adds `RequestsOK`: a request in
flight names rows that exist, and a review in flight names a payment whose receipt is
there and whose trail says so (`HasReceipt`); `WaitingHasReceipt` gives a review that
fact when it starts. Two facts of every step carry it along: receipts and rows are
never taken back (`ReceiptsKept`, `SubscriptionsKept`), hence `RequestsSurvive`.
`MovePayment` is the step all payment handlers share, `ActivationKeepsRows` the one
all activations share; each action instantiates them.

- Where requests do not overlap (hypothesis `Serialized`): `TrailHistory`, `TierSafety`,
  `NoDuplicateOnPage`, `NoPileUp`, and `ImplementsPaymentLifecycle`, the refinement of
  `PaymentLifecycle`.

`Serial` is `Coherent`, where `Fresh` says that a request's payment still has the status it
read and a sweep's payments still are active, with `Books`: the trail is a history,
duplicates are off the page, one row is active, the tier follows it. `TierSafety` holds for every
`Refs` and every set of `Buyers`: it needs that the row an activation retires is one of the same
user, which `Fresh` records. The proof shows what the duplicate check of `initiate_payment` does not see: it looks at the newest
`PageSize` payments of the user (50), so the invariant that holds for every constant is
`DuplicatesOffPage`: of two payments in flight for one plan, one has left that page. A
payment that left never comes back (`nth` only grows). `NoPileUp`
needs the hypothesis `PageIsEnough`, that no user has more payments than that, which is so in
the run; `NoDuplicateOnPage` is the theorem without it.

The refinement maps the approvals to events of the trail. A step adds one event to one
payment at most (`StatusSteps`, `ApprovalsStep`), and since the trail ends at the status, the
pair of statuses in it is a step of the lifecycle.

Assumed: `ConstantsAssumption` (types of the constants, finitely many payments, `None`
is no identifier). TLC evaluates it in every run. Model-checked only: liveness
(`OverdueIsSettled`).

## 4. Exam attempts

`ExamAttempts.tla` models one exam: `AttemptService` from start to manual grading,
`CertificateService`, and the status and deletion of the exam (`ExamService`).

| Variable | Code |
|---|---|
| `exam` | `exams.status`, or "deleted" |
| `attempts` | table `exam_attempts`: open or completed, owner, score, whether the time limit has passed |
| `answers` | table `question_answers`: the rows written for each question, oldest first, with `points_earned`; a deleted row stays as a dead entry, because a request may still hold its identifier |
| `results` | table `results` (`attempt_id` is UNIQUE) |
| `certificates` | table `certificates` (`attempt_id` is UNIQUE) |
| `requests` | what each request in progress loaded |
| `history` | what no column keeps: `surplus`, the points of the rows the score does not count, and `stale`, that a request which had loaded older rows wrote to the completed attempt |

| Actions | Code |
|---|---|
| `StartRead`, `StartCommit` | `start_attempt`: count, look for an open attempt, insert |
| `SaveRead`, `SaveCommit` | `save_answers`: check, then delete the rows of the named questions and insert one for every option |
| `SubmitRead`, `SubmitCommit` | `submit_attempt`: check, delete the old rows, insert graded ones, complete, insert the result; `notify_result_ready` commits; the certificate follows in a transaction of its own (`op = "issue"`) |
| `GradeRead`, `GradeCommit` | `manual_grade`: regrade one answer row, move the score by the difference |
| `IssueRead`, `IssueCommit` | `issue_manually` and `issue_for_attempt` |
| `publish_exam`, `archive_exam`, `update_exam`, `DeleteRead`, `DeleteCommit` | the exam; a deletion is blocked by certificates |
| `TimeRunsOut` | `duration_minutes` and the grace pass |
| `Abort` | an error or a restart before the commit |

What a submission writes is not one row and one grade per question. `submit_attempt` goes through
the answers it is sent without looking for repetitions, so a question answered twice adds its
points twice and the score can exceed the total (`attempt_service.py:348-360`); and an answer that
names several options makes a row for each, all with its full points, while the score counts the
answer once (`:372-383`). `GradedRows` has both: the rows of one question are any number of answers
of any number of options. So the rows of an attempt add up to its score and `surplus`, and
`manual_grade`, which moves the score by the difference to one row, keeps that sum: this is what
`ScoreIsEarned` says. The score also exceeds the total when a question has a negative
worth, which nothing forbids (`Points` maps to the integers).

Abstracted: what an answer says (grading picks 0 or the points of the question; a
teacher picks any number of points from 0 up to them); percentages are compared without
rounding; `Question.score` and the limits of the exam do not change during an attempt. Reads that
nothing separates but another SELECT are one step. `ExamService.start_attempt` and
`submit_attempt` (`exams/service.py`) have no caller and are not modelled. A timed-out attempt is
closed by nothing in the code: it stays open and counts against `max_attempts`.

`AttemptLifecycle.tla` is what one attempt promises: absent, open, completed with a result
published in the same step, regraded any number of times, certified at most once, removed only
with its exam. It does not say what a certificate shows, and must not: the certificate is issued
in a later transaction, and a regrading below the passing score may commit in between. That the
score it shows passes, if not the score the attempt has by then, is `CertificateShowsPass`.

### Runs

| Run | Question | Result |
|---|---|---|
| `ExamRaces` | What survives two overlapping requests on one attempt, failures, the time limit and the deletion of the exam? | the score accounts for the answer rows, only grading and a save that found the attempt open touch the answers of a completed one, starts exceed the limits by at most one, certificates show a pass, and the lifecycle is implemented |

The tests' "one active attempt at a time" and "`max_attempts` [...] rules are enforced"
(`tests/test_attempt_flow.py:14-15`) are `OneActiveAttempt` and `MaxAttemptsEnforced`, together
`StartRules`. Two overlapping starts break both; `StartsBounded` says by how much: the attempts of
a user and the starts in flight exceed the limit by at most the requests served beside the first.
With a single worker the rules hold as they stand (`StartSafety`, a theorem).

What overlap can do to a completed attempt is named, not excluded. A save that read the attempt
while it was open and commits after the submission replaces graded answers: `CompletedIsFrozen`
allows that one and no other. Of two gradings that loaded the same score one is lost; that attempt
and one written by such a save are `stale` from then on, and `ScoreIsEarned` speaks of the others.

`CompletedHasResult`, `SubmittedOnce` and `StartRules` are stated in the module and proved, but
are in no run.

Bounds. One student: no query mixes users. One attempt with `MaxAttempts = 1` is where the rules
are tightest; a second start in flight is already what `StartsBounded` counts, although no row is
left for it to insert. One question, worth 1 against a passing score of 50 %: a right answer
passes, a wrong one does not, a regrading crosses the line either way, and answering twice exceeds
the total. `MaxRows = 2` bounds the rows of one question that are saved before the submission, and
those the submission writes: two answers, or one answer of two options. `MaxScore = 2` keeps a
regraded score within two of 0. `CHECK_DEADLOCK FALSE`: a deleted exam or a completed last attempt
leaves nothing to do.

### Proofs (`ExamAttempts_proofs.tla`)

For every finite set of attempts, questions and requests, any worth of the questions, and with
requests overlapping:

- `TypeCorrect`, `ScoreSafety`, `StartsAreBounded`, `CertificateSafety`: the invariants of
  `ExamRaces`; `AnswersFrozen`: its action property; `LifecycleImplemented`: the refinement.
- `ResultSafety`, `FirstSubmissionStands`, and for one worker `StartSafety`: the three that no run
  checks.

The argument. `IndInv` adds to the invariants `RowsOK` (rows that exist are well formed),
`RequestsOK` (a request names an attempt that has begun; one that issues carries a passing score;
a save has found its attempt open) and `PassedIsEarned` (`results.passed` is what the passing
score says of the total). `AttemptsAdvance` is the monotony every commit relies on: an
attempt that was seen completed is completed or deleted.

- `StartsBounded` is inductive as it stands: it counts the starts in flight with the attempts
  (`Room`) and with the open attempts (`FewOpen`), a start in flight turns into an open attempt,
  and a start begins only where the attempts leave room and no attempt is open.
- `ScoreIsEarned` needs `Balance`: besides it, the rows of an open attempt are worth nothing
  (`OpenBlank`). So a submission, which deletes the rows it has seen, leaves behind none with
  points that it does not know of: what its own rows add up to is the score and the surplus. A
  grading that is up to date (`UpToDate`) moves one row and the score by the same difference;
  any other marks the attempt as stale.
- A score is a sum over the questions and their rows (`SumFunction` of the community modules, a
  fold). What it computes for every finite set is proved without the library's induction theorems,
  by a least counterexample: `LeastNatural` gives the smallest cardinality of a set without a sum
  (`SumExists`), which defines the sum element by element (`SumDef`). The rest is first-order:
  sums are integers (`SumIsInt`), how a sum moves when one summand does (`SumChange`), when two
  are added (`SumPlus`), and when zeros stand before it (`SumAfterZeros`). `Practice_proofs` has
  its own copy of the first ones.

## 5. The teacher package

`TeacherPackage.tla` models `BillingService` (`billing/service.py`) and the two other
services that write the buyer's row.

| Variable | Code |
|---|---|
| `purchases` | table `teacher_purchases`: status, `receipt_image`, and whether the receipt lies on disk |
| `users` | role TEACHER, `teacher_verified_at`, `subscription_tier`, and whether a subscription is active |
| `package` | `teacher_packages.is_active` |
| `requests` | what each request in progress loaded |
| `overlapped` | history: two requests have been in progress at once |

A purchase loads the user when the request is authenticated (`PurchaseRead`), looks at
the purchases (`PurchaseLookup`: restore the role, return the open purchase, or go on),
and commits (`RestoreCommit`, `CreateCommit`). An upload checks, writes the file
(`UploadStore`) and then the row (`UploadCommit`). A review loads the purchase, then the
buyer (`ApproveLoad`), and commits role, `teacher_verified_at`, tier and status at once.
`Grant` writes what differs from the loaded user; the UNIQUE constraint of `user_roles`
makes a second insertion of the role fail, with everything the request wrote.

| Run | Question | Result |
|---|---|---|
| `TeacherRaces` | What holds when two requests overlap, and what more as long as none did? | nothing is reviewed without a receipt on disk; a completed purchase verifies its buyer; the role has a reason; without overlap one open purchase, one payment, and the flow of `PaymentLifecycle` ("Follows the same [...] flow", `billing/models.py:62`) |

`PurchaseRules` is `ProofOnFile` and `CompletedIsVerified`, which hold in every
interleaving, with `OneOpenPurchase` and `PaysOnce`, which need requests not to overlap.

Bounds. Two purchases (a second one is what must not happen), two workers (every pair of
handlers), one buyer. The run ends by itself: a purchase is created once. The properties
that need requests not to overlap say so through `overlapped`, so that one run
answers both questions. Deadlock is checked: the package can always be switched.

### Proofs (`BillingService_proofs.tla`, first half)

For any number of users, purchases and overlapping requests: `TypeCorrect`, `PackageRules`
(`PurchaseRules`) and `ImplementsPaymentLifecycle` (`SameFlowAsPayments`). The first half of
`PurchaseRules` rests on `Rows`: receipts and verifications are never taken back
(`RowsAdvance`), so a review in flight keeps the receipt it saw. The second half and the
refinement rest on `Serial`, whose book is `OneLive`: of the purchases of a user one at most is
open or completed. That is stronger than one open and one completed, and is what a creation
checks.

Not covered: the promise that the tier of a teacher never ends ("Bu lifetime [...] hech qachon
tugamaydi", `billing/service.py:330`). In the model as in the code `SubscribeCommit` and
`UnsubscribeCommit` overwrite it (`subscriptions/service.py:129` and `191`), so it is not kept,
and no property states it; what stays is the role and `teacher_verified_at`, which
`PurchaseRules` speaks of. Two overlapping uploads with different extensions leave two files,
and the reviewer is shown the first extension of a fixed list; `expires_at` of a purchase is
never written, so the documented "expired" never happens.

## 6. Codes and sessions

`Auth.tla` models the codes, passwords and sessions of `AuthService`, and the devices of
`UserService`; who an account belongs to is section 7.

| Variable | Code |
|---|---|
| `accounts` | table `users`: which password is stored, and whether its hash is due for a rehash |
| `codes` | tables `phone_registration_tickets` and `phone_verifications`, newest last: used, wrong attempts, age; history: `guesses` and `redeemed` count what was answered |
| `sessions` | table `sessions`: revoked or not, the session it was refreshed from; history: `era`, the resets before its login |
| `requests` | what each request in progress loaded |
| `resets`, `latest`, `overlapped` | history |

| Actions | Code |
|---|---|
| `SendRead`, `SendCommit`, `SmsAnswers` | `register_send_code`, `forgot_password_send_code`: cool-down, void the last code, insert, then send the SMS and void the code when that fails |
| `VerifyRead`, `VoidCommit`, `WrongCommit`, `RedeemTicket`, `RedeemReset` | `register_verify`, `forgot_password_reset`; the session of a new account is a second transaction |
| `LoginRead`, `LoginCommit`, `RefreshRead`, `RefreshCommit` | `login` with its rehash, `refresh` |
| `Logout`, `LogoutAll`, `LogoutOthers` | `logout` and `revoke_device`, `logout_all`, `revoke_other_devices`: one write each, which nothing they read makes wrong |
| `ChangeRead`, `ChangeCommit` | `change_password` |

Abstracted: hashes, tokens and codes (a code entered is right or wrong); requests that are
refused and change nothing; access tokens, which no table holds; rate limiters. A session
that has expired is one that is refreshed no more, so expiry needs no state.

| Run | Question | Result |
|---|---|---|
| `AuthRaces` | What holds for overlapping requests, and what more as long as none did? | an exchanged token is void and a phone is registered once, always; without overlap a token has one successor, a reset ends every session, one code is open, wrong codes stay within `MAX_ATTEMPTS`, and the password is the one set last |

`UsedOnce` is `RotatedIsRevoked`, `OneSuccessor` and `CodeIsBounded`; `PasswordTakesHold` is
`ResetEndsSessions` and `PasswordIsLatest`.

The promises for requests one at a time do fail when requests overlap: two refreshes with one
token fork it; a refresh or a login that has read its row inserts a session after a reset
revoked "all old sessions" (`auth/service.py:497`); wrong codes answered side by side count
as one; a rehash stores the password from before a change. In all of these the row that was
read is not checked again when it is written.

Bounds. One account; two workers for every pair of handlers; two codes (the next and the one
it voids), three sessions (a fork needs a parent and two children), one reset, one wrong
attempt. `View` leaves out what neither a guard nor a property looks at: the
fields of used codes and, once requests have overlapped, the histories. Deadlock is checked.

### Proofs (`Auth_proofs.tla`)

For any number of users, codes, sessions and overlapping requests: `TypeCorrect`,
`RotationSafety` (`RotatedIsRevoked`) and `RegistrationSafety` (`RegisteredOnce`).

The argument. `IndInv` adds `RequestsOK`: a request in flight names a code or a session that
exists, a redemption names a code of its own user and kind, and a request that will store a
password has one. Three facts of every step carry it: registered accounts stay registered
(`AccountsKept`), codes and sessions are never removed nor given away (`CodesKept`,
`SessionsKept`). A ticket is accepted only while its phone has no account and leaves one
behind, hence once per phone (`CodeRedeemed`); a session is never un-revoked and its successor
is inserted with its revocation (`RevokeKeeps`, `SessionAdded`). Each action combines one
lemma per table (`SameCodes`, `OneCodeMoves`, `CodeAdded`, ...) with one per request
(`BeginKeeps`, `FinishKeeps`). Assumed: `ConstantsAssumption`.

As long as nothing overlapped: `SingleUse` (`UsedOnce`) and `PasswordSafety`
(`PasswordTakesHold`). The books are kept per table. `CodeBooks`: one open code per user and
kind, and a code's counters agree with its history. `SessionBooks`: sessions with one parent
are one session, and a session that is not revoked is of the current era; a refresh keeps both
because what it extends is not revoked yet, hence has no successor (`RotatedIsRevoked`).
`PasswordBooks`: the stored password is the one set last; only a login carries a password from
its read to its commit, and alone it carries the current one. Time passes in between:
codes age, and nothing in `Fresh` is about their age.

## 7. Accounts

`Accounts.tla` models who an account belongs to: the social sign-in of `AuthService`, the
profile and the change of phone of `UserService`, and what `AdminService` does to an account.

| Variable | Code |
|---|---|
| `users` | table `users`: `email`, `phone`, `phone_verified`, `google_id`, `telegram_id`, whether there is a password, and whether the account is open, barred or removed |
| `accounts` | table `social_accounts`: the user each identity at a provider is linked to |
| `codes` | table `phone_verifications`: the phones with a code that is not used |
| `confirmed`, `entered` | history: the phones that were confirmed, and those typed into the profile |
| `requests` | the row each request loaded, the row as it is to be, and whether a try is left |

| Actions | Code |
|---|---|
| `social_login`, then `FillNew` or `Fill`, then `FillCommit` or `Retry` | `google_auth`, `telegram_auth`, `telegram_webapp_auth`: find by link, column, e-mail or phone, in this order; fill in what the account lacks and nobody else has; commit; start over once when a unique index refuses |
| `link`, then `Fill`, `FillCommit`; `unlink`, `UnlinkCommit` | `link_google`, `link_telegram`; `unlink_google`, `unlink_telegram` |
| `register` | `register_verify`, in one step (section 6 has the steps) |
| `update_email`, `update_phone`, `set_password`, `delete_account` | the profile |
| `request_phone_update`, `verify_phone_update`, `VerifyCommit`, `code_lost` | the change of phone |
| `update_user_status`, `delete_user` | the administrator |

A commit writes the columns whose value differs from the one loaded (`Written`) and succeeds
when the unique indexes allow it (`Fits`).

Abstracted: names, avatars and usernames; the verification of a token or a nonce (a profile
is one whose token was verified); e-mails that the provider has not verified; how many wrong
codes a change of phone takes.

| Run | Question | Result |
|---|---|---|
| `Accounts` | Do identities, phones and e-mails stay unique in every interleaving, and what else holds as long as none overlapped? | unique and linked to a user that exists, always; a phone marked verified belongs to an account that confirmed one, and is that one or one the profile replaced it with, always; without overlap links and columns agree and everybody can sign in |

With overlap `LinksMatchColumns` and `SignInLeft` (`SignInsAreKept`) fail: two unlinks at two
providers each see the other account as the sign-in that is left. Two weaknesses are by
construction and not promised otherwise: a phone stored with and without its plus sign can be
on two accounts, because the index compares text; and `update_profile` leaves `phone_verified`
set when it replaces the number, which is what the second half of `PhoneWasConfirmed` allows.

Bounds. Two accounts, so that something can be taken; two Google identities and one of
Telegram, so that a user can meet a second identity of a provider; one number in both of its
spellings; two workers and four requests in a behaviour, enough to create, link, link
again and unlink. `CHECK_DEADLOCK FALSE`: after the fourth request nothing is left to do.

### Proofs (`Accounts_proofs.tla`)

For any finite number of users, identities and workers: `TypeCorrect` (which includes that
identities, phones and e-mails are unique and that links lead to users that exist),
`VerifiedPhones` (`PhoneWasConfirmed`), and without overlap `LinksInStep`
(`LinksMatchColumns`) and `NeverLockedOut` (`SignInLeft`), together `SignInsSafe`.

`Typed` is inductive in every interleaving because the unique indexes are checked where a row
is written (`Fits`), whatever the request had read. `PhonesOK` needs to know, of every request
in flight, where the phone it loaded and the phone it will write come from (`KnownPhone`,
`Loaded`): a commit writes back only what differs from the row it loaded, so a verified flag
and a phone can come from different requests, and both were on record. `Serial` has two books,
`LinksAgree` and `SignIns`; unlinking is where the second is at stake, and alone it counts the
sign-ins that are really there.

## 8. Tests, questions and AI generation

`Tests.tla` models the tests of one owner: `TestService`, the questions they share and
`AIService.generate_questions`.

| Variable | Code |
|---|---|
| `tests` | `tests.status`, or that there is no such row |
| `links` | table `test_questions` |
| `questions` | table `qb_questions`: an edition, which every edit increases |
| `owner`, `month` | `ai_questions_used`, the month of `ai_questions_reset_at`, the limit; the calendar |
| `rasched`, `generated` | history: tests that `generate_rasch_test` added, questions generated this month |

Every handler is a step that reads and checks and a step that writes, because between
the two another handler may publish, delete or edit; the generation awaits its provider
there. A copy of a test links to the questions of its original. The monthly count is
computed from the row loaded before the provider was awaited (`Counted`).

Abstracted: titles, points and the order of questions (`reorder_questions`, which has no
look at the status, changes only the order); which questions a Rasch test selects (any);
the answer of the provider (as many valid questions as asked for, or an error, `Abort`).

| Run | Question | Result |
|---|---|---|
| `Tests` | Do the limits of the plan hold, and is a published test left alone? | links always lead to tests and questions that exist; an owner exceeds the number of tests by those of `generate_rasch_test`, which does not count, and with overlap by one; without overlap the AI count is what was generated and within the limit, and a published test keeps its questions |

"Test is published and cannot be modified. Duplicate it first." (`tests/service.py:61`) holds
with an exception that is no race: the copy shares the questions, and an edit through the
copy changes them in the published test. `SharedWithEditable` names that case in
`PublishedIsLocked`. With overlap the AI count loses updates and can be set back to last
month's.

Bounds. A limit of two tests and four test rows: one for a Rasch test and one for an
overshoot. Three questions, two editions, two months, an AI limit of one question or none
at all, and an administrator who changes it. Deadlock is checked: the limit can always be
changed.

### Proofs (`Tests_proofs.tla`)

For any number of tests, questions and overlapping requests, and every limit: `TypeCorrect`,
`LimitHolds` (`TestLimit`), `MonthlyUseCounted` (`MonthlyUse`), together `PlanKept`
(`WithinPlan`), and `PublishedStaysLocked`
(`PublishedIsLocked`). `TestLimit` is not inductive: two creations can both have passed their
check. `Room` counts the tests with the creations in flight that have passed it: together
they stay within the limit, the Rasch tests and, once requests have overlapped, all workers
but one; a creation that commits turns from one summand into the other. `MonthlyUse` rests on
`Serial` with the book `Metered`. `MaxTests` is at least one, as every tier of
`core/plans.py` allows.

## 9. Practice

`Practice.tla` models `TestPracticeService` for one user and one test; the owner's requests of
section 8 are single steps (`Toggle`, `Delete`, `SetPoints`, `SetChoices`, `Unlink`).

| Variable | Code |
|---|---|
| `status`, `points`, `edition` | the test, the points of each question in it (`None`: not in it), the edition of its choices |
| `attempts`, `answers` | tables `test_practice_attempts` and `test_practice_answers`; history: `paper` and `graded`, the points when the attempt was started and graded |
| `requests` | the rows a session has loaded, the answers it sends, what it graded |

`StartRead` and `StartCommit`; `SaveRead` and `SaveCommit`; `SubmitRead`, `SubmitGrade` (the
answers are saved, in a transaction of their own, and graded with the rows the session has)
and `SubmitCommit`. A row that was there when the session loaded it is updated, one that was
not is inserted; either can have become impossible, which aborts the request. A selected
choice of an older edition earns nothing, because the edit replaced the choices.

Nothing bounds the points of a question from below (`questions/schemas.py:108`,
`tests/schemas.py:101`), so `Values` is any set of integers: a linked question may be worth 0 or
less, and `score` and `max_score` may be negative. A negative question lowers `max_score`
(`practice_service.py:173`), and a player who leaves it out is not charged for it: with questions
worth 3 and -2 the maximum is 1, the first alone scores 3, and the percentage is 300. The bound of
`ScoreIsFair` is therefore `max_score` and what the negative questions took off it (`Penalties`).

| Run | Question | Result |
|---|---|---|
| `Practice` | Is there one attempt in progress, is a submitted one final, and is a score fair, while the owner edits, unpublishes or deletes the test? | one, or with overlap at most as many as requests at a time; without overlap a submission is final and its score is what the answers earned, above `max_score` by at most what the negative questions took off that, unless the owner raised the points in between |

Bounds. Two attempts and two questions, each worth 2 or -1, so that a score can be above
`max_score`, below 0 or both of one sign; two editions; four requests and two steps of the owner. `CHECK_DEADLOCK FALSE`: after that nothing is left to do.

### Proofs (`Practice_proofs.tla`)

For any number of attempts, questions and overlapping requests, and any integer points: `TypeCorrect`,
`FewInProgress` (`OneInProgress`, by the same counting as `Room` of section 8), `ScoresAreFair`
(`ScoreIsFair`) and `SubmittedStaysFinal` (`SubmittedIsFinal`). The score of a submission is
the sum of what the answers earned. Question by question, an answer earns at most what the
question could add to a score (`Gain`) at the start, where none gained points since; `SumMonotone`
carries that to the sums, and `SumPlus` splits them into `max_score` and `Penalties`. The owner's steps are no requests and come
at any time: `Fresh` says only that the attempt is in progress or was deleted with its test.

## 10. Enrollment

`Enrollment.tla` models `ExamService` for the exams of one owner and their participants, and
`ApplyService` for apply links, applications and reviews.

| Variable | Code |
|---|---|
| `exams` | `exams.status`, or that there is no such row |
| `apply_links` | table `exam_apply_links`: exam, `max_uses` (0: none), `use_count`, `is_active` |
| `applicants` | table `exam_applicants`: the status of an application and the link it came by |
| `participants` | table `exam_participants`; history: `seated`, those a review put there |
| `requests` | what each request loaded; of a bulk review also the applications still to do |

A handler that writes only what it did not compute from a row is one step
(`update_exam`, `deactivate_apply_link`, ...); the others read first and write later. A review
commits with its notification, so `bulk_review` is a sequence of `ReviewRead` and
`ReviewCommit`, and an error between them leaves the rest undecided.

| Run | Question | Result |
|---|---|---|
| `Enrollment` | Are the limits of the plan and of a link kept, and does a decision stand? | what belongs to a deleted exam is gone with it; exams and participants stay within the plan, and with overlap pass it by at most one; `use_count` never exceeds `max_uses`; without overlap it counts the applications, and a decision stands |

Reviews do not look at the limit of participants (`apply_service.py:243`), so `PlanLimits` counts
those they seated apart. With overlap two applications through a link count as one, so that more than `max_uses` of them
can come by it, and a second review overwrites the first: a rejected applicant keeps the place.

Bounds. Four exams against a limit of two (a third is the overshoot, a fourth must not come;
a copy needs an exam and room for one more), two users against a limit of one participant,
one link with one, two or unlimited uses, two workers, six requests: create a link, apply
twice, review twice, and one to come in between.
`CHECK_DEADLOCK FALSE`: after the sixth request nothing is left to do.

### Proofs (`Enrollment_proofs.tla`)

For any number of exams, links, users and overlapping requests, and every limit: `TypeCorrect`,
`LimitsHold` (`PlanLimits`), `LinksNotOverused` (`LinkUses`) and `DecisionsAreFinal`
(`DecisionStands`). `PlanLimits` is proved by `Room`, as in section 8, once for the exams and once
for the participants of each exam that no review put there. `LinkUses` needs two arguments: in
every interleaving `use_count` is at most the number of applications, and an application in
flight has seen a count below `max_uses`, so the count it writes back is within both; without
overlap it is exactly the number of applications (`Exact`). A decision stands because an
application in flight to be decided is still pending when it runs alone.
`MaxExams` is at least one, as every tier allows.

The routers of exams, apply links and certificates are left out of the API at this commit
(`api/v1/__init__.py:21-42`, "temporarily"); sections 4 and 10 model the handlers as they
stand, for when they are back.

## 11. The catalog

`Catalog.tla` models what is on offer and what an administrator does to it: plans and payment
cards (`AdminService`), the pricing page with its features, discounts and promo codes
(`BillingService`).

| Variable | Code |
|---|---|
| `rows` | tables `plans`, `payment_cards`, `pricing_plans`, `discounts`, `promo_codes`, by primary key; `phase` is `is_active` with the dates of a row |
| `features` | table `pricing_plan_features`: each list a request sends has a number, and a plan has the rows of a set of lists |
| `links`, `usages` | tables `promo_code_plans` and `promo_code_usages` (per code, the user of each usage) |
| `referred` | the plans and cards that `payments` and `user_subscriptions` refer to |
| `calls` | the row each request loaded, the row it sends, the lists and links it loaded |
| `latest`, `edited`, `concurrent` | history: the list a plan was given last, the codes whose terms were changed, whether requests overlapped |

| Actions | Code |
|---|---|
| `CreatePlan`, `CreateCard`, `CreateDiscount`, `CreateCode`, then `Insert` | creation: look for the name or the plan, insert |
| `UpdatePlan`, `UpdateCard`, `UpdatePricing`, `UpdateDiscount`, `UpdateCode`, then `Write` | update: load, then write the columns that differ from what was loaded (`Merge`); a list of features and the links of a code are replaced |
| `DeleteRead`, `Delete` | deletion, which a foreign key may refuse |
| `ApplyRead`, `ApplyCount`, `Redeem` | `validate_promo_code` and `apply_promo_code`: check the code, count the user's uses, write the usage and `used_count` |
| `PayRead`, `Pay`, `SubscribeLookup`, `Subscribe` | the references that payments and subscriptions make |
| `SeedPlans`, `Restart`, `Elapse` | `seed` of plans, the seeding of the pricing page at each start, the passing of dates |

Abstracted: texts, currencies and the order of rows; a form changes one column at a time,
since columns are written independently; with several open discounts the page shows any of
them, because the query has no order; users are not deleted. No route leads to
`apply_promo_code` at this commit: it is modelled as it stands, for when one does.

| Run | Question | Result |
|---|---|---|
| `Catalog` | What does a code count, what may a price become, and what is lost when two requests overlap? | names stay unique and what is referred to stays; `used_count` never exceeds the usages, and equals them until requests overlap; a price stays between nothing and that of its plan; a plan has the list it was given last |

What overlap breaks, and where the properties draw the line. Two redemptions that loaded the
same `used_count` both write it and 1 (`CodeUses` claims equality without overlap only), and
both may have counted the user's uses before either was written: a user exceeds `per_user`
by at most one for each other worker, and not by one for each time that happens. Two updates of one list of features each delete the rows
they loaded and add their own, so both lists stay (`ListsAsSent`). One weakness is no race:
`PromoCodeUpdate` does not repeat the bounds of `PromoCodeCreate`, so an edited percentage may
exceed 100 and the amount turn negative; `PriceIsSane` claims that for codes whose terms were
not edited. And the seeding looks for defaults by name, so one that was renamed comes back.

Bounds. One default plan and one default of the pricing page, one card, and a second key in
each of these tables for what is created; one discount; two promo codes, of which the first
takes 50 % and may be used once; values of 50 and 150, limits of none and 1; two users, two
workers. `MaxServed = 3` counts requests, starts and passing dates: two requests that overlap
and a third before or after, which is what each of the properties takes to go wrong.
`CHECK_DEADLOCK FALSE`: after the third nothing is left to do.

### Proofs (`BillingService_proofs.tla`, second half)

For any tables, names, prices, limits and percentages, and any finite number of workers:
`CatalogTypes` (`CatalogTypeOK`), `PricesAreSane` (`PriceIsSane`), `CodeUsesHold` (`CodeUses`) and
`ListsKept` (`ListsAsSent`); and `CatalogAdvances`, which no run states. Assumed of the constants
(`CatalogAssumption`): the primary keys of the tables are different, prices, values, limits and
amounts are naturals, the percentages of discounts at most 100 as their form requires, and the
first promo code is one that its form admits.

`CatalogTypes` rests on `Kept`. Beside the tables it says what a call in flight may rely on
(`CallOK`): a key that was drawn for a creation is drawn by that call alone and not used yet
(`DrawnOnce`), the key of any other call is of a row that is or has been there, a count that was
loaded was not too high, and terms that were loaded are those of the row until an edit. It
survives the steps of others because of `Advance`, an action that every step is: a key is used
once, a use is never taken back while the code is there, terms change only where they are
edited. `CatalogAdvances` states that for the specification. The unique names are the
constraint that a commit must satisfy, and seeding keeps them because it adds only defaults
that are missing by name, each under a key of its own (`SeedingAdds`).

`CodeUses` needs two more invariants. `Room`: the uses of a user and the calls that are about to
add one (`Redeeming`) are together at most `per_user`, and once calls overlap at most
`Cardinality(Handlers) - 1` more. A call that has counted finds fewer uses than `per_user`, and
no more calls than there are workers can be redeeming; a redemption turns one summand into
the other. This is why the excess does not grow with the number of overlaps, which a bounded
run cannot show. `InOrder` is the `Serial` of this module: until calls overlap the one in flight
finds what it loaded (`AsLoaded`), so that `used_count` is the number of usages and the one list
that is loaded is the one that is replaced. `ListsAsSent` follows from it, and in every
interleaving from an update adding its own list to the ones it does not know of.

`PriceIsSane` follows from `Kept`, which bounds the percentage of an unedited code, and from
`Share`: a percentage of an amount, rounded down, is between nothing and the amount.

No fairness is assumed in sections 4 to 11: users and administrators may stop at any time, and
the only loop of the program is the sweeper of section 3.

## 12. Not modelled

- Payment providers other than `manual_card` (not implemented in the code) and the webhook,
  which answers 501.
- Rasch calibration: floating-point estimation, which TLC has no numbers for; what it writes
  decides only which questions a Rasch test selects, and that is left open in section 8.
- Statistics, leaderboards, reviews of attempts, dashboards and exports: they read only.
- The inbox of notifications (list, mark as read, delete: single rows of one user); that a
  notification commits its caller is in the actions that send one.
- Verification of tokens and nonces, rate limiters, e-mail, files, covers and avatars,
  favourites, settings of a test, templates, schemas, logging and static files.
- Code that nothing calls: the bank operations of `TestService`, `delete_apply_link`,
  `ExamService.start_attempt` and `submit_attempt`, the reset of a password by e-mail.
- PostgreSQL's finer interleavings (section 3), and the start-up migrations.
