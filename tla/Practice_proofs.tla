---------------------------- MODULE Practice_proofs ----------------------------
(***************************************************************************)
(* Theorems about Practice, for any number of attempts, questions and      *)
(* overlapping requests, and any integers questions may be worth.          *)
(***************************************************************************)
EXTENDS Practice, FiniteSetTheorems, TLAPS

-------------------------------------------------------------------------------
(* Sums: what SumFunction of module Functions gives.  Induction is by the  *)
(* least counterexample, on sets of numbers and of subsets.                *)

LEMMA LeastNatural ==
  ASSUME NEW T \in SUBSET Nat, T # {}
  PROVE  \E n \in T : \A m \in T : n <= m
<1>1. PICK n \in T : \A m \in T : <<m, n>> \notin OpToRel(<, Nat)
  <2> HIDE DEF OpToRel
  <2> QED BY NatLessThanWellFounded, WFMin
<1>2. \A m \in T : ~(m < n)
  BY <1>1 DEF OpToRel
<1> QED BY <1>2

\* The element a sum takes next, and what is left then.
First(s) == CHOOSE x \in s : TRUE

Rest(s) == s \ {First(s)}

LEMMA FirstRest ==
  ASSUME NEW Q, IsFiniteSet(Q), NEW s \in SUBSET Q, s # {}
  PROVE  First(s) \in s /\ Rest(s) \in SUBSET Q /\ Cardinality(Rest(s)) = Cardinality(s) - 1
<1>1. First(s) \in s
  BY DEF First
<1>2. Cardinality(s \ {First(s)}) = Cardinality(s) - 1
  BY <1>1, FS_Subset, FS_RemoveElement
<1> QED BY <1>1, <1>2 DEF Rest

LEMMA SubsetsOf ==
  ASSUME NEW Q, IsFiniteSet(Q)
  PROVE  \A s \in SUBSET Q : IsFiniteSet(s) /\ Cardinality(s) \in Nat
  BY FS_Subset, FS_CardinalityType

\* What holds of the empty set, and of a set when it holds of its rest, holds of all.
LEMMA SetInduction ==
  ASSUME NEW Q, IsFiniteSet(Q), NEW P \in SUBSET (SUBSET Q), {} \in P,
         \A s \in SUBSET Q : s # {} /\ Rest(s) \in P => s \in P
  PROVE  Q \in P
<1> DEFINE Bad == {n \in Nat : \E s \in SUBSET Q : Cardinality(s) = n /\ s \notin P}
<1>1. \A s \in SUBSET Q : IsFiniteSet(s) /\ Cardinality(s) \in Nat
  BY SubsetsOf
<1>2. ASSUME Bad # {} PROVE FALSE
  <2>1. PICK n \in Bad : \A m \in Bad : n <= m
    BY <1>2, LeastNatural
  <2>2. PICK s \in SUBSET Q : Cardinality(s) = n /\ s \notin P
    BY <2>1
  <2>3. Cardinality(Rest(s)) = n - 1 /\ Rest(s) \in SUBSET Q
    BY <2>2, FirstRest
  <2>4. n - 1 \notin Bad
    BY <2>1
  <2> QED BY <1>1, <2>2, <2>3, <2>4
<1> QED BY <1>1, <1>2

\* g sums f over the sets of D.
Term(f, g, s) == IF s = {} THEN 0 ELSE f[First(s)] + g[Rest(s)]

SumsTo(f, g, D) == g = [s \in D |-> Term(f, g, s)]

\* The recursive definition in MapThenFoldSet has a solution.
LEMMA SumExists ==
  ASSUME NEW Q, IsFiniteSet(Q), NEW f
  PROVE  \E g : SumsTo(f, g, SUBSET Q)
<1> DEFINE D(n) == {s \in SUBSET Q : Cardinality(s) <= n}
           Bad == {n \in Nat : ~ \E g : SumsTo(f, g, D(n))}
<1>1. \A s \in SUBSET Q : IsFiniteSet(s) /\ Cardinality(s) \in Nat
  BY SubsetsOf
<1>2. ASSUME Bad # {} PROVE FALSE
  <2>1. PICK n \in Bad : \A m \in Bad : n <= m
    BY <1>2, LeastNatural
  <2>2. CASE n = 0
    <3>1. \A s \in D(0) : s = {}
      BY <1>1, FS_EmptySet
    <3>2. SumsTo(f, [s \in D(0) |-> 0], D(0))
      BY <3>1 DEF SumsTo, Term
    <3> QED BY <2>1, <2>2, <3>2
  <2>3. CASE n # 0
    <3>1. n - 1 \in Nat /\ n - 1 \notin Bad
      <4> HIDE DEF Bad
      <4>1. n \in Nat
        BY DEF Bad
      <4> QED BY <2>1, <2>3, <4>1
    <3>2. PICK g : SumsTo(f, g, D(n - 1))
      BY <3>1
    <3> DEFINE h == [s \in D(n) |-> Term(f, g, s)]
    <3>3. ASSUME NEW s \in D(n), s # {} PROVE Rest(s) \in D(n - 1)
      BY <1>1, <2>1, <3>3, FirstRest
    <3>4. \A s \in D(n - 1) : s \in D(n)
      BY <1>1, <2>1
    <3>5. \A s \in D(n - 1) : h[s] = g[s]
      BY <3>2, <3>4 DEF SumsTo
    <3>6. \A s \in D(n) : Term(f, g, s) = Term(f, h, s)
      <4> HIDE DEF h
      <4> QED BY <3>3, <3>5 DEF Term
    <3>7. SumsTo(f, h, D(n))
      BY <3>6 DEF SumsTo
    <3> QED BY <2>1, <3>7
  <2> QED BY <2>2, <2>3
<1>3. Cardinality(Q) \in Nat /\ D(Cardinality(Q)) = SUBSET Q
  BY <1>1, FS_Subset
<1> QED BY <1>2, <1>3

\* SumFunction is a sum, taken element by element.
LEMMA SumDef ==
  ASSUME NEW Q, IsFiniteSet(Q), NEW f, DOMAIN f = Q
  PROVE  \E g : SumsTo(f, g, SUBSET Q) /\ SumFunction(f) = g[Q]
<1> DEFINE g == CHOOSE g : SumsTo(f, g, SUBSET Q)
<1>1. SumsTo(f, g, SUBSET Q)
  BY SumExists
<1>2. SumFunction(f) = g[Q]
  BY DEF SumFunction, SumFunctionOnSet, FoldFunctionOnSet, MapThenFoldSet, SumsTo, Term,
         First, Rest
<1> QED BY <1>1, <1>2

LEMMA SumMonotone ==
  ASSUME NEW Q, IsFiniteSet(Q), NEW f \in [Q -> Int], NEW h \in [Q -> Int],
         \A x \in Q : f[x] <= h[x]
  PROVE  SumFunction(f) \in Int /\ SumFunction(h) \in Int /\ SumFunction(f) <= SumFunction(h)
<1>1. PICK g : SumsTo(f, g, SUBSET Q) /\ SumFunction(f) = g[Q]
  BY SumDef
<1>2. PICK k : SumsTo(h, k, SUBSET Q) /\ SumFunction(h) = k[Q]
  BY SumDef
<1> DEFINE P == {s \in SUBSET Q : g[s] \in Int /\ k[s] \in Int /\ g[s] <= k[s]}
<1>3. {} \in P
  BY <1>1, <1>2 DEF SumsTo, Term
<1>4. ASSUME NEW s \in SUBSET Q, s # {}, Rest(s) \in P PROVE s \in P
  <2>1. /\ g[s] = f[First(s)] + g[Rest(s)] /\ k[s] = h[First(s)] + k[Rest(s)]
        /\ First(s) \in Q
    BY <1>1, <1>2, <1>4, FirstRest DEF SumsTo, Term
  <2> QED BY <1>4, <2>1
<1>5. Q \in P
  <2> HIDE DEF P
  <2>1. P \in SUBSET (SUBSET Q)
    BY DEF P
  <2> QED BY <1>3, <1>4, <2>1, SetInduction
<1> QED BY <1>1, <1>2, <1>5

LEMMA SumIsInt ==
  ASSUME NEW Q, IsFiniteSet(Q), NEW f \in [Q -> Int]
  PROVE  SumFunction(f) \in Int
  BY SumMonotone

\* Two sums over the same elements are one.
LEMMA SumPlus ==
  ASSUME NEW Q, IsFiniteSet(Q), NEW e \in [Q -> Int], NEW f \in [Q -> Int],
         NEW h \in [Q -> Int], \A x \in Q : h[x] = e[x] + f[x]
  PROVE  SumFunction(h) = SumFunction(e) + SumFunction(f)
<1>1. PICK g : SumsTo(e, g, SUBSET Q) /\ SumFunction(e) = g[Q]
  BY SumDef
<1>2. PICK k : SumsTo(f, k, SUBSET Q) /\ SumFunction(f) = k[Q]
  BY SumDef
<1>3. PICK m : SumsTo(h, m, SUBSET Q) /\ SumFunction(h) = m[Q]
  BY SumDef
<1> DEFINE P == {s \in SUBSET Q : g[s] \in Int /\ k[s] \in Int /\ m[s] = g[s] + k[s]}
<1>4. {} \in P
  BY <1>1, <1>2, <1>3 DEF SumsTo, Term
<1>5. ASSUME NEW s \in SUBSET Q, s # {}, Rest(s) \in P PROVE s \in P
  <2>1. PICK x \in Q : x = First(s)
    BY <1>5, FirstRest
  <2>2. /\ g[s] = e[x] + g[Rest(s)] /\ k[s] = f[x] + k[Rest(s)] /\ m[s] = h[x] + m[Rest(s)]
    BY <1>1, <1>2, <1>3, <1>5, <2>1 DEF SumsTo, Term
  <2>3. e[x] \in Int /\ f[x] \in Int /\ h[x] = e[x] + f[x]
    OBVIOUS
  <2> QED BY <1>5, <2>2, <2>3
<1>6. Q \in P
  <2> HIDE DEF P
  <2>1. P \in SUBSET (SUBSET Q)
    BY DEF P
  <2> QED BY <1>4, <1>5, <2>1, SetInduction
<1> QED BY <1>1, <1>2, <1>3, <1>6

-------------------------------------------------------------------------------
(* Types.                                                                  *)

LEMMA WorthType ==
  ASSUME NEW p \in Points, NEW q \in Questions
  PROVE  /\ Worth(p, q) \in Values \cup {0} /\ Worth(p, q) \in Int
         /\ p[q] = None => Worth(p, q) = 0
         /\ Gain(p, q) \in Int /\ 0 <= Gain(p, q) /\ Worth(p, q) <= Gain(p, q)
<1>1. p[q] \in Values \cup {None}
  BY DEF Points
<1>2. Worth(p, q) \in Values \cup {0} /\ Worth(p, q) \in Int
  <2>1. 0 \in Int /\ \A v \in Values : v \in Int
    BY ConstantsAssumption
  <2>2. CASE p[q] = None
    BY <2>1, <2>2 DEF Worth
  <2>3. CASE p[q] # None
    BY <1>1, <2>1, <2>3 DEF Worth
  <2> QED BY <2>2, <2>3
<1>3. p[q] = None => Worth(p, q) = 0
  BY DEF Worth
<1> QED BY <1>2, <1>3 DEF Gain

LEMMA SumOfPoints == ASSUME NEW p \in Points PROVE SumPoints(p) \in Int
<1>1. [q \in Questions |-> Worth(p, q)] \in [Questions -> Int]
  BY WorthType
<1> QED BY <1>1, SumIsInt, ConstantsAssumption DEF SumPoints

\* The points of the answers that are graded.
Counted(r) == [q \in Questions |-> IF r.rows[q].live /\ r.points[q] # None
                                   THEN r.rows[q].earned ELSE 0]

\* A request that has summed still has what it summed.
RequestOK(r) ==
    /\ r.op = "start" => r.total = SumPoints(r.points)
    /\ r.op = "grade" => /\ r.total = SumFunction(Counted(r))
                         /\ \A q \in Questions : Counted(r)[q] <= Gain(r.points, q)

TablesOK ==
    /\ status \in {"draft", "active", "deleted"} /\ points \in Points
    /\ edition \in [Questions -> 1..MaxEditions]
    /\ attempts \in [Attempts -> Attempt]
    /\ answers \in [Attempts -> Rows]
    /\ \A a \in Attempts, q \in Questions :
          answers[a][q].live => attempts[a].status # "absent"
    /\ \A a \in Attempts :
          Present(a) => attempts[a].max_score = SumPoints(attempts[a].paper)

CountersOK == served \in 0..MaxServed /\ edits \in 0..MaxEdits /\ overlapped \in BOOLEAN

RequestsOK == requests \in [Workers -> Request] /\ \A w \in Workers : RequestOK(requests[w])

Typed == TablesOK /\ RequestsOK /\ CountersOK

LEMMA IdleOK == Idle \in Request /\ RequestOK(Idle)
<1>1. /\ NoAnswer \in Answer /\ NoRows \in Rows /\ NoPicks \in [Questions -> -1..MaxEditions]
      /\ NoPoints \in Points
  BY ConstantsAssumption DEF NoAnswer, Answer, NoRows, Rows, NoPicks, NoPoints, Points
<1>2. Idle \in Request
  <2> HIDE DEF NoRows, NoPicks, NoPoints
  <2>1. 0 \in Int
    OBVIOUS
  <2> QED BY ZenonT(30), <1>1, <2>1 DEF Idle, Request
<1> QED BY <1>2 DEF Idle, RequestOK

LEMMA InitTyped == Init => Typed
<1> SUFFICES ASSUME Init PROVE Typed
  OBVIOUS
<1>1. NoAnswer \in Answer /\ NoRows \in Rows /\ NoPoints \in Points
  BY ConstantsAssumption DEF NoAnswer, Answer, NoRows, Rows, NoPoints, Points
<1>2. NoAttempt \in Attempt
  BY <1>1 DEF NoAttempt, Attempt
<1>3. points \in Points /\ edition \in [Questions -> 1..MaxEditions]
  <2>1. 1 \in 1..MaxEditions
    BY ConstantsAssumption
  <2> QED BY <2>1 DEF Init, Points
<1>4. \A a \in Attempts : /\ answers[a] = NoRows /\ ~Present(a)
                          /\ \A q \in Questions : ~answers[a][q].live
  BY DEF Init, NoRows, NoAnswer, Present, NoAttempt
<1>5. TablesOK
  BY <1>1, <1>2, <1>3, <1>4 DEF Init, TablesOK
<1>6. CountersOK
  <2>1. 0 \in 0..MaxServed /\ 0 \in 0..MaxEdits
    BY ConstantsAssumption
  <2> QED BY <2>1 DEF Init, CountersOK
<1> QED BY <1>5, <1>6, IdleOK DEF Init, Typed, RequestsOK

LEMMA RequestsStep ==
  ASSUME RequestsOK, NEW w \in Workers, NEW r \in Request, RequestOK(r),
         requests' = [requests EXCEPT ![w] = r]
  PROVE  RequestsOK'
  BY DEF RequestsOK, RequestOK, Counted

LEMMA BeginKeeps ==
  ASSUME Typed, NEW w \in Workers, NEW r \in Request, RequestOK(r), Begin(w, r)
  PROVE  Typed'
<1>1. RequestsOK'
  BY RequestsStep DEF Typed, Begin
<1>2. TablesOK'
  BY DEF Typed, TablesOK, Begin, test, Present
<1>3. CountersOK'
  <2>1. served' \in 0..MaxServed /\ edits' \in 0..MaxEdits
    BY ConstantsAssumption DEF Typed, CountersOK, Begin
  <2>2. overlapped' \in BOOLEAN
    BY ZenonT(30) DEF Typed, CountersOK, Begin, Busy
  <2> QED BY <2>1, <2>2 DEF CountersOK
<1> QED BY <1>1, <1>2, <1>3 DEF Typed

LEMMA ServeKeeps ==
  ASSUME Typed, NEW w \in Workers, NEW op, Serving(w, op), TablesOK', NEW r \in Request,
         RequestOK(r), requests' = [requests EXCEPT ![w] = r]
  PROVE  Typed'
  BY RequestsStep DEF Typed, Serving, CountersOK

LEMMA PicksType == Typed => Picks \subseteq [Questions -> -1..MaxEditions]
<1> SUFFICES ASSUME Typed, NEW p \in Picks PROVE p \in [Questions -> -1..MaxEditions]
  OBVIOUS
<1>1. /\ p \in [Questions -> {-1, 0} \cup {edition[q] : q \in Questions}]
      /\ \A q \in Questions : p[q] \in {-1, 0, edition[q]}
  BY DEF Picks
<1>2. \A q \in Questions : edition[q] \in 1..MaxEditions
  BY DEF Typed, TablesOK
<1>3. \A q \in Questions : p[q] \in -1..MaxEditions
  BY <1>1, <1>2, ConstantsAssumption
<1> QED BY <1>1, <1>3

-------------------------------------------------------------------------------
(* Requests.                                                               *)

LEMMA StartReadKeeps ==
  ASSUME Typed, NEW w \in Workers, StartRead(w)
  PROVE  Typed'
<1> DEFINE t == SumPoints(points)
           r == [Idle EXCEPT !.op = "start", !.points = points, !.total = t]
<1>1. points \in Points /\ t \in Int
  BY SumOfPoints DEF Typed, TablesOK
<1>2. r \in Request
  <2> HIDE DEF t
  <2> QED BY ZenonT(30), <1>1, IdleOK DEF Request
<1>3. RequestOK(r)
  BY DEF RequestOK, Idle
<1>4. Begin(w, r)
  BY DEF StartRead
<1> HIDE DEF r
<1> QED BY <1>2, <1>3, <1>4, BeginKeeps

LEMMA AnswersReadKeep ==
  ASSUME Typed, NEW w \in Workers, NEW a \in Attempts, SaveRead(w, a) \/ SubmitRead(w, a)
  PROVE  Typed'
<1>1. PICK p \in Picks, op \in {"save", "submit"} :
         Begin(w, [Idle EXCEPT !.op = op, !.attempt = {a}, !.rows = answers[a], !.picks = p])
  BY DEF SaveRead, SubmitRead
<1> DEFINE S == {a}
           r == [Idle EXCEPT !.op = op, !.attempt = S, !.rows = answers[a], !.picks = p]
<1>2. S \in SUBSET Attempts /\ answers[a] \in Rows /\ p \in [Questions -> -1..MaxEditions]
  BY PicksType DEF Typed, TablesOK
<1>3. r \in Request
  <2> HIDE DEF S
  <2> QED BY ZenonT(30), <1>2, IdleOK DEF Request
<1>4. RequestOK(r)
  BY DEF RequestOK, Idle
<1> QED BY <1>1, <1>3, <1>4, BeginKeeps

LEMMA StartCommitKeeps ==
  ASSUME Typed, NEW w \in Workers, StartCommit(w)
  PROVE  Typed'
<1>1. PICK t, p : t = requests[w].total /\ p = requests[w].points
  OBVIOUS
<1>2. t \in Int /\ p \in Points /\ t = SumPoints(p)
  BY <1>1 DEF StartCommit, Serving, Typed, RequestsOK, RequestOK, Request
<1> DEFINE row == [NoAttempt EXCEPT !.status = "in_progress", !.max_score = t, !.paper = p]
<1>3. PICK a \in Attempts : /\ attempts[a].status = "absent"
                            /\ attempts' = [attempts EXCEPT ![a] = row]
  BY <1>1 DEF StartCommit
<1>4. row \in Attempt /\ row.max_score = t /\ row.paper = p /\ row.status = "in_progress"
  <2>1. NoPoints \in Points
    BY ConstantsAssumption DEF NoPoints, Points
  <2>2. NoAttempt \in Attempt
    BY <2>1 DEF NoAttempt, Attempt
  <2> QED BY <1>2, <2>2 DEF NoAttempt, Attempt
<1> HIDE DEF row
<1>5. TablesOK'
  BY <1>2, <1>3, <1>4 DEF StartCommit, Serving, test, Typed, TablesOK, Present
<1> QED BY <1>5, IdleOK, ServeKeeps DEF StartCommit, Finish

\* Saved answers are rows of the attempt, which is there.
LEMMA WrittenType ==
  ASSUME NEW r \in Request, NEW q \in Questions, NEW row \in Answer
  PROVE  /\ Written(r, q, row) \in Answer
         /\ Written(r, q, row).earned = row.earned
         /\ r.picks[q] # -1 /\ row.live = r.rows[q].live => Written(r, q, row).live
<1>1. r.picks[q] \in -1..MaxEditions
  BY DEF Request
<1>2. r.picks[q] # -1 => r.picks[q] \in 0..MaxEditions
  BY <1>1, ConstantsAssumption
<1> QED BY <1>2 DEF Written, Answer

LEMMA SaveTypes ==
  ASSUME Typed, NEW r \in Request, NEW a \in Attempts, Save(a, r)
  PROVE  /\ answers' \in [Attempts -> Rows] /\ Present(a)
         /\ \A b \in Attempts : b # a => answers'[b] = answers[b]
         /\ \A q \in Questions : /\ answers'[a][q] = Written(r, q, answers[a][q])
                                 /\ answers'[a][q].earned = answers[a][q].earned
<1>1. Present(a) /\ answers' = [answers EXCEPT ![a] =
                        [q \in Questions |-> Written(r, q, answers[a][q])]]
  BY DEF Save, Writable, Typed, TablesOK
<1>2. \A q \in Questions : answers[a][q] \in Answer
  BY DEF Typed, TablesOK, Rows
<1>3. \A q \in Questions : /\ Written(r, q, answers[a][q]) \in Answer
                           /\ Written(r, q, answers[a][q]).earned = answers[a][q].earned
  BY <1>2, WrittenType
<1> QED BY <1>1, <1>3 DEF Typed, TablesOK, Rows

LEMMA SaveKeepsTables ==
  ASSUME Typed, NEW r \in Request, NEW a \in Attempts, Save(a, r), UNCHANGED <<test, attempts>>
  PROVE  TablesOK'
<1>1. /\ answers' \in [Attempts -> Rows] /\ Present(a)
      /\ \A b \in Attempts : b # a => answers'[b] = answers[b]
  BY SaveTypes
<1> QED BY <1>1 DEF Typed, TablesOK, Present, test

LEMMA SaveCommitKeeps ==
  ASSUME Typed, NEW w \in Workers, SaveCommit(w)
  PROVE  Typed'
<1>1. PICK r : r = requests[w]
  OBVIOUS
<1>2. r \in Request
  BY <1>1 DEF Typed, RequestsOK
<1>3. PICK a \in Attempts : Save(a, r)
  BY <1>1, <1>2 DEF SaveCommit, Request
<1>4. TablesOK'
  BY <1>2, <1>3, SaveKeepsTables DEF SaveCommit, Serving
<1> QED BY <1>4, IdleOK, ServeKeeps DEF SaveCommit, Finish

\* What is graded is a row of the test, and earns at most the gain of its question.
LEMMA GradedType ==
  ASSUME NEW p \in Points, NEW rows \in Rows
  PROVE  /\ Graded(p, rows) \in Rows
         /\ [q \in Questions |-> Earned(p, q, rows[q])] \in [Questions -> Int]
         /\ \A q \in Questions :
               /\ Graded(p, rows)[q].live = rows[q].live
               /\ Earned(p, q, rows[q]) <= Gain(p, q)
               /\ rows[q].live /\ p[q] # None =>
                     Graded(p, rows)[q].earned = Earned(p, q, rows[q])
               /\ ~(rows[q].live /\ p[q] # None) => Earned(p, q, rows[q]) = 0
<1>1. ASSUME NEW q \in Questions
      PROVE  /\ Earned(p, q, rows[q]) \in Values \cup {0} /\ Earned(p, q, rows[q]) \in Int
             /\ Earned(p, q, rows[q]) <= Gain(p, q)
             /\ ~(rows[q].live /\ p[q] # None) => Earned(p, q, rows[q]) = 0
  BY WorthType DEF Earned
<1>2. ASSUME NEW q \in Questions
      PROVE  /\ Graded(p, rows)[q] \in Answer
             /\ Graded(p, rows)[q].live = rows[q].live
             /\ rows[q].live /\ p[q] # None =>
                   Graded(p, rows)[q].earned = Earned(p, q, rows[q])
  <2>1. rows[q] \in Answer
    BY DEF Rows
  <2> QED BY <1>1, <2>1 DEF Graded, Answer
<1>3. Graded(p, rows) \in Rows
  BY <1>2 DEF Graded, Rows
<1> QED BY <1>1, <1>2, <1>3

\* The request after its grading.
LEMMA GradeStep ==
  ASSUME Typed, NEW w \in Workers, SubmitGrade(w)
  PROVE  \E r \in Request, x \in Request, a \in Attempts :
            /\ r = requests[w] /\ a \in r.attempt /\ Save(a, r)
            /\ requests' = [requests EXCEPT ![w] = x] /\ RequestOK(x)
            /\ x.op = "grade" /\ x.attempt = r.attempt
            /\ x.seen \in {0, attempts[a].score}
<1>1. PICK r : r = requests[w]
  OBVIOUS
<1>2. r \in Request
  BY <1>1 DEF Typed, RequestsOK
<1> DEFINE rows(a) == [q \in Questions |-> Loaded(r, q, answers'[a][q])]
           seen(a) == IF r.picks = NoPicks THEN 0 ELSE attempts[a].score
<1>3. PICK a \in r.attempt :
         /\ Save(a, r)
         /\ requests' = [requests EXCEPT ![w] =
                [r EXCEPT !.op = "grade", !.rows = Graded(points, rows(a)), !.picks = NoPicks,
                          !.points = points, !.total = TotalScore(points, rows(a)),
                          !.seen = seen(a)]]
  BY <1>1 DEF SubmitGrade
<1>4. a \in Attempts
  BY <1>2 DEF Request
<1>5. rows(a) \in Rows
  <2>1. answers'[a] \in Rows
    BY <1>2, <1>3, <1>4, SaveTypes
  <2>2. ASSUME NEW q \in Questions PROVE Loaded(r, q, answers'[a][q]) \in Answer
    <3>1. answers'[a][q] \in Answer /\ r.rows[q] \in Answer
      BY <1>2, <2>1 DEF Rows, Request
    <3> QED BY <1>2, <3>1, WrittenType DEF Loaded
  <2> QED BY <2>2 DEF Rows
<1>6. PICK s, g, t, n : /\ s = rows(a) /\ g = Graded(points, s) /\ t = TotalScore(points, s)
                        /\ n = seen(a)
  OBVIOUS
<1>7. points \in Points /\ s \in Rows
  BY <1>5, <1>6 DEF Typed, TablesOK
<1>8. g \in Rows /\ t \in Int
  BY <1>6, <1>7, GradedType, ConstantsAssumption, SumIsInt DEF TotalScore
<1>9. n \in Int /\ n \in {0, attempts[a].score}
  BY <1>4, <1>6 DEF Typed, TablesOK, Attempt
<1> DEFINE x == [r EXCEPT !.op = "grade", !.rows = g, !.picks = NoPicks, !.points = points,
                          !.total = t, !.seen = n]
<1>10. NoPicks \in [Questions -> -1..MaxEditions]
  BY ConstantsAssumption DEF NoPicks
<1>11. x \in Request
  <2> HIDE DEF seen, rows
  <2> QED BY ZenonT(60), <1>2, <1>7, <1>8, <1>9, <1>10 DEF Request
<1>12. /\ x.op = "grade" /\ x.rows = g /\ x.points = points /\ x.total = t
       /\ x.seen = n /\ x.attempt = r.attempt
  BY <1>2 DEF Request
<1>13. requests' = [requests EXCEPT ![w] = x]
  BY <1>3, <1>6
<1> HIDE DEF x
<1>14. RequestOK(x)
  <2>1. \A q \in Questions : /\ Counted(x)[q] = Earned(points, q, s[q])
                             /\ Earned(points, q, s[q]) <= Gain(points, q)
    BY <1>6, <1>7, <1>12, GradedType DEF Counted
  <2>2. Counted(x) = [q \in Questions |-> Earned(points, q, s[q])]
    BY <2>1 DEF Counted
  <2> QED BY <1>6, <1>12, <2>1, <2>2 DEF RequestOK, TotalScore
<1> QED BY <1>1, <1>2, <1>3, <1>4, <1>9, <1>11, <1>12, <1>13, <1>14

LEMMA SubmitGradeKeeps ==
  ASSUME Typed, NEW w \in Workers, SubmitGrade(w)
  PROVE  Typed'
<1>1. PICK r \in Request, x \in Request, a \in Attempts :
         /\ a \in r.attempt /\ Save(a, r)
         /\ requests' = [requests EXCEPT ![w] = x] /\ RequestOK(x)
  BY GradeStep
<1>2. TablesOK'
  BY <1>1, SaveKeepsTables DEF SubmitGrade, Serving
<1> QED BY <1>1, <1>2, ServeKeeps DEF SubmitGrade

\* What a graded submission writes.
LEMMA SubmitStep ==
  ASSUME Typed, NEW w \in Workers, SubmitCommit(w)
  PROVE  \E r \in Request, a \in Attempts :
            /\ r = requests[w] /\ r.op = "grade" /\ a \in r.attempt /\ Present(a)
            /\ attempts' = [attempts EXCEPT ![a] = Scored(attempts[a], r)]
            /\ Scored(attempts[a], r) \in Attempt
            /\ answers' \in [Attempts -> Rows]
            /\ \A b \in Attempts : b # a => answers'[b] = answers[b]
            /\ \A q \in Questions :
                  /\ answers'[a][q].live = answers[a][q].live
                  /\ answers'[a][q].earned = IF r.rows[q].live /\ r.points[q] # None
                                             THEN r.rows[q].earned ELSE answers[a][q].earned
<1>1. PICK r : r = requests[w]
  OBVIOUS
<1>2. r \in Request /\ r.op = "grade"
  BY <1>1 DEF SubmitCommit, Serving, Typed, RequestsOK
<1> DEFINE new(a, q) == IF r.rows[q].live /\ r.points[q] # None
                        THEN [answers[a][q] EXCEPT !.earned = r.rows[q].earned]
                        ELSE answers[a][q]
<1>3. PICK a \in r.attempt : /\ Present(a)
                             /\ attempts' = [attempts EXCEPT ![a] = Scored(attempts[a], r)]
                             /\ answers' = [answers EXCEPT ![a] =
                                               [q \in Questions |-> new(a, q)]]
  BY <1>1, ZenonT(40) DEF SubmitCommit
<1>4. a \in Attempts
  BY <1>2 DEF Request
<1>5. ASSUME NEW q \in Questions
      PROVE  /\ new(a, q) \in Answer /\ new(a, q).live = answers[a][q].live
             /\ new(a, q).earned = IF r.rows[q].live /\ r.points[q] # None
                                   THEN r.rows[q].earned ELSE answers[a][q].earned
  <2>1. answers[a][q] \in Answer /\ r.rows[q].earned \in Values \cup {0}
    BY <1>2, <1>4 DEF Typed, TablesOK, Rows, Request, Answer
  <2> QED BY <2>1 DEF Answer
<1>6. Scored(attempts[a], r) \in Attempt
  <2>1. attempts[a] \in Attempt /\ r.points \in Points /\ r.total \in Int
    BY <1>2, <1>4 DEF Typed, TablesOK, Request
  <2>2. PICK n, p : n = (IF r.total = r.seen THEN attempts[a].score ELSE r.total)
                    /\ p = r.points
    OBVIOUS
  <2>3. n \in Int /\ p \in Points
    BY <2>1, <2>2 DEF Attempt
  <2>4. [attempts[a] EXCEPT !.status = "completed", !.score = n, !.graded = p] \in Attempt
    BY ZenonT(30), <2>1, <2>3 DEF Attempt
  <2> QED BY <2>1, <2>2, <2>4 DEF Scored, Attempt
<1>7. /\ answers' \in [Attempts -> Rows]
      /\ \A b \in Attempts : b # a => answers'[b] = answers[b]
      /\ \A q \in Questions : answers'[a][q] = new(a, q)
  <2> HIDE DEF new
  <2> QED BY <1>3, <1>4, <1>5 DEF Typed, TablesOK, Rows
<1> QED BY <1>1, <1>2, <1>3, <1>4, <1>5, <1>6, <1>7

LEMMA SubmitCommitKeeps ==
  ASSUME Typed, NEW w \in Workers, SubmitCommit(w)
  PROVE  Typed'
<1>1. PICK r \in Request, a \in Attempts :
         /\ Present(a) /\ attempts' = [attempts EXCEPT ![a] = Scored(attempts[a], r)]
         /\ Scored(attempts[a], r) \in Attempt
         /\ answers' \in [Attempts -> Rows]
         /\ \A b \in Attempts : b # a => answers'[b] = answers[b]
  BY SubmitStep
<1>2. attempts[a] \in Attempt
  BY DEF Typed, TablesOK
<1>3. /\ Scored(attempts[a], r).status = "completed"
      /\ Scored(attempts[a], r).max_score = attempts[a].max_score
      /\ Scored(attempts[a], r).paper = attempts[a].paper
  BY <1>2 DEF Scored, Attempt
<1>4. TablesOK'
  BY <1>1, <1>3 DEF SubmitCommit, Serving, test, Typed, TablesOK, Present
<1> QED BY <1>4, IdleOK, ServeKeeps DEF SubmitCommit, Finish

LEMMA PlayerKeeps ==
  ASSUME Typed, NEW w \in Workers, Player(w)
  PROVE  Typed'
<1>1. CASE Abort(w)
  <2>1. TablesOK'
    BY <1>1 DEF Abort, Serving, Typed, TablesOK, test, Present
  <2> QED BY <1>1, <2>1, IdleOK, ServeKeeps DEF Abort, Finish
<1> QED BY <1>1, StartReadKeeps, AnswersReadKeep, StartCommitKeeps, SaveCommitKeeps,
           SubmitGradeKeeps, SubmitCommitKeeps DEF Player

-------------------------------------------------------------------------------
(* The owner.                                                              *)

\* What the owner does to the rows of the players.
OwnerMoves ==
    /\ UNCHANGED requests
    /\ \A a \in Attempts :
          /\ \/ attempts'[a] = attempts[a]
             \/ Present(a) /\ attempts'[a] = [attempts[a] EXCEPT !.status = "deleted"]
          /\ \A q \in Questions : answers'[a][q] \in {answers[a][q], Dropped(answers[a][q])}
    /\ overlapped => overlapped'

OwnerStep == \/ Toggle \/ Delete
             \/ \E q \in Questions : SetPoints(q) \/ SetChoices(q) \/ Unlink(q)

LEMMA OwnerKeeps ==
  ASSUME Typed, OwnerStep
  PROVE  Typed' /\ OwnerMoves
<1>1. /\ edits' \in 0..MaxEdits /\ served' = served /\ requests' = requests
  BY ConstantsAssumption DEF OwnerStep, Toggle, Delete, SetPoints, SetChoices, Unlink,
     EditsLinks, OwnerComes, Typed, CountersOK
<1>2. overlapped' \in BOOLEAN /\ (overlapped => overlapped')
  <2>1. overlapped' = overlapped \/ overlapped' = (overlapped \/ status = "active")
    BY DEF OwnerStep, Toggle, Delete, SetPoints, SetChoices, Unlink, EditsLinks
  <2>2. overlapped' \in BOOLEAN
    BY ZenonT(30), <2>1 DEF Typed, CountersOK
  <2> QED BY <2>1, <2>2
<1>3. RequestsOK' /\ CountersOK'
  BY <1>1, <1>2 DEF Typed, RequestsOK, CountersOK, RequestOK, Counted
<1>4. ASSUME UNCHANGED <<attempts, answers>> PROVE OwnerMoves
  BY <1>1, <1>2, <1>4 DEF OwnerMoves
<1>5. CASE Toggle
  <2>1. TablesOK'
    BY <1>5 DEF Toggle, OwnerComes, Typed, TablesOK, Present
  <2> QED BY <1>3, <1>4, <1>5, <2>1 DEF Toggle, Typed
<1>6. CASE Delete
  <2>1. \A a \in Attempts :
           /\ attempts[a] \in Attempt
           /\ [attempts[a] EXCEPT !.status = "deleted"] \in Attempt
           /\ [attempts[a] EXCEPT !.status = "deleted"].status = "deleted"
    BY DEF Typed, TablesOK, Attempt
  <2>2. TablesOK'
    BY <1>6, <2>1 DEF Delete, OwnerComes, Typed, TablesOK, Present
  <2>3. OwnerMoves
    BY <1>1, <1>2, <1>6 DEF Delete, OwnerMoves
  <2> QED BY <1>3, <2>2, <2>3 DEF Typed
<1>7. ASSUME NEW q \in Questions, SetPoints(q) PROVE Typed' /\ OwnerMoves
  <2>1. points' \in Points
    <3>1. PICK p \in Values : points' = [points EXCEPT ![q] = p]
      BY <1>7 DEF SetPoints
    <3> QED BY <3>1 DEF Typed, TablesOK, Points
  <2>2. TablesOK'
    BY <1>7, <2>1 DEF SetPoints, Typed, TablesOK, Present
  <2> QED BY <1>3, <1>4, <1>7, <2>2 DEF SetPoints, Typed
<1>8. ASSUME NEW q \in Questions, SetChoices(q) PROVE Typed' /\ OwnerMoves
  <2>1. edition' \in [Questions -> 1..MaxEditions]
    <3>1. edition[q] + 1 \in 1..MaxEditions
      BY <1>8, ConstantsAssumption DEF SetChoices, Typed, TablesOK
    <3> QED BY <1>8, <3>1 DEF SetChoices, Typed, TablesOK
  <2>2. TablesOK'
    BY <1>8, <2>1 DEF SetChoices, Typed, TablesOK, Present
  <2> QED BY <1>3, <1>4, <1>8, <2>2 DEF SetChoices, Typed
<1>9. ASSUME NEW q \in Questions, Unlink(q) PROVE Typed' /\ OwnerMoves
  <2>1. points' \in Points
    BY <1>9 DEF Unlink, Typed, TablesOK, Points
  <2>2. \A a \in Attempts, x \in Questions :
           /\ answers[a][x] \in Answer /\ Dropped(answers[a][x]) \in Answer
           /\ ~Dropped(answers[a][x]).live
    <3>1. \A row \in Answer : Dropped(row) \in Answer /\ ~Dropped(row).live
      BY DEF Dropped, Answer
    <3>2. \A a \in Attempts, x \in Questions : answers[a][x] \in Answer
      BY DEF Typed, TablesOK, Rows
    <3> QED BY <3>1, <3>2
  <2>3. /\ answers' \in [Attempts -> Rows]
        /\ \A a \in Attempts, x \in Questions :
              answers'[a][x] \in {answers[a][x], Dropped(answers[a][x])}
    <3>1. CASE UNCHANGED answers
      BY <3>1 DEF Typed, TablesOK
    <3>2. CASE answers' = [a \in Attempts |->
                              [answers[a] EXCEPT ![q] = Dropped(answers[a][q])]]
      <4>1. \A a \in Attempts : answers[a] \in Rows
        BY DEF Typed, TablesOK
      <4>2. \A a \in Attempts : /\ answers'[a] = [answers[a] EXCEPT ![q] = Dropped(answers[a][q])]
                                /\ answers'[a] \in Rows
        BY <2>2, <3>2, <4>1 DEF Rows
      <4> QED BY <3>2, <4>1, <4>2 DEF Rows
    <3> QED BY <1>9, <3>1, <3>2 DEF Unlink
  <2>4. TablesOK'
    <3>1. \A a \in Attempts, x \in Questions : answers'[a][x].live => answers[a][x].live
      BY <2>2, <2>3
    <3> QED BY <1>9, <2>1, <2>3, <3>1 DEF Unlink, EditsLinks, Typed, TablesOK, Present
  <2>5. OwnerMoves
    BY <1>1, <1>2, <1>9, <2>3 DEF Unlink, OwnerMoves
  <2> QED BY <1>3, <2>4, <2>5 DEF Typed
<1> QED BY <1>5, <1>6, <1>7, <1>8, <1>9 DEF OwnerStep

LEMMA NextKeepsTyped == Typed /\ [Next]_vars => Typed'
<1> SUFFICES ASSUME Typed, [Next]_vars PROVE Typed'
  OBVIOUS
<1>1. CASE UNCHANGED vars
  <2>1. TablesOK' /\ RequestsOK'
    BY <1>1 DEF vars, test, Typed, TablesOK, RequestsOK, RequestOK, Counted, Present
  <2>2. CountersOK'
    BY <1>1 DEF vars, Typed, CountersOK
  <2> QED BY <2>1, <2>2 DEF Typed
<1> QED BY <1>1, PlayerKeeps, OwnerKeeps DEF Next, OwnerStep

LEMMA TypedInvariant == Spec => []Typed
  BY InitTyped, NextKeepsTyped, PTL DEF Spec

\* Rows and requests are well formed, and only an attempt that was started has answers,
\* whatever order requests and the owner's edits are served in (tests/models.py).
THEOREM TypeCorrect == Spec => []TypeOK
<1>1. Typed => TypeOK
  BY DEF Typed, TablesOK, RequestsOK, CountersOK, TypeOK
<1> QED BY <1>1, TypedInvariant, PTL

-------------------------------------------------------------------------------
(* Attempts in progress.                                                   *)

Starting == {w \in Workers : requests[w].op = "start"}

\* An attempt in progress keeps others from starting, not those who have looked already.
Room == /\ Cardinality(InProgress) + Cardinality(Starting) <= Cardinality(Workers)
        /\ ~overlapped => Cardinality(InProgress) + Cardinality(Starting) <= 1

LEMMA Counts ==
  /\ IsFiniteSet(InProgress) /\ Cardinality(InProgress) \in Nat
  /\ IsFiniteSet(Starting) /\ Cardinality(Starting) \in Nat
  /\ Cardinality(Workers) \in Nat /\ Cardinality(Starting) <= Cardinality(Workers)
<1>1. InProgress \subseteq Attempts /\ Starting \subseteq Workers
  BY DEF InProgress, Starting
<1> QED BY <1>1, ConstantsAssumption, FS_Subset, FS_CardinalityType

\* A step that begins no attempt and ends none but those it finishes with.
LEMMA RoomKept ==
  ASSUME Typed, Room, InProgress' \subseteq InProgress, Starting' \subseteq Starting,
         overlapped => overlapped'
  PROVE  Room'
<1>1. /\ Cardinality(InProgress') <= Cardinality(InProgress)
      /\ Cardinality(Starting') <= Cardinality(Starting)
      /\ Cardinality(InProgress') \in Nat /\ Cardinality(Starting') \in Nat
  BY Counts, FS_Subset, FS_CardinalityType
<1> QED BY <1>1, Counts DEF Room

LEMMA InitRoom == Init => Room
<1> SUFFICES ASSUME Init PROVE Room
  OBVIOUS
<1>1. InProgress = {} /\ Starting = {} /\ ~overlapped
  BY DEF Init, InProgress, Starting, Idle, NoAttempt
<1> QED BY <1>1, FS_EmptySet, Counts DEF Room

\* The requests of a step that begins nothing.
LEMMA Served ==
  ASSUME Typed, NEW w \in Workers,
         \/ StartCommit(w) \/ SaveCommit(w) \/ SubmitGrade(w) \/ SubmitCommit(w) \/ Abort(w)
  PROVE  /\ UNCHANGED <<overlapped, test>> /\ requests[w].op # "idle"
         /\ \A v \in Workers \ {w} : requests'[v] = requests[v]
         /\ \/ requests'[w] = Idle
            \/ SubmitGrade(w) /\ requests'[w].op = "grade"
<1>1. CASE SubmitGrade(w)
  <2>1. PICK x : x.op = "grade" /\ requests' = [requests EXCEPT ![w] = x]
    BY <1>1, GradeStep
  <2> QED BY <1>1, <2>1 DEF SubmitGrade, Serving, Typed, RequestsOK
<1>2. CASE StartCommit(w) \/ SaveCommit(w) \/ SubmitCommit(w) \/ Abort(w)
  BY <1>2 DEF StartCommit, SaveCommit, SubmitCommit, Abort, Serving, Finish, Typed, RequestsOK
<1> QED BY <1>1, <1>2

\* How a request begins.
LEMMA Begun ==
  ASSUME Typed, NEW w \in Workers,
         StartRead(w) \/ \E a \in Attempts : SaveRead(w, a) \/ SubmitRead(w, a)
  PROVE  \E r : /\ Begin(w, r)
                /\ \/ r.op = "start" /\ InProgress = {}
                   \/ /\ r.op \in {"save", "submit"}
                      /\ \A a \in r.attempt : attempts[a].status = "in_progress"
<1>1. CASE StartRead(w)
  <2> DEFINE r == [Idle EXCEPT !.op = "start", !.points = points, !.total = SumPoints(points)]
  <2>1. Begin(w, r) /\ InProgress = {}
    BY <1>1 DEF StartRead
  <2>2. r.op = "start"
    BY DEF Idle
  <2> QED BY <2>1, <2>2
<1>2. ASSUME NEW a \in Attempts, SaveRead(w, a) \/ SubmitRead(w, a)
      PROVE  \E r : /\ Begin(w, r) /\ r.op \in {"save", "submit"}
                    /\ \A b \in r.attempt : attempts[b].status = "in_progress"
  <2>1. PICK p \in Picks, op \in {"save", "submit"} :
           Begin(w, [Idle EXCEPT !.op = op, !.attempt = {a}, !.rows = answers[a],
                                 !.picks = p])
    BY <1>2 DEF SaveRead, SubmitRead
  <2> DEFINE r == [Idle EXCEPT !.op = op, !.attempt = {a}, !.rows = answers[a],
                               !.picks = p]
  <2>2. r.op = op /\ r.attempt = {a}
    BY DEF Idle
  <2>3. attempts[a].status = "in_progress"
    BY <1>2 DEF SaveRead, SubmitRead, Open
  <2> QED BY <2>1, <2>2, <2>3
<1> QED BY <1>1, <1>2

LEMMA PlayerKeepsRoom ==
  ASSUME Typed, Room, NEW w \in Workers, Player(w)
  PROVE  Room'
<1>1. CASE StartRead(w) \/ \E a \in Attempts : SaveRead(w, a) \/ SubmitRead(w, a)
  <2>1. PICK r : /\ Begin(w, r)
                 /\ \/ r.op \in {"save", "submit"}
                    \/ r.op = "start" /\ InProgress = {}
    BY <1>1, Begun
  <2>2. /\ InProgress' = InProgress /\ overlapped' = (overlapped \/ Busy)
        /\ \A v \in Workers : requests'[v] = IF v = w THEN r ELSE requests[v]
    BY <2>1 DEF Begin, InProgress, Typed, RequestsOK
  <2>3. CASE r.op \in {"save", "submit"}
    <3>1. Starting' \subseteq Starting
      BY <2>2, <2>3 DEF Starting
    <3> QED BY <2>2, <3>1, RoomKept
  <2>4. CASE InProgress = {}
    <3>1. Starting' \subseteq Workers
      BY DEF Starting
    <3>2. Cardinality(Starting') <= Cardinality(Workers) /\ Cardinality(Starting') \in Nat
      BY <3>1, ConstantsAssumption, FS_Subset, FS_CardinalityType
    <3>3. ASSUME ~overlapped' PROVE Cardinality(Starting') <= 1
      <4>1. ~Busy
        BY <2>2, <3>3
      <4>2. Starting' \subseteq {w}
        BY <2>2, <4>1 DEF Starting, Busy
      <4>3. IsFiniteSet({w}) /\ Cardinality({w}) = 1
        BY FS_Singleton
      <4> QED BY <4>2, <4>3, FS_Subset
    <3>4. Cardinality(InProgress') = 0
      BY <2>2, <2>4, FS_EmptySet
    <3> QED BY <3>2, <3>3, <3>4 DEF Room
  <2> QED BY <2>1, <2>3, <2>4
<1>2. CASE \/ StartCommit(w) \/ SaveCommit(w) \/ SubmitGrade(w) \/ SubmitCommit(w)
           \/ Abort(w)
  <2>1. overlapped' = overlapped /\ Starting' \subseteq Starting \ {w}
    BY <1>2, Served DEF Starting, Idle
  <2>2. CASE SaveCommit(w) \/ SubmitGrade(w) \/ SubmitCommit(w) \/ Abort(w)
    <3>1. InProgress' \subseteq InProgress
      <4>1. CASE SubmitCommit(w)
        <5>1. PICK r \in Request, a \in Attempts :
                 attempts' = [attempts EXCEPT ![a] = Scored(attempts[a], r)]
          BY <4>1, SubmitStep
        <5>2. attempts[a] \in Attempt
          BY DEF Typed, TablesOK
        <5>3. Scored(attempts[a], r).status = "completed"
          BY <5>2 DEF Scored, Attempt
        <5> QED BY <5>1, <5>3 DEF InProgress, Typed, TablesOK
      <4>2. CASE UNCHANGED attempts
        BY <4>2 DEF InProgress
      <4> QED BY <2>2, <4>1, <4>2 DEF SaveCommit, SubmitGrade, Abort
    <3> QED BY <2>1, <3>1, RoomKept
  <2>3. CASE StartCommit(w)
    <3>1. w \in Starting
      BY <2>3 DEF StartCommit, Serving, Starting
    <3>2. PICK a \in Attempts : InProgress' \subseteq InProgress \cup {a}
      BY <2>3 DEF StartCommit, InProgress, Typed, TablesOK
    <3>3. Cardinality(Starting \ {w}) = Cardinality(Starting) - 1
          /\ IsFiniteSet(Starting \ {w})
      BY <3>1, Counts, FS_RemoveElement
    <3>4. Cardinality(Starting') <= Cardinality(Starting) - 1 /\ Cardinality(Starting') \in Nat
      BY <2>1, <3>3, FS_Subset, FS_CardinalityType
    <3>5. IsFiniteSet(InProgress \cup {a})
          /\ Cardinality(InProgress \cup {a}) <= Cardinality(InProgress) + 1
      <4>1. Cardinality(InProgress \cup {a}) =
               IF a \in InProgress THEN Cardinality(InProgress) ELSE Cardinality(InProgress) + 1
        BY Counts, FS_AddElement
      <4> QED BY <4>1, Counts, FS_AddElement
    <3>6. Cardinality(InProgress') <= Cardinality(InProgress) + 1
          /\ Cardinality(InProgress') \in Nat
      <4>1. Cardinality(InProgress') <= Cardinality(InProgress \cup {a})
            /\ Cardinality(InProgress') \in Nat /\ Cardinality(InProgress \cup {a}) \in Nat
        BY <3>2, <3>5, FS_Subset, FS_CardinalityType
      <4> QED BY <3>5, <4>1, Counts
    <3> QED BY <2>1, <3>4, <3>6, Counts DEF Room
  <2> QED BY <1>2, <2>2, <2>3
<1> QED BY <1>1, <1>2 DEF Player

LEMMA NextKeepsRoom == Typed /\ Room /\ [Next]_vars => Room'
<1> SUFFICES ASSUME Typed, Room, [Next]_vars PROVE Room'
  OBVIOUS
<1>1. CASE OwnerStep
  <2>1. OwnerMoves
    BY <1>1, OwnerKeeps
  <2>2. /\ InProgress' \subseteq InProgress /\ Starting' = Starting
        /\ overlapped => overlapped'
    <3>1. \A a \in Attempts : attempts[a] \in Attempt
      BY DEF Typed, TablesOK
    <3> QED BY <2>1, <3>1 DEF OwnerMoves, InProgress, Starting, Attempt
  <2> QED BY <2>2, RoomKept
<1>2. CASE UNCHANGED vars
  <2>1. InProgress' = InProgress /\ Starting' = Starting /\ overlapped' = overlapped
    BY <1>2 DEF vars, InProgress, Starting
  <2> QED BY <2>1, RoomKept
<1> QED BY <1>1, <1>2, PlayerKeepsRoom DEF Next, OwnerStep

\* One attempt is in progress unless requests overlapped, and then no more than there are
\* workers: start looks for one and inserts one in two steps (tests/practice_service.py:130).
THEOREM FewInProgress == Spec => []OneInProgress
<1>1. Typed /\ Room => OneInProgress
  BY Counts DEF Room, OneInProgress
<1> QED BY <1>1, InitRoom, NextKeepsRoom, TypedInvariant, PTL DEF Spec

-------------------------------------------------------------------------------
(* Requests that are served one at a time.                                 *)

\* A score is what its answers earned, and fair when no question gained.
Fair(a) ==
    attempts[a].status = "completed" =>
        /\ attempts[a].score = SumFunction([q \in Questions |-> answers[a][q].earned])
        /\ (\A q \in Questions : Gain(attempts[a].graded, q) <= Gain(attempts[a].paper, q))
               => attempts[a].score <= attempts[a].max_score + Penalties(attempts[a].paper)

\* Nothing is earned before the grading.
Unscored(a) == attempts[a].status \in {"absent", "in_progress"} =>
                   /\ attempts[a].score = 0
                   /\ \A q \in Questions : answers[a][q].earned = 0

\* The attempt of a request is still in progress, or has been deleted with its test.
Fresh(r) == /\ r.op \in {"save", "submit", "grade"} =>
                  \A a \in r.attempt : attempts[a].status \in {"in_progress", "deleted"}
            /\ r.op = "grade" => r.seen = 0

Serial ==
    ~overlapped =>
        /\ \A v, w \in Workers : requests[v].op # "idle" /\ requests[w].op # "idle" => v = w
        /\ \A w \in Workers : Fresh(requests[w])
        /\ \A a \in Attempts : Fair(a) /\ Unscored(a)

LEMMA InitSerial == Init => Serial
<1> SUFFICES ASSUME Init PROVE Serial
  OBVIOUS
<1>1. \A w \in Workers : requests[w].op = "idle"
  BY DEF Init, Idle
<1>2. \A a \in Attempts : /\ attempts[a].status = "absent" /\ attempts[a].score = 0
                          /\ \A q \in Questions : answers[a][q].earned = 0
  BY DEF Init, NoAttempt, NoRows, NoAnswer
<1> QED BY <1>1, <1>2 DEF Serial, Fresh, Fair, Unscored

\* What a step that is served alone does to the attempts.
LEMMA ScoresKept ==
  ASSUME NEW a \in Attempts, Fair(a), Unscored(a),
         attempts'[a] = attempts[a],
         \A q \in Questions : answers'[a][q].earned = answers[a][q].earned
  PROVE  Fair(a)' /\ Unscored(a)'
<1>1. [q \in Questions |-> answers[a][q].earned]' = [q \in Questions |-> answers[a][q].earned]
  OBVIOUS
<1> QED BY <1>1 DEF Fair, Unscored

LEMMA BeginKeepsSerial ==
  ASSUME Typed, Serial, NEW w \in Workers,
         StartRead(w) \/ \E a \in Attempts : SaveRead(w, a) \/ SubmitRead(w, a)
  PROVE  Serial'
<1>1. PICK r : /\ Begin(w, r)
               /\ \/ r.op = "start"
                  \/ /\ r.op \in {"save", "submit"}
                     /\ \A a \in r.attempt : attempts[a].status = "in_progress"
  BY Begun
<1>2. /\ UNCHANGED <<attempts, answers>> /\ overlapped' = (overlapped \/ Busy)
      /\ \A v \in Workers : requests'[v] = IF v = w THEN r ELSE requests[v]
  BY <1>1 DEF Begin, Typed, RequestsOK
<1>3. ASSUME ~overlapped'
      PROVE  ~overlapped /\ \A v \in Workers : v # w => requests'[v].op = "idle"
  BY <1>2, <1>3 DEF Busy
<1>4. Fresh(r)'
  BY <1>1, <1>2 DEF Fresh
<1>5. ASSUME ~overlapped' PROVE \A v \in Workers : Fresh(requests[v])'
  BY <1>2, <1>3, <1>4, <1>5 DEF Fresh
<1>6. ASSUME ~overlapped' PROVE \A a \in Attempts : Fair(a)' /\ Unscored(a)'
  <2>1. \A a \in Attempts : Fair(a) /\ Unscored(a)
    BY <1>3, <1>6 DEF Serial
  <2> QED BY <1>2, <2>1, ScoresKept
<1> QED BY <1>3, <1>5, <1>6 DEF Serial

\* The grading of a submission that is served alone is fair.
LEMMA SubmitScores ==
  ASSUME Typed, Serial, ~overlapped, NEW w \in Workers, SubmitCommit(w)
  PROVE  \E a \in Attempts :
            /\ attempts[a].status = "in_progress" /\ Fair(a)' /\ attempts'[a].status = "completed"
            /\ \A b \in Attempts : b # a => /\ attempts'[b] = attempts[b]
                                            /\ answers'[b] = answers[b]
<1>1. PICK r \in Request, a \in Attempts :
            /\ r = requests[w] /\ r.op = "grade" /\ a \in r.attempt /\ Present(a)
            /\ attempts' = [attempts EXCEPT ![a] = Scored(attempts[a], r)]
            /\ Scored(attempts[a], r) \in Attempt
            /\ answers' \in [Attempts -> Rows]
            /\ \A b \in Attempts : b # a => answers'[b] = answers[b]
            /\ \A q \in Questions :
                  /\ answers'[a][q].live = answers[a][q].live
                  /\ answers'[a][q].earned = IF r.rows[q].live /\ r.points[q] # None
                                             THEN r.rows[q].earned ELSE answers[a][q].earned
  BY SubmitStep
<1>2. Fresh(r) /\ RequestOK(r)
  BY <1>1 DEF Serial, Typed, RequestsOK
<1>3. attempts[a].status = "in_progress" /\ r.seen = 0
  BY <1>1, <1>2 DEF Fresh, Present
<1>4. attempts[a].score = 0 /\ \A q \in Questions : answers[a][q].earned = 0
  BY <1>3 DEF Serial, Unscored
<1>5. /\ attempts[a] \in Attempt /\ r.points \in Points /\ r.total \in Int
      /\ attempts[a].max_score = SumPoints(attempts[a].paper)
  BY <1>1 DEF Typed, TablesOK, Request
<1>6. /\ attempts'[a].status = "completed" /\ attempts'[a].score = r.total
      /\ attempts'[a].graded = r.points /\ attempts'[a].paper = attempts[a].paper
      /\ attempts'[a].max_score = attempts[a].max_score
  <2>1. attempts'[a] = Scored(attempts[a], r)
    BY <1>1 DEF Typed, TablesOK
  <2>2. /\ Scored(attempts[a], r).status = "completed"
        /\ Scored(attempts[a], r).score = IF r.total = r.seen THEN attempts[a].score
                                          ELSE r.total
        /\ Scored(attempts[a], r).graded = r.points
        /\ Scored(attempts[a], r).paper = attempts[a].paper
        /\ Scored(attempts[a], r).max_score = attempts[a].max_score
    BY <1>5 DEF Scored, Attempt
  <2> QED BY <1>3, <1>4, <2>1, <2>2
<1>7. /\ r.total = SumFunction(Counted(r))
      /\ \A q \in Questions : Counted(r)[q] <= Gain(r.points, q)
  BY <1>1, <1>2 DEF RequestOK
<1>8. [q \in Questions |-> answers'[a][q].earned] = Counted(r)
  BY <1>1, <1>4 DEF Counted
<1>9. ASSUME \A q \in Questions : Gain(r.points, q) <= Gain(attempts[a].paper, q)
      PROVE  r.total <= attempts[a].max_score + Penalties(attempts[a].paper)
  <2>1. PICK p \in Points : p = attempts[a].paper
    BY <1>5 DEF Attempt
  <2> DEFINE gain == [q \in Questions |-> Gain(p, q)]
             worth == [q \in Questions |-> Worth(p, q)]
             penalty == [q \in Questions |-> Gain(p, q) - Worth(p, q)]
  <2>2. PICK c : c = Counted(r)
    OBVIOUS
  <2>3. c \in [Questions -> Int] /\ \A q \in Questions : c[q] <= gain[q]
    <3>1. \A q \in Questions : r.rows[q].earned \in Int
      <4>1. 0 \in Int /\ \A v \in Values : v \in Int
        BY ConstantsAssumption
      <4>2. \A q \in Questions : r.rows[q].earned \in Values \cup {0}
        BY <1>1 DEF Request, Rows, Answer
      <4> QED BY <4>1, <4>2
    <3>2. c \in [Questions -> Int]
      BY <2>2, <3>1 DEF Counted
    <3>3. ASSUME NEW q \in Questions PROVE c[q] <= gain[q]
      <4>1. Gain(r.points, q) \in Int /\ Gain(p, q) \in Int /\ c[q] \in Int
        BY <1>5, <3>2, WorthType
      <4>2. c[q] <= Gain(r.points, q) /\ Gain(r.points, q) <= Gain(p, q)
        BY <1>7, <1>9, <2>1, <2>2
      <4> QED BY <4>1, <4>2
    <3> QED BY <3>2, <3>3
  <2>4. /\ gain \in [Questions -> Int] /\ worth \in [Questions -> Int]
        /\ penalty \in [Questions -> Int]
        /\ \A q \in Questions : gain[q] = worth[q] + penalty[q]
    <3>1. \A q \in Questions : Gain(p, q) \in Int /\ Worth(p, q) \in Int
      BY WorthType
    <3> QED BY <3>1
  <2>5. SumPoints(p) = SumFunction(worth) /\ Penalties(p) = SumFunction(penalty)
    BY DEF SumPoints, Penalties
  <2> HIDE DEF gain, worth, penalty
  <2>6. SumFunction(c) <= SumFunction(gain)
    BY <2>3, <2>4, SumMonotone, ConstantsAssumption
  <2>7. SumFunction(gain) = SumFunction(worth) + SumFunction(penalty)
    BY <2>4, SumPlus, ConstantsAssumption
  <2> QED BY <1>5, <1>7, <2>1, <2>2, <2>5, <2>6, <2>7
<1>10. Fair(a)'
  BY <1>6, <1>7, <1>8, <1>9 DEF Fair
<1> QED BY <1>1, <1>3, <1>6, <1>10 DEF Typed, TablesOK

\* What a served request does, when it is served alone.
LEMMA ServedAlone ==
  ASSUME Typed, Serial, ~overlapped, NEW w \in Workers,
         \/ StartCommit(w) \/ SaveCommit(w) \/ SubmitGrade(w) \/ SubmitCommit(w) \/ Abort(w)
  PROVE  /\ \A a \in Attempts : Fair(a)' /\ Unscored(a)'
         /\ \A a \in Attempts : attempts[a].status \in {"completed", "deleted"} =>
               attempts'[a] = attempts[a] /\ answers'[a] = answers[a]
<1>1. \A a \in Attempts : Fair(a) /\ Unscored(a)
  BY DEF Serial
<1>2. PICK r : r = requests[w]
  OBVIOUS
<1>3. r \in Request /\ Fresh(r)
  BY <1>2 DEF Typed, RequestsOK, Serial
<1>4. CASE StartCommit(w)
  <2>1. PICK a \in Attempts :
           /\ attempts[a].status = "absent"
           /\ attempts' = [attempts EXCEPT ![a] =
                 [NoAttempt EXCEPT !.status = "in_progress", !.max_score = requests[w].total,
                                   !.paper = requests[w].points]]
    BY <1>4 DEF StartCommit
  <2>2. /\ UNCHANGED answers
        /\ \A b \in Attempts : b # a => attempts'[b] = attempts[b]
        /\ attempts'[a].status = "in_progress" /\ attempts'[a].score = 0
    BY <1>4, <2>1 DEF StartCommit, Typed, TablesOK, NoAttempt
  <2>3. Fair(a)' /\ Unscored(a)'
    <3>1. Unscored(a)
      BY <1>1
    <3> QED BY <2>1, <2>2, <3>1 DEF Fair, Unscored
  <2>4. \A b \in Attempts : b # a => Fair(b)' /\ Unscored(b)'
    BY <1>1, <2>2, ScoresKept
  <2> QED BY <2>1, <2>2, <2>3, <2>4
<1>5. CASE SaveCommit(w) \/ SubmitGrade(w)
  <2>1. PICK a \in Attempts : Save(a, r) /\ a \in r.attempt
    BY <1>2, <1>3, <1>5 DEF SaveCommit, SubmitGrade, Request
  <2>2. /\ Present(a) /\ \A b \in Attempts : b # a => answers'[b] = answers[b]
        /\ \A q \in Questions : answers'[a][q].earned = answers[a][q].earned
    BY <1>3, <2>1, SaveTypes
  <2>3. UNCHANGED attempts /\ r.op \in {"save", "submit"}
    BY <1>2, <1>5 DEF SaveCommit, SubmitGrade, Serving
  <2>4. \A b \in Attempts : Fair(b)' /\ Unscored(b)'
    BY <1>1, <2>2, <2>3, ScoresKept
  <2>5. attempts[a].status = "in_progress"
    BY <1>3, <2>1, <2>2, <2>3 DEF Fresh, Present
  <2> QED BY <2>2, <2>3, <2>4, <2>5
<1>6. CASE SubmitCommit(w)
  <2>1. PICK a \in Attempts :
            /\ attempts[a].status = "in_progress" /\ Fair(a)' /\ attempts'[a].status = "completed"
            /\ \A b \in Attempts : b # a => /\ attempts'[b] = attempts[b]
                                            /\ answers'[b] = answers[b]
    BY <1>6, SubmitScores
  <2>2. \A b \in Attempts : b # a => Fair(b)' /\ Unscored(b)'
    BY <1>1, <2>1, ScoresKept
  <2>3. Unscored(a)'
    BY <2>1 DEF Unscored
  <2> QED BY <2>1, <2>2, <2>3
<1>7. CASE Abort(w)
  BY <1>1, <1>7, ScoresKept DEF Abort
<1> QED BY <1>4, <1>5, <1>6, <1>7

LEMMA ServedKeepsSerial ==
  ASSUME Typed, Serial, NEW w \in Workers,
         \/ StartCommit(w) \/ SaveCommit(w) \/ SubmitGrade(w) \/ SubmitCommit(w) \/ Abort(w)
  PROVE  Serial'
<1>1. /\ overlapped' = overlapped /\ requests[w].op # "idle"
      /\ \A v \in Workers \ {w} : requests'[v] = requests[v]
      /\ \/ requests'[w] = Idle
         \/ SubmitGrade(w) /\ requests'[w].op = "grade"
  BY Served
<1> SUFFICES ASSUME ~overlapped
             PROVE  /\ \A v, x \in Workers : requests'[v].op # "idle" /\ requests'[x].op # "idle"
                                                => v = x
                    /\ \A v \in Workers : Fresh(requests[v])'
                    /\ \A a \in Attempts : Fair(a)' /\ Unscored(a)'
  BY <1>1 DEF Serial
<1>2. \A v \in Workers \ {w} : requests'[v].op = "idle"
  BY <1>1 DEF Serial
<1>3. Fresh(requests[w])'
  <2>1. CASE requests'[w] = Idle
    BY <2>1 DEF Fresh, Idle
  <2>2. CASE SubmitGrade(w)
    <3>1. PICK r \in Request, x \in Request, a \in Attempts :
             /\ r = requests[w] /\ a \in r.attempt /\ Save(a, r)
             /\ requests' = [requests EXCEPT ![w] = x]
             /\ x.op = "grade" /\ x.attempt = r.attempt
             /\ x.seen \in {0, attempts[a].score}
      BY <2>2, GradeStep
    <3>2. Fresh(r) /\ r.op = "submit" /\ UNCHANGED attempts /\ Present(a)
      BY <2>2, <3>1, SaveTypes DEF Serial, SubmitGrade, Serving
    <3>3. attempts[a].status = "in_progress"
      BY <3>1, <3>2 DEF Fresh, Present
    <3>4. attempts[a].score = 0
      BY <3>3 DEF Serial, Unscored
    <3>5. Fresh(x)'
      BY <3>1, <3>2, <3>4 DEF Fresh
    <3>6. requests'[w] = x
      BY <3>1 DEF Typed, RequestsOK
    <3> QED BY <3>5, <3>6
  <2> QED BY <1>1, <2>1, <2>2
<1>4. \A v \in Workers : Fresh(requests[v])'
  BY <1>2, <1>3 DEF Fresh
<1> QED BY <1>2, <1>4, ServedAlone

LEMMA OwnerKeepsSerial ==
  ASSUME Typed, Serial, OwnerStep
  PROVE  Serial'
<1>1. OwnerMoves
  BY OwnerKeeps
<1>2. \A a \in Attempts, q \in Questions : answers'[a][q].earned = answers[a][q].earned
  <2>1. \A row \in Answer : Dropped(row).earned = row.earned
    BY DEF Dropped, Answer
  <2>2. \A a \in Attempts, q \in Questions : answers[a][q] \in Answer
    BY DEF Typed, TablesOK, Rows
  <2> QED BY <1>1, <2>1, <2>2 DEF OwnerMoves
<1>3. \A a \in Attempts : \/ attempts'[a] = attempts[a]
                          \/ Present(a) /\ attempts'[a].status = "deleted"
  <2>1. \A a \in Attempts : attempts[a] \in Attempt
    BY DEF Typed, TablesOK
  <2> QED BY <1>1, <2>1 DEF OwnerMoves, Attempt
<1> SUFFICES ASSUME ~overlapped'
             PROVE  /\ \A v, x \in Workers : requests'[v].op # "idle" /\ requests'[x].op # "idle"
                                                => v = x
                    /\ \A v \in Workers : Fresh(requests[v])'
                    /\ \A a \in Attempts : Fair(a)' /\ Unscored(a)'
  BY DEF Serial
<1>4. ~overlapped /\ UNCHANGED requests
  BY <1>1 DEF OwnerMoves
<1>5. \A a \in Attempts : Fair(a)' /\ Unscored(a)'
  <2>1. ASSUME NEW a \in Attempts, attempts'[a] = attempts[a] PROVE Fair(a)' /\ Unscored(a)'
    BY <1>2, <1>4, <2>1, ScoresKept DEF Serial
  <2>2. ASSUME NEW a \in Attempts, attempts'[a].status = "deleted"
        PROVE  Fair(a)' /\ Unscored(a)'
    BY <2>2 DEF Fair, Unscored
  <2> QED BY <1>3, <2>1, <2>2
<1>6. ASSUME NEW v \in Workers PROVE Fresh(requests[v])'
  <2>1. PICK r : r = requests[v]
    OBVIOUS
  <2>2. Fresh(r) /\ r \in Request
    BY <1>4, <2>1 DEF Serial, Typed, RequestsOK
  <2>3. Fresh(r)'
    BY <1>3, <2>2 DEF Fresh, Request
  <2> QED BY <1>4, <2>1, <2>3
<1> QED BY <1>4, <1>5, <1>6 DEF Serial

LEMMA NextKeepsSerial == Typed /\ Serial /\ [Next]_vars => Serial'
<1> SUFFICES ASSUME Typed, Serial, [Next]_vars PROVE Serial'
  OBVIOUS
<1>1. CASE UNCHANGED vars
  BY <1>1 DEF vars, Serial, Fresh, Fair, Unscored
<1> QED BY <1>1, BeginKeepsSerial, ServedKeepsSerial, OwnerKeepsSerial
        DEF Next, OwnerStep, Player

LEMMA SerialInvariant == Spec => [](Typed /\ Serial)
<1> DEFINE Inv == Typed /\ Serial
<1>1. Init => Inv
  BY InitTyped, InitSerial
<1>2. Inv /\ [Next]_vars => Inv'
  BY NextKeepsTyped, NextKeepsSerial
<1> QED BY <1>1, <1>2, PTL DEF Spec

\* Unless requests overlapped, a score is the sum of what its answers earned; when no
\* question gained more at the grading than at the start, it exceeds the max_score of its
\* attempt by at most what the negative questions took off that
\* (TestPracticeService.submit grades with the test as it is then).
THEOREM ScoresAreFair == Spec => []ScoreIsFair
<1>1. Typed /\ Serial => ScoreIsFair
  BY DEF Serial, Fair, ScoreIsFair
<1> QED BY <1>1, SerialInvariant, PTL

\* What a step may do to an attempt that has been submitted.
FinalStep ==
    \A a \in Attempts :
        attempts[a].status = "completed" /\ ~overlapped' =>
            /\ attempts'[a] \in {attempts[a], [attempts[a] EXCEPT !.status = "deleted"]}
            /\ \A q \in Questions : answers'[a][q] \in {answers[a][q], Dropped(answers[a][q])}

LEMMA StepsAreFinal == Typed /\ Serial /\ [Next]_vars => FinalStep
<1> SUFFICES ASSUME Typed, Serial, [Next]_vars PROVE FinalStep
  OBVIOUS
<1>1. ASSUME UNCHANGED <<attempts, answers>> PROVE FinalStep
  BY <1>1 DEF FinalStep
<1>2. ASSUME NEW w \in Workers, Player(w) PROVE FinalStep
  <2>1. CASE StartRead(w) \/ \E a \in Attempts : SaveRead(w, a) \/ SubmitRead(w, a)
    <3>1. PICK r : Begin(w, r)
      BY <2>1, Begun
    <3> QED BY <1>1, <3>1 DEF Begin
  <2>2. CASE \/ StartCommit(w) \/ SaveCommit(w) \/ SubmitGrade(w) \/ SubmitCommit(w)
             \/ Abort(w)
    <3>1. overlapped' = overlapped
      BY <2>2, Served
    <3> QED BY <2>2, <3>1, ServedAlone DEF FinalStep
  <2> QED BY <1>2, <2>1, <2>2 DEF Player
<1>3. CASE OwnerStep
  <2>1. OwnerMoves
    BY <1>3, OwnerKeeps
  <2> QED BY <2>1 DEF OwnerMoves, FinalStep
<1> QED BY <1>1, <1>2, <1>3 DEF Next, OwnerStep, vars

\* Once submitted, an attempt and its answers stay as they were graded, whatever the owner
\* does short of deleting them, unless requests overlapped (an attempt that is completed
\* is refused by save and by submit, tests/practice_service.py).
THEOREM SubmittedStaysFinal == Spec => SubmittedIsFinal
<1>1. (Typed /\ Serial) /\ [Next]_vars => [FinalStep]_vars
  BY StepsAreFinal
<1>2. [][FinalStep]_vars => SubmittedIsFinal
  BY PTL DEF SubmittedIsFinal, FinalStep
<1>3. Spec => [][FinalStep]_vars
  BY <1>1, SerialInvariant, PTL DEF Spec
<1> QED BY <1>2, <1>3, PTL
================================================================================
