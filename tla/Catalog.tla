------------------------------- MODULE Catalog --------------------------------
(***************************************************************************)
(* What is on offer, and what an administrator does to it: subscription    *)
(* plans and payment cards (AdminService), the pricing page, its discounts *)
(* and the promo codes (the second half of billing/service.py).            *)
(*                                                                         *)
(* A request reads in one step and commits in another.  An update loads a  *)
(* row and the ORM writes the columns that differ from what was loaded.    *)
(* Payments and subscriptions (module Billing) are here what they refer to. *)
(*                                                                         *)
(* A request is a call here, and names are chosen so that one module can   *)
(* extend this one and TeacherPackage, the other half of billing.          *)
(***************************************************************************)
EXTENDS Integers, FiniteSets, Functions, Sequences

CONSTANTS Plans, Cards, Pricing, Discounts, Codes,   \* primary keys, by table
          Names, Defaults,                           \* the names that are seeded
          Prices, Percentages, Values, Limits, Amounts,   \* columns that are numbers
          DefaultPrice,                              \* the price of each default
          FirstCodes,                                \* the promo code there is at first
          Customers, Handlers,
          MaxServed                                  \* bound

VARIABLES rows,        \* the five tables, by primary key
          features,    \* pricing_plan_features: the lists of which a plan has the rows
          links,       \* promo_code_plans
          usages,      \* promo_code_usages, per code: the user of each row, oldest first
          referred,    \* plans and cards that payments and user_subscriptions refer to
          calls,       \* the request each worker is serving
          served,      \* how many requests, starts and passing dates there were
          latest,      \* history: the list of features a plan was given last
          edited,      \* history: the codes whose terms were changed
          concurrent   \* history: some request has started beside another

catalogVars == <<rows, features, links, usages, referred, calls, served, latest, edited,
                 concurrent>>

Tables == <<Plans, Cards, Pricing, Discounts, Codes>>

Keys == Plans \cup Cards \cup Pricing \cup Discounts \cup Codes

-------------------------------------------------------------------------------
(* Tables.  phase is is_active with the dates of a row: "over" also stands *)
(* for a row that is not active.                                           *)

Phases == {"ahead", "open", "over"}

Active == {"open", "over"}

Plan == [at : {"live"}, name : Names, price : Prices, phase : Active]

PaymentCard == [at : {"live"}, phase : Active]

PricingPlan == [at : {"live"}, name : Names, price : Prices, phase : Active]

Discount == [at : {"live"}, plan : Pricing, percentage : Percentages, phase : Phases]

\* used is used_count.
CodeUsed(counts) ==
    [at : {"live"}, name : Names, type : {"percentage", "fixed"}, value : Values,
     limit : Limits, per_user : Limits \ {0}, used : counts, minimum : Amounts,
     phase : Phases]

PromoCode == CodeUsed(Nat)

NoRow == [at : {"absent", "deleted"}]

Absent == [at |-> "absent"]

DefaultRow(n) == [at |-> "live", name |-> n, price |-> DefaultPrice[n], phase |-> "open"]

RowType(k) == CASE k \in Plans -> Plan
                [] k \in Cards -> PaymentCard
                [] k \in Pricing -> PricingPlan
                [] k \in Discounts -> Discount
                [] k \in Codes -> PromoCode

Row == Plan \cup PaymentCard \cup PricingPlan \cup Discount \cup PromoCode \cup NoRow

\* What a request keeps between its steps.
Call == [op : {"idle", "create", "update", "delete", "count", "redeem", "pay", "subscribe"},
         key : SUBSET Keys, loaded : Row, sent : Row,
         plans : SUBSET SUBSET Pricing,   \* plan_ids, if they are sent
         lists : SUBSET (0..MaxServed),   \* the features that were loaded
         list : 0..MaxServed,             \* the number of the list it sends, or 0
         user : SUBSET Customers]

NoCall == [op |-> "idle", key |-> {}, loaded |-> Absent, sent |-> Absent, plans |-> {},
           lists |-> {}, list |-> 0, user |-> {}]

Present(k) == rows[k].at = "live"

\* The unique indexes.
Unique(table) ==
    \A k, l \in table : rows'[k].at = "live" /\ rows'[l].at = "live"
                        /\ rows'[k].name = rows'[l].name => k = l

Constraints == Unique(Plans) /\ Unique(Pricing) /\ Unique(Codes)

Named(table) == {rows[k].name : k \in {l \in table : Present(l)}}

\* Variant: a percentage has no upper bound.
NewCodesUnbounded == {c \in CodeUsed({0}) : c.phase # "over"}

\* create_promo_code, with what its form admits, before its dates have passed.
NewCodes == {c \in CodeUsed({0}) : /\ c.phase # "over"
                                   /\ c.type = "percentage" => c.value \in 1..100}

ASSUME CatalogAssumption ==
    /\ Defaults \subseteq Names /\ MaxServed \in Nat
    /\ DefaultPrice \in [Defaults -> Prices] /\ FirstCodes \subseteq NewCodes
    /\ \A S \in {Prices, Values, Limits, Amounts} : S \subseteq Nat
    /\ Percentages \subseteq 0..100
    /\ IsFiniteSet(Handlers)
    /\ \A i, j \in 1..5 : i # j => Tables[i] \cap Tables[j] = {}

-------------------------------------------------------------------------------
(* Requests.                                                               *)

Accept(w, r) == /\ calls[w].op = "idle" /\ served < MaxServed
                /\ calls' = [calls EXCEPT ![w] = r]
                /\ served' = served + 1
                /\ concurrent' = (concurrent \/ \E v \in Handlers : calls[v].op # "idle")
                /\ UNCHANGED <<rows, features, links, usages, referred, latest, edited>>

Serving(w, op) == calls[w].op = op /\ UNCHANGED <<served, concurrent>>

Answer(w) == calls' = [calls EXCEPT ![w] = NoCall]

\* An error, a constraint of the database, or a row that is gone: nothing is committed.
Fail(w) == /\ calls[w].op # "idle" /\ Serving(w, calls[w].op) /\ Answer(w)
           /\ UNCHANGED <<rows, features, links, usages, referred, latest, edited>>

-------------------------------------------------------------------------------
(* Creation.                                                               *)

\* A new primary key: no other request has drawn it.
NewKey(k) == rows[k].at = "absent" /\ \A w \in Handlers : calls[w].key # {k}

Create(w, k, row, plans) ==
    /\ NewKey(k)
    /\ Accept(w, [NoCall EXCEPT !.op = "create", !.key = {k}, !.sent = row, !.plans = plans])

\* A plan and a promo code are looked for by name first, a discount looks for its plan.
CreatePlan(w, k) ==
    \E row \in Plan : row.phase = "open" /\ row.name \notin Named(Plans) /\ Create(w, k, row, {})

CreateCard(w, k) == Create(w, k, [at |-> "live", phase |-> "open"], {})

CreateDiscount(w, k) ==
    \E row \in Discount : /\ Present(row.plan) /\ row.percentage > 0 /\ row.phase # "over"
                          /\ Create(w, k, row, {})

CreateCode(w, k) ==
    \E row \in NewCodes, plans \in SUBSET {p \in Pricing : Present(p)} :
        row.name \notin Named(Codes) /\ Create(w, k, row, {plans})

\* The row, with the links of a promo code.
Insert(w) ==
    /\ Serving(w, "create") /\ Answer(w)
    /\ \E k \in calls[w].key :
          /\ rows' = [rows EXCEPT ![k] = calls[w].sent]
          /\ links' = IF k \in Codes THEN [links EXCEPT ![k] = UNION calls[w].plans]
                                     ELSE links
    /\ Constraints
    /\ UNCHANGED <<features, usages, referred, latest, edited>>

-------------------------------------------------------------------------------
(* Updates.                                                                *)

\* The row with another value in one column: a form sends any of its columns, and the
\* columns of a row are written independently of each other.
With(row, column, values) == {[row EXCEPT ![column] = v] : v \in values}

Update(w, k, row, plans, list) ==
    Accept(w, [NoCall EXCEPT !.op = "update", !.key = {k}, !.loaded = rows[k], !.sent = row,
                             !.plans = plans, !.list = list,
                             !.lists = IF list = 0 THEN {} ELSE features[k]])

\* PlanUpdate has no name.
UpdatePlan(w, k) ==
    /\ Present(k)
    /\ \E row \in With(rows[k], "price", Prices) \cup With(rows[k], "phase", Active) :
          Update(w, k, row, {}, 0)

UpdateCard(w, k) ==
    Present(k) /\ \E row \in With(rows[k], "phase", Active) : Update(w, k, row, {}, 0)

\* A list of features that is sent replaces the one that is there.
UpdatePricing(w, k) ==
    /\ Present(k)
    /\ \E row \in With(rows[k], "name", Names) \cup With(rows[k], "price", Prices)
                      \cup With(rows[k], "phase", Active),
          list \in {0, served + 1} : Update(w, k, row, {}, list)

UpdateDiscount(w, k) ==
    /\ Present(k)
    /\ \E row \in With(rows[k], "percentage", Percentages) \cup With(rows[k], "phase", Phases) :
          Update(w, k, row, {}, 0)

\* PromoCodeUpdate does not repeat the bounds of PromoCodeCreate.
CodeChanges(c) == UNION {With(c, "name", Names), With(c, "type", {"percentage", "fixed"}),
                         With(c, "value", Values), With(c, "limit", Limits),
                         With(c, "per_user", Limits \ {0}), With(c, "minimum", Amounts),
                         With(c, "phase", Phases)}

UpdateCode(w, k) ==
    /\ Present(k)
    /\ \/ \E row \in CodeChanges(rows[k]) : Update(w, k, row, {}, 0)
       \/ \E plans \in SUBSET {p \in Pricing : Present(p)} : Update(w, k, rows[k], {plans}, 0)

\* The columns that differ from what was loaded are written, over what is there now.
Merge(now, loaded, sent) ==
    [c \in DOMAIN now |-> IF sent[c] # loaded[c] THEN sent[c] ELSE now[c]]

\* The terms of a promo code.
Terms(c) == <<c.type, c.value, c.limit, c.per_user>>

\* Variant: the list is added to the rows that are there.
NewFeaturesKept(r, k) == features[k] \cup {r.list}

\* The rows that were loaded are deleted, the others stay.
NewFeatures(r, k) == (features[k] \ r.lists) \cup {r.list}

Write(w) ==
    LET r == calls[w] IN
    /\ Serving(w, "update") /\ Answer(w)
    /\ \E k \in r.key :
          /\ Present(k)
          /\ rows' = [rows EXCEPT ![k] = Merge(rows[k], r.loaded, r.sent)]
          /\ features' = IF r.list = 0 THEN features
                                       ELSE [features EXCEPT ![k] = NewFeatures(r, k)]
          /\ latest' = IF r.list = 0 THEN latest ELSE [latest EXCEPT ![k] = r.list]
          /\ links' = IF r.plans = {} THEN links
                                      ELSE [links EXCEPT ![k] = UNION r.plans]
          /\ edited' = IF k \in Codes /\ Terms(r.sent) # Terms(r.loaded)
                         THEN edited \cup {k} ELSE edited
    /\ Constraints
    /\ UNCHANGED <<usages, referred>>

-------------------------------------------------------------------------------
(* Deletion.  There is none of a pricing plan.                             *)

\* A promo code is loaded with its links.
DeleteRead(w, k) ==
    /\ Present(k)
    /\ Accept(w, [NoCall EXCEPT !.op = "delete", !.key = {k}, !.loaded = rows[k],
                                !.plans = IF k \in Codes THEN {links[k]} ELSE {}])

\* Variant: card_id is no foreign key.
ReferredPlan(k) == k \in referred \ Cards

Referred(k) == k \in referred

\* What is referred to stays; a promo code takes its links and usages along.  A link
\* that was loaded and is gone makes the deletion fail (Fail).
Delete(w) ==
    LET r == calls[w] IN
    /\ Serving(w, "delete") /\ Answer(w)
    /\ \E k \in r.key :
          /\ Present(k) /\ ~Referred(k)
          /\ rows' = [rows EXCEPT ![k] = [at |-> "deleted"]]
          /\ IF k \in Codes
             THEN /\ UNION r.plans \subseteq links[k]
                  /\ links' = [links EXCEPT ![k] = {}]
                  /\ usages' = [usages EXCEPT ![k] = << >>]
             ELSE UNCHANGED <<links, usages>>
    /\ UNCHANGED <<features, referred, latest, edited>>

-------------------------------------------------------------------------------
(* Promo codes.                                                            *)

\* validate_promo_code, up to the count of the user's usages.
Exhausted(c) == c.limit > 0 /\ c.used >= c.limit

Applies(k, p) == /\ Present(k) /\ rows[k].phase = "open" /\ ~Exhausted(rows[k])
                 /\ links[k] = {} \/ p \in links[k]

ApplyRead(w, k) ==
    /\ \E p \in Pricing : Present(p) /\ Applies(k, p)
    /\ \E a \in Amounts : a >= rows[k].minimum
    /\ \E u \in Customers :
          Accept(w, [NoCall EXCEPT !.op = "count", !.key = {k}, !.loaded = rows[k], !.user = {u}])

\* The usages of a code, and those of one user.
Uses(k) == Len(usages[k])

UsesBy(k, u) == Cardinality({i \in DOMAIN usages[k] : usages[k][i] = u})

\* Variant: one use too many.
UserMayUseOnceMore(r, k, u) == UsesBy(k, u) <= r.loaded.per_user

UserMayUse(r, k, u) == UsesBy(k, u) < r.loaded.per_user

ApplyCount(w) ==
    LET r == calls[w] IN
    /\ Serving(w, "count")
    /\ \E k \in r.key, u \in r.user : UserMayUse(r, k, u)
    /\ calls' = [calls EXCEPT ![w].op = "redeem"]
    /\ UNCHANGED <<rows, features, links, usages, referred, latest, edited>>

\* used_count is the loaded one and 1.
Redeem(w) ==
    LET r == calls[w] IN
    /\ Serving(w, "redeem") /\ Answer(w)
    /\ \E k \in r.key, u \in r.user :
          /\ Present(k)
          /\ rows' = [rows EXCEPT ![k].used = r.loaded.used + 1]
          /\ usages' = [usages EXCEPT ![k] = Append(@, u)]
    /\ UNCHANGED <<features, links, referred, latest, edited>>

\* int(amount * value / 100), or the value where that is less than the amount.
Off(c, amount) == IF c.type = "percentage" THEN (amount * c.value) \div 100
                  ELSE IF c.value < amount THEN c.value ELSE amount

FinalAmount(c, amount) == amount - Off(c, amount)

\* compute_discounted_price
DiscountedPrice(price, percentage) == (price * (100 - percentage)) \div 100

\* list_pricing_plans takes one of them, in no order.
OpenDiscounts(p) == {d \in Discounts : Present(d) /\ rows[d].plan = p /\ rows[d].phase = "open"}

\* The prices the page may show beside that of the plan.
ShownPrices(p) == {DiscountedPrice(rows[p].price, rows[d].percentage) : d \in OpenDiscounts(p)}

-------------------------------------------------------------------------------
(* Payments, subscriptions, time and starts.                               *)

\* BillingService.initiate_payment: a plan with a price, then an active card.
PayRead(w, k) ==
    Present(k) /\ rows[k].price > 0 /\ Accept(w, [NoCall EXCEPT !.op = "pay", !.key = {k}])

Pay(w) ==
    /\ Serving(w, "pay") /\ Answer(w)
    /\ \E k \in calls[w].key, c \in Cards :
          /\ Present(k) /\ Present(c) /\ rows[c].phase = "open"
          /\ referred' = referred \cup {k, c}
    /\ UNCHANGED <<rows, features, links, usages, latest, edited>>

\* SubscriptionService.subscribe, of a plan that is not for life: a price is let through with
\* a payment_id.
SubscribeLookup(w, k) == Present(k) /\ Accept(w, [NoCall EXCEPT !.op = "subscribe", !.key = {k}])

Subscribe(w) ==
    /\ Serving(w, "subscribe") /\ Answer(w)
    /\ \A k \in calls[w].key : Present(k)
    /\ referred' = referred \cup calls[w].key
    /\ UNCHANGED <<rows, features, links, usages, latest, edited>>

\* The dates of a discount or of a promo code pass.
Elapse(k) ==
    /\ Present(k)
    /\ \E phase \in Phases :
          /\ <<rows[k].phase, phase>> \in {<<"ahead", "open">>, <<"ahead", "over">>,
                                           <<"open", "over">>}
          /\ rows' = [rows EXCEPT ![k].phase = phase]
    /\ served < MaxServed /\ served' = served + 1
    /\ UNCHANGED <<features, links, usages, referred, calls, latest, edited, concurrent>>

\* What rs becomes when the defaults of a table that are not there by name are added, with
\* primary keys that nobody has drawn.
Seeded(rs, table, drawn) ==
    LET missing == Defaults \ {rs[k].name : k \in {l \in table : rs[l].at = "live"}}
        free == {k \in table \ drawn : rs[k].at = "absent"} IN
    {[k \in Keys |-> IF k \in DOMAIN name THEN DefaultRow(name[k]) ELSE rs[k]] :
        name \in UNION {Bijection(new, missing) : new \in SUBSET free}}

\* POST /admin/plans/seed
SeedPlans ==
    /\ served < MaxServed /\ rows' \in Seeded(rows, Plans, UNION {calls[w].key : w \in Handlers})
    /\ served' = served + 1
    /\ concurrent' = (concurrent \/ \E w \in Handlers : calls[w].op # "idle")
    /\ UNCHANGED <<features, links, usages, referred, calls, latest, edited>>

\* The application starts again: what was being served is lost, and the defaults of the
\* pricing page are added, also one that was renamed.  List 0 is the seeded one.
Restart ==
    /\ served < MaxServed /\ rows' \in Seeded(rows, Pricing, {})
    /\ served' = served + 1
    /\ calls' = [w \in Handlers |-> NoCall]
    /\ UNCHANGED <<features, links, usages, referred, latest, edited, concurrent>>

-------------------------------------------------------------------------------
\* After the first start and POST /admin/plans/seed, with a card and a promo code.
CatalogInit ==
    /\ \E card \in Cards, code \in Codes, c \in FirstCodes :
          LET first == [k \in Keys |-> CASE k = card -> [at |-> "live", phase |-> "open"]
                                         [] k = code -> c
                                         [] OTHER -> Absent] IN
          \E seeded \in Seeded(first, Plans, {}) : rows \in Seeded(seeded, Pricing, {})
    /\ features = [p \in Pricing |-> {0}] /\ latest = [p \in Pricing |-> 0]
    /\ links = [c \in Codes |-> {}] /\ edited = {}
    /\ usages = [c \in Codes |-> << >>]
    /\ referred = {}
    /\ calls = [w \in Handlers |-> NoCall]
    /\ served = 0 /\ concurrent = FALSE

\* admin/router.py
PlanRequest(w) == \/ \E k \in Plans : CreatePlan(w, k) \/ UpdatePlan(w, k) \/ DeleteRead(w, k)
                  \/ \E k \in Cards : CreateCard(w, k) \/ UpdateCard(w, k) \/ DeleteRead(w, k)

\* billing/admin_router.py
PricingRequest(w) == \E k \in Pricing : UpdatePricing(w, k)

DiscountRequest(w) ==
    \E k \in Discounts : CreateDiscount(w, k) \/ UpdateDiscount(w, k) \/ DeleteRead(w, k)

CodeRequest(w) == \E k \in Codes : CreateCode(w, k) \/ UpdateCode(w, k) \/ DeleteRead(w, k)

\* What a user starts; no route leads to apply_promo_code yet.
UserRequest(w) == \/ \E k \in Plans : PayRead(w, k) \/ SubscribeLookup(w, k)
                  \/ \E k \in Codes : ApplyRead(w, k)

Commit(w) == \/ Insert(w) \/ Write(w) \/ Delete(w) \/ ApplyCount(w) \/ Redeem(w)
             \/ Pay(w) \/ Subscribe(w)

Handle(w) == \/ PlanRequest(w) \/ PricingRequest(w) \/ DiscountRequest(w) \/ CodeRequest(w)
             \/ UserRequest(w) \/ Commit(w) \/ Fail(w)

CatalogNext == \/ \E w \in Handlers : Handle(w)
               \/ \E k \in Discounts \cup Codes : Elapse(k)
               \/ SeedPlans \/ Restart

CatalogSpec == CatalogInit /\ [][CatalogNext]_catalogVars

-------------------------------------------------------------------------------
(* Properties.                                                             *)

\* Rows are well formed, names are unique, and what a row refers to is there (the unique
\* indexes and foreign keys of billing/models.py and subscriptions/models.py).
CatalogTypeOK ==
    /\ rows \in [Keys -> Row] /\ \A k \in Keys : rows[k] \in NoRow \cup RowType(k)
    /\ features \in [Pricing -> SUBSET (0..MaxServed)] /\ latest \in [Pricing -> 0..MaxServed]
    /\ links \in [Codes -> SUBSET Pricing] /\ edited \subseteq Codes
    /\ usages \in [Codes -> Seq(Customers)]
    /\ referred \subseteq {k \in Plans \cup Cards : Present(k)}
    /\ calls \in [Handlers -> Call]
    /\ served \in 0..MaxServed /\ concurrent \in BOOLEAN
    /\ \A table \in {Plans, Pricing, Codes} : \A k, l \in table :
          Present(k) /\ Present(l) /\ rows[k].name = rows[l].name => k = l
    /\ \A c \in Codes : ~Present(c) => links[c] = {} /\ usages[c] = << >>

\* What a promo code counts (PromoCodeUsage, apply_promo_code).  used_count never exceeds
\* the usages, and equals them until requests overlap; until then, and until its terms are
\* edited, a code is used within both of its limits; and beside others a user may exceed
\* the own limit by one use for each request served beside the first.
CodeUses ==
    \A c \in Codes : Present(c) =>
        /\ rows[c].used <= Uses(c)
        /\ ~concurrent => rows[c].used = Uses(c)
        /\ c \notin edited =>
              /\ ~concurrent /\ rows[c].limit > 0 => Uses(c) <= rows[c].limit
              /\ \A u \in Customers :
                    UsesBy(c, u) <= rows[c].per_user
                                    + (IF concurrent THEN Cardinality(Handlers) - 1 ELSE 0)

\* No price turns around: a discount shows a price between nothing and the price of the
\* plan, and a promo code takes off at most the amount; an edited one may take more,
\* because PromoCodeUpdate has no upper bound for a percentage.
PriceIsSane ==
    /\ \A p \in Pricing : Present(p) => \A shown \in ShownPrices(p) : shown \in 0..rows[p].price
    /\ \A c \in Codes, a \in Amounts : Present(c) =>
          /\ FinalAmount(rows[c], a) <= a
          /\ c \notin edited => FinalAmount(rows[c], a) >= 0

\* "Remove existing features and replace" (billing/service.py:430): a plan has all of the
\* features it was given last, and no others until requests overlap.
ListsAsSent ==
    \A p \in Pricing : /\ latest[p] \in features[p]
                       /\ ~concurrent => features[p] = {latest[p]}
===============================================================================
