------------------------------ MODULE MCBilling -------------------------------
(***************************************************************************)
(* One user, a free plan and a paid one; a payment or two for the paid     *)
(* one, so that duplicates can happen; and a string that is no payment,    *)
(* which a direct subscription may name as its payment.                    *)
(***************************************************************************)
EXTENDS Billing, TLC

CONSTANTS u1, free, pro, p1, p2, other

\* Workers are interchangeable, and so are the row identifiers of subscriptions.
Symmetry == Permutations(Workers) \cup Permutations(Subs)

PlanOf == [p \in Payments |-> pro]

SameUser == [p \in Payments |-> u1]

Tier == [pl \in Plans |-> IF pl = pro THEN "PRO" ELSE "FREE"]
===============================================================================
