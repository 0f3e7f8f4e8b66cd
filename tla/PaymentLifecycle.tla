--------------------------- MODULE PaymentLifecycle ---------------------------
(***************************************************************************)
(* What the manual card-transfer flow promises of one payment, read off    *)
(* the PaymentStatus enumeration (subscriptions/models.py) and of the two  *)
(* tuples below it: a payment is opened, may be moved while it is pending  *)
(* or waiting for review, and stays where it is once it is terminal.       *)
(* Approval is the one transition that grants a subscription, once.        *)
(* Billing implements this module when requests do not overlap.            *)
(***************************************************************************)
EXTENDS Naturals

CONSTANT Payments

VARIABLES status,   \* status[p]: "absent" until the row exists
          grants    \* grants[p]: subscriptions the payment has paid for

lifecycleVars == <<status, grants>>

PaymentStatus == {"pending", "waiting_for_review", "approved", "rejected",
                  "expired", "cancelled"}

PAYMENT_ACTIVE_STATUSES == {"pending", "waiting_for_review"}

PAYMENT_TERMINAL_STATUSES == {"approved", "rejected", "expired", "cancelled"}

LifecycleTypeOK == /\ status \in [Payments -> PaymentStatus \cup {"absent"}]
                   /\ grants \in [Payments -> Nat]

LifecycleInit == /\ status = [p \in Payments |-> "absent"]
                 /\ grants = [p \in Payments |-> 0]

Move(p, from, to) == /\ status[p] \in from
                     /\ status' = [status EXCEPT ![p] = to]

Open(p) == Move(p, {"absent"}, "pending") /\ UNCHANGED grants

SubmitReceipt(p) == /\ Move(p, {"pending"}, "waiting_for_review")
                    /\ UNCHANGED grants

Approve(p) == /\ Move(p, {"waiting_for_review"}, "approved")
              /\ grants' = [grants EXCEPT ![p] = @ + 1]

Reject(p) == /\ Move(p, {"waiting_for_review"}, "rejected")
             /\ UNCHANGED grants

Cancel(p) == /\ Move(p, PAYMENT_ACTIVE_STATUSES, "cancelled")
             /\ UNCHANGED grants

Expire(p) == /\ Move(p, PAYMENT_ACTIVE_STATUSES, "expired")
             /\ UNCHANGED grants

LifecycleNext == \E p \in Payments : \/ Open(p) \/ SubmitReceipt(p)
                                     \/ Approve(p) \/ Reject(p)
                                     \/ Cancel(p) \/ Expire(p)

LifecycleSpec == LifecycleInit /\ [][LifecycleNext]_lifecycleVars
===============================================================================
