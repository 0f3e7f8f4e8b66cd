------------------------------- MODULE MCCatalog ------------------------------
(* One default plan, and a code of 50 % that may be used once.               *)
EXTENDS Catalog, TLC

CONSTANTS basic, other

PriceOf == [n \in Defaults |-> 99]

Half == {[at |-> "live", name |-> basic, type |-> "percentage", value |-> 50, limit |-> 1,
          per_user |-> 1, used |-> 0, minimum |-> 100, phase |-> "open"]}

Symmetry == Permutations(Plans) \cup Permutations(Cards) \cup Permutations(Pricing)
            \cup Permutations(Codes) \cup Permutations(Customers) \cup Permutations(Handlers)
===============================================================================
