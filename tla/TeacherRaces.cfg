SPECIFICATION Spec
CONSTANTS
    buyer = buyer
    None = None
    Users = {buyer}
    Purchases = {p1, p2}
    Workers = {w1, w2}
    Buyer <- AllByOne
SYMMETRY Symmetry
INVARIANT TypeOK PurchaseRules
PROPERTY SameFlowAsPayments
