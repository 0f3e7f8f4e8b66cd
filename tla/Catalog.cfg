SPECIFICATION CatalogSpec
CONSTANTS
    basic = basic
    other = other
    Plans = {l1, l2}
    Cards = {k1, k2}
    Pricing = {g1, g2}
    Discounts = {d1}
    Codes = {c1, c2}
    Names = {basic, other}
    Defaults = {basic}
    Prices = {0, 99}
    Percentages = {0, 50}
    Values = {50, 150}
    Limits = {0, 1}
    Amounts = {100}
    DefaultPrice <- PriceOf
    FirstCodes <- Half
    Customers = {u1, u2}
    Handlers = {w1, w2}
    MaxServed = 3
SYMMETRY Symmetry
CHECK_DEADLOCK FALSE
INVARIANT CatalogTypeOK CodeUses PriceIsSane ListsAsSent
