SPECIFICATION Spec
CONSTANTS
    N = 1
    Accounts = {a1, a2}
    MayCall <- FirstOwns
    NoAccount = NoAccount
    Outcomes <- Some
    Rates = {1, 2}
    FirstRate = 1
    Grant = 2
    Limit = 1
    Sums = {3}
    Bound <- Once
    MaxEvents = 3
    a1 = a1
    a2 = a2
CHECK_DEADLOCK FALSE
PROPERTIES
    HandPriceStands
