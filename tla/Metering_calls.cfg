SPECIFICATION FairSpec
CONSTANTS
    N = 2
    Accounts = {a1, a2}
    MayCall <- FirstOwns
    NoAccount = NoAccount
    Outcomes <- Some
    Rates = {1, 2}
    FirstRate = 1
    Grant = 2
    Limit = 1
    Sums = {0}
    Bound <- Once
    MaxEvents = 2
    a1 = a1
    a2 = a2
CHECK_DEADLOCK FALSE
INVARIANTS
    TypeOK
    OneRow
    BonusWithinGrant
    UsageKept
PROPERTIES
    ChargedOnce
    EveryCallEntered
