SPECIFICATION FairSpec
CONSTANTS
    Accounts = {a1, a2}
    NoAccount = NoAccount
    Codes = {c1}
    Refs = {}
    CreditTypes = {"topup"}
    DebitTypes = {"product_purchase"}
    Workers = {w1}
    Cent = 2
    MaxHolds = 2
    MaxAmount = 2
    MaxUses = 2
    MaxLedger = 2
INVARIANTS
    TypeOK
    FrozenIsHeld
    NonNegative
    HoldsBacked
    LedgerExplainsBalance
    SettledOnce
    LifetimeTotals
    CodeUsesCounted
PROPERTIES HoldFinal OverdueHoldEnds
CHECK_DEADLOCK FALSE
