SPECIFICATION Spec
CONSTANTS
    Accounts = {a1, a2}
    NoAccount = NoAccount
    Codes = {c1}
    Refs = {}
    CreditTypes = {"topup"}
    DebitTypes = {}
    Workers = {w1}
    Cent = 2
    MaxHolds = 1
    MaxAmount = 1
    MaxUses = 2
    MaxLedger = 3
INVARIANT MultiUseRedeemable
CHECK_DEADLOCK FALSE
