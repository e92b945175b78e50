------------------------------- MODULE Wallet -------------------------------
(***************************************************************************)
(* The wallet store of the platform: balances, the append-only ledger,     *)
(* pre-authorization holds and redemption codes.                           *)
(*                                                                         *)
(* Every write of internal/adapter/repo/wallet.go is one database          *)
(* transaction that first takes the wallet row (or the row that leads to   *)
(* it) FOR UPDATE, so each of them is one atomic action here.  The sweep   *)
(* that expires holds is the exception: it lists the overdue holds first   *)
(* and then runs one transaction per row, so the list it works from may be *)
(* stale; it is a process of its own.                                      *)
(*                                                                         *)
(* An operation that returns an error rolls back and changes nothing: it   *)
(* is the absence of a step, and its conditions are the action's guards.   *)
(* Amounts are DECIMAL(14,4) computed in SQL: natural numbers of the       *)
(* smallest unit.  (A caller's amount with more decimals is rounded        *)
(* separately in the wallet row and in the ledger row; that is left out.)  *)
(* The lifetime columns are DECIMAL(12,2): every write rounds to Cent.     *)
(***************************************************************************)
EXTENDS Integers, Sequences, FiniteSets, Sums

CONSTANTS
    Accounts,     \* accounts that may own a wallet
    NoAccount,    \* the owner of a row that does not exist yet
    Codes,        \* redemption codes
    Refs,         \* external references <<reference_type, reference_id>> of callers
    CreditTypes,  \* transaction types callers credit with
    DebitTypes,   \* transaction types callers debit with
    Workers,      \* replicas that run the reconciliation worker
    Cent,         \* smallest units of an amount in 0.01 (100 in the schema)
    MaxHolds,     \* bound: rows of wallet_pre_authorizations
    MaxAmount,    \* bound: largest amount of one operation
    MaxUses,      \* bound: largest max_uses of a code
    MaxLedger     \* bound: rows of wallet_transactions

\* The partial index of migration 020 skips rows without a reference.
NoRef == <<"", "">>
\* AdminAdjustWallet passes the same reference on every call.
AdminRef == <<"admin", "admin_adjust">>
PreAuthRef(h) == <<"pre_auth", h>>
CodeRef(c) == <<"redemption_code", c>>

TxTypeTopup == "topup"
TxTypePreAuthSettle == "preauth_settle"
TxTypeRedemption == "redemption"
AdminCredit == "admin_credit"
AdminDebit == "admin_debit"

ASSUME WalletAssumption ==
    /\ Cent \in Nat \ {0}
    /\ MaxHolds \in Nat /\ MaxAmount \in Nat /\ MaxUses \in Nat /\ MaxLedger \in Nat
    \* the references of holds and codes are written by the store alone
    /\ \A h \in 1 .. MaxHolds : PreAuthRef(h) \notin Refs
    /\ \A c \in Codes : CodeRef(c) \notin Refs
    /\ TxTypeTopup \notin DebitTypes

Amounts == 1 .. MaxAmount
Holds == 1 .. MaxHolds
LedgerTypes == CreditTypes \cup DebitTypes
                 \cup {TxTypePreAuthSettle, TxTypeRedemption, AdminCredit, AdminDebit}
LedgerRefs == Refs \cup {NoRef, AdminRef}
                 \cup {PreAuthRef(h) : h \in Holds} \cup {CodeRef(c) : c \in Codes}

VARIABLES
    opened,      \* accounts with a wallet row
    balance,     \* wallets.balance
    frozen,      \* wallets.frozen
    topup,       \* wallets.lifetime_topup
    spend,       \* wallets.lifetime_spend
    ledger,      \* wallet_transactions, in commit order
    hold,        \* wallet_pre_authorizations, one row per (product_id, reference_id)
    overdue,     \* holds whose expires_at has passed
    sweep,       \* per worker: the holds its ExpireStalePreAuths still has to visit
    code,        \* redemption_codes
    lapsed       \* codes whose expires_at has passed

money == <<balance, frozen, topup, spend>>
holds == <<hold, overdue, sweep>>
codes == <<code, lapsed>>
vars == <<opened, money, ledger, holds, codes>>

\* A row of wallet_transactions.  The wallet is identified by its account.
LedgerRow == [account : Accounts, type : LedgerTypes, ref : LedgerRefs,
              amount : Int, after : Int]

HoldStatus == {"none", "active", "settled", "released", "expired"}
HoldRow == [status : HoldStatus, account : Accounts \cup {NoAccount}, amount : Nat, actual : Nat]

CodeRow == [rewardType : {"none", "credits", "subscription_trial"},
            reward : Nat, used : Nat, max : Nat]

-----------------------------------------------------------------------------
\* Rows that do not exist yet.
NoHold == [status |-> "none", account |-> NoAccount, amount |-> 0, actual |-> 0]
NoCode == [rewardType |-> "none", reward |-> 0, used |-> 0, max |-> 0]

Init ==
    /\ opened = {}
    /\ balance = [a \in Accounts |-> 0]
    /\ frozen = [a \in Accounts |-> 0]
    /\ topup = [a \in Accounts |-> 0]
    /\ spend = [a \in Accounts |-> 0]
    /\ ledger = <<>>
    /\ hold = [h \in Holds |-> NoHold]
    /\ overdue = {}
    /\ sweep = [w \in Workers |-> {}]
    /\ code = [c \in Codes |-> NoCode]
    /\ lapsed = {}

Available(a) == balance[a] - frozen[a]

\* What a DECIMAL(12,2) column keeps of x: the nearest multiple of Cent, and the
\* larger one of two (x is not negative).
ToCents(x) == Cent * ((2 * x + Cent) \div (2 * Cent))

\* idx_wtx_reference_unique: at most one row per (type, reference), unless empty.
ReferenceFree(type, ref) ==
    \/ ref = NoRef
    \/ \A i \in DOMAIN ledger : ~(ledger[i].type = type /\ ledger[i].ref = ref)

\* Mutant: balance_after from the row read before the update.
RecordTxNoReread(a, type, ref, amount) ==
    /\ Len(ledger) < MaxLedger
    /\ ReferenceFree(type, ref)
    /\ ledger' = Append(ledger, [account |-> a, type |-> type, ref |-> ref,
                                 amount |-> amount, after |-> balance[a]])

\* The ledger insert that ends every money-moving transaction; the balance
\* recorded is the one re-read after the update.
RecordTx(a, type, ref, amount) ==
    /\ Len(ledger) < MaxLedger
    /\ ReferenceFree(type, ref)
    /\ ledger' = Append(ledger, [account |-> a, type |-> type, ref |-> ref,
                                 amount |-> amount, after |-> balance[a] + amount])

-----------------------------------------------------------------------------
(* Wallet rows, credits and debits. *)

GetOrCreate(a) ==
    /\ a \notin opened
    /\ opened' = opened \cup {a}
    /\ UNCHANGED <<money, ledger, holds, codes>>

Credit(a, amount, type, ref) ==
    /\ a \in opened
    /\ RecordTx(a, type, ref, amount)
    /\ balance' = [balance EXCEPT ![a] = @ + amount]
    /\ topup' = IF type = TxTypeTopup THEN [topup EXCEPT ![a] = ToCents(@ + amount)] ELSE topup
    /\ UNCHANGED <<opened, frozen, spend, holds, codes>>

\* Mutant: compares with the whole balance, held money included.
DebitIgnoringHolds(a, amount, type, ref) ==
    /\ a \in opened
    /\ balance[a] >= amount
    /\ RecordTx(a, type, ref, -amount)
    /\ balance' = [balance EXCEPT ![a] = @ - amount]
    /\ spend' = [spend EXCEPT ![a] = ToCents(@ + amount)]
    /\ UNCHANGED <<opened, frozen, topup, holds, codes>>

Debit(a, amount, type, ref) ==
    /\ a \in opened
    /\ Available(a) >= amount
    /\ RecordTx(a, type, ref, -amount)
    /\ balance' = [balance EXCEPT ![a] = @ - amount]
    /\ spend' = [spend EXCEPT ![a] = ToCents(@ + amount)]
    /\ UNCHANGED <<opened, frozen, topup, holds, codes>>

AdminAdjustWallet(a, amount) ==
    \/ Credit(a, amount, AdminCredit, AdminRef)
    \/ Debit(a, amount, AdminDebit, AdminRef)

-----------------------------------------------------------------------------
(* Redemption codes. *)

CreateRedemptionCode(c, reward, max) ==
    /\ code[c].rewardType = "none"
    /\ code' = [code EXCEPT ![c] = [rewardType |-> "credits",
                                    reward |-> reward, used |-> 0, max |-> max]]
    /\ UNCHANGED <<opened, money, ledger, holds, lapsed>>

BulkGenerateCodes(c, days) ==
    /\ code[c].rewardType = "none"
    /\ code' = [code EXCEPT ![c] = [rewardType |-> "subscription_trial",
                                    reward |-> days, used |-> 0, max |-> 1]]
    /\ UNCHANGED <<opened, money, ledger, holds, lapsed>>

\* Time passes the code's expires_at.
CodeLapses(c) ==
    /\ code[c].rewardType # "none"
    /\ c \notin lapsed
    /\ lapsed' = lapsed \cup {c}
    /\ UNCHANGED <<opened, money, ledger, holds, code>>

\* Mutant: the code row is not saved.
RedeemCodeUncounted(a, c) ==
    /\ c \notin lapsed
    /\ code[c].used < code[c].max
    /\ code[c].rewardType = "credits"
    /\ a \in opened
    /\ RecordTx(a, TxTypeRedemption, CodeRef(c), code[c].reward)
    /\ balance' = [balance EXCEPT ![a] = @ + code[c].reward]
    /\ UNCHANGED <<opened, frozen, topup, spend, holds, codes>>

RedeemCode(a, c) ==
    /\ c \notin lapsed
    /\ code[c].used < code[c].max
    /\ code[c].rewardType = "credits"
    /\ a \in opened
    /\ RecordTx(a, TxTypeRedemption, CodeRef(c), code[c].reward)
    /\ balance' = [balance EXCEPT ![a] = @ + code[c].reward]
    /\ code' = [code EXCEPT ![c].used = @ + 1]
    /\ UNCHANGED <<opened, frozen, topup, spend, holds, lapsed>>

-----------------------------------------------------------------------------
(* Pre-authorizations.  idx_preauth_reference admits one row per           *)
(* (product_id, reference_id) pair, an empty reference included, so the    *)
(* pair identifies the row.                                                *)

CreatePreAuth(h, a, amount) ==
    /\ hold[h].status = "none"
    /\ a \in opened
    /\ Available(a) >= amount
    /\ hold' = [hold EXCEPT ![h] = [status |-> "active", account |-> a,
                                    amount |-> amount, actual |-> 0]]
    /\ frozen' = [frozen EXCEPT ![a] = @ + amount]
    /\ UNCHANGED <<opened, balance, topup, spend, ledger, overdue, sweep, codes>>

\* Mutant: no "balance >= actual" in the WHERE clause.
SettlePreAuthUncovered(h, actual) ==
    LET a == hold[h].account IN
    /\ hold[h].status = "active"
    /\ RecordTx(a, TxTypePreAuthSettle, PreAuthRef(h), -actual)
    /\ hold' = [hold EXCEPT ![h].status = "settled", ![h].actual = actual]
    /\ frozen' = [frozen EXCEPT ![a] = @ - hold[h].amount]
    /\ balance' = [balance EXCEPT ![a] = @ - actual]
    /\ spend' = [spend EXCEPT ![a] = ToCents(@ + actual)]
    /\ UNCHANGED <<opened, topup, overdue, sweep, codes>>

\* Mutant: forgets lifetime_spend.
SettlePreAuthNoSpend(h, actual) ==
    LET a == hold[h].account IN
    /\ hold[h].status = "active"
    /\ balance[a] >= actual
    /\ RecordTx(a, TxTypePreAuthSettle, PreAuthRef(h), -actual)
    /\ hold' = [hold EXCEPT ![h].status = "settled", ![h].actual = actual]
    /\ frozen' = [frozen EXCEPT ![a] = @ - hold[h].amount]
    /\ balance' = [balance EXCEPT ![a] = @ - actual]
    /\ UNCHANGED <<opened, topup, spend, overdue, sweep, codes>>

\* Charges the actual amount, which the code does not compare with the hold.
SettlePreAuth(h, actual) ==
    LET a == hold[h].account IN
    /\ hold[h].status = "active"
    /\ balance[a] >= actual
    /\ RecordTx(a, TxTypePreAuthSettle, PreAuthRef(h), -actual)
    /\ hold' = [hold EXCEPT ![h].status = "settled", ![h].actual = actual]
    /\ frozen' = [frozen EXCEPT ![a] = @ - hold[h].amount]
    /\ balance' = [balance EXCEPT ![a] = @ - actual]
    /\ spend' = [spend EXCEPT ![a] = ToCents(@ + actual)]
    /\ UNCHANGED <<opened, topup, overdue, sweep, codes>>

\* The transition out of "active" shared by ReleasePreAuth and the sweep.
Unfreeze(h, status) ==
    /\ hold' = [hold EXCEPT ![h].status = status]
    /\ frozen' = [frozen EXCEPT ![hold[h].account] = @ - hold[h].amount]

\* Mutant: the status of an order, not of a hold.
ReleasePreAuthCancelled(h) ==
    /\ hold[h].status = "active"
    /\ Unfreeze(h, "cancelled")
    /\ UNCHANGED <<opened, balance, topup, spend, ledger, overdue, sweep, codes>>

\* Mutant: looks the hold up by id only.
ReleasePreAuthUnchecked(h) ==
    /\ hold[h].status # "none"
    /\ Unfreeze(h, "released")
    /\ UNCHANGED <<opened, balance, topup, spend, ledger, overdue, sweep, codes>>

ReleasePreAuth(h) ==
    /\ hold[h].status = "active"
    /\ Unfreeze(h, "released")
    /\ UNCHANGED <<opened, balance, topup, spend, ledger, overdue, sweep, codes>>

\* Time passes the hold's expires_at.
HoldOverdue(h) ==
    /\ hold[h].status = "active"
    /\ h \notin overdue
    /\ overdue' = overdue \cup {h}
    /\ UNCHANGED <<opened, money, ledger, hold, sweep, codes>>

\* Mutant: the comparison with expires_at reversed.
ListFreshPreAuths(w) ==
    LET stale == {h \in Holds \ overdue : hold[h].status = "active"} IN
    /\ sweep[w] = {}
    /\ stale # {}
    /\ sweep' = [sweep EXCEPT ![w] = stale]
    /\ UNCHANGED <<opened, money, ledger, hold, overdue, codes>>

\* ExpireStalePreAuths: the list of overdue holds ...
ListStalePreAuths(w) ==
    LET stale == {h \in overdue : hold[h].status = "active"} IN
    /\ sweep[w] = {}
    /\ stale # {}
    /\ sweep' = [sweep EXCEPT ![w] = stale]
    /\ UNCHANGED <<opened, money, ledger, hold, overdue, codes>>

\* Mutant: trusts the list instead of checking the status again.
ExpireListedPreAuth(w, h) ==
    /\ h \in sweep[w]
    /\ sweep' = [sweep EXCEPT ![w] = @ \ {h}]
    /\ Unfreeze(h, "expired")
    /\ UNCHANGED <<opened, balance, topup, spend, ledger, overdue, codes>>

\* ... and one transaction per listed hold, conditional on its status now.
ExpirePreAuth(w, h) ==
    /\ h \in sweep[w]
    /\ sweep' = [sweep EXCEPT ![w] = @ \ {h}]
    /\ IF hold[h].status = "active"
         THEN Unfreeze(h, "expired")
         ELSE UNCHANGED <<hold, frozen>>
    /\ UNCHANGED <<opened, balance, topup, spend, ledger, overdue, codes>>

\* A failing transaction, or the death of the worker, drops the rest of the list.
SweepAborts(w) ==
    /\ sweep[w] # {}
    /\ sweep' = [sweep EXCEPT ![w] = {}]
    /\ UNCHANGED <<opened, money, ledger, hold, overdue, codes>>

-----------------------------------------------------------------------------
CallerStep(a) ==
    \/ GetOrCreate(a)
    \/ \E n \in Amounts, t \in CreditTypes, r \in Refs \cup {NoRef} : Credit(a, n, t, r)
    \/ \E n \in Amounts, t \in DebitTypes, r \in Refs \cup {NoRef} : Debit(a, n, t, r)
    \/ \E n \in Amounts : AdminAdjustWallet(a, n)
    \/ \E c \in Codes : RedeemCode(a, c)
    \/ \E h \in Holds, n \in Amounts : CreatePreAuth(h, a, n)

HoldStep(h) ==
    \/ \E n \in Amounts \cup {0} : SettlePreAuth(h, n)
    \/ ReleasePreAuth(h)
    \/ HoldOverdue(h)

CodeStep(c) ==
    \/ \E n \in Amounts, m \in 1 .. MaxUses : CreateRedemptionCode(c, n, m)
    \/ \E n \in Amounts : BulkGenerateCodes(c, n)
    \/ CodeLapses(c)

SweepStep(w) ==
    \/ ListStalePreAuths(w)
    \/ \E h \in Holds : ExpirePreAuth(w, h)
    \/ SweepAborts(w)

Next ==
    \/ \E a \in Accounts : CallerStep(a)
    \/ \E h \in Holds : HoldStep(h)
    \/ \E c \in Codes : CodeStep(c)
    \/ \E w \in Workers : SweepStep(w)

Spec == Init /\ [][Next]_vars

\* A reconciliation worker ticks for ever (time.Ticker), and a pass that fails is
\* repeated: it cannot fail on the same row on every tick for ever.
Fairness ==
    \A w \in Workers :
        /\ WF_vars(ListStalePreAuths(w))
        /\ \A h \in Holds : SF_vars(ExpirePreAuth(w, h))

FairSpec == Spec /\ Fairness

-----------------------------------------------------------------------------
(* Properties. *)

TypeOK ==
    /\ opened \subseteq Accounts
    /\ balance \in [Accounts -> Int]
    /\ frozen \in [Accounts -> Int]
    /\ topup \in [Accounts -> Int]
    /\ spend \in [Accounts -> Int]
    /\ ledger \in Seq(LedgerRow)
    /\ hold \in [Holds -> HoldRow]
    /\ overdue \subseteq Holds
    /\ sweep \in [Workers -> SUBSET Holds]
    /\ code \in [Codes -> CodeRow]
    /\ lapsed \subseteq Codes

\* What the active holds of an account add up to.
Weight(row, a) == IF row.status = "active" /\ row.account = a THEN row.amount ELSE 0
Weights(rows, a) == [h \in Holds |-> Weight(rows[h], a)]
Held(a) == SumTo(Weights(hold, a), MaxHolds)

\* wallets.frozen is exactly what the active holds of the account hold,
\* whichever of settle, release and the sweeps of several workers gets to a
\* hold first and however stale the sweep's list is.
FrozenIsHeld == \A a \in Accounts : frozen[a] = Held(a)

\* No sequence of debits, holds and settlements makes a balance or a frozen
\* amount negative.  The guards compare with balance - frozen and with
\* balance only: this rests on FrozenIsHeld.
NonNegative == \A a \in Accounts : balance[a] >= 0 /\ frozen[a] >= 0

\* As long as no settlement charged more than its own hold, every hold is
\* covered by the balance: a debit never spends money that is held, and what
\* BillingSummary reports as available is not negative.
HoldsBacked ==
    (\A h \in Holds : hold[h].actual <= hold[h].amount)
        => \A a \in Accounts : frozen[a] <= balance[a]

\* Row j is the last row of its account before position i.
LastBefore(a, j, i) ==
    /\ j \in 1 .. (i - 1)
    /\ ledger[j].account = a
    /\ \A k \in (j + 1) .. (i - 1) : ledger[k].account # a

\* b is the balance account a had before row i was appended.
BalanceBefore(a, i, b) ==
    \/ \E j \in 1 .. (i - 1) : LastBefore(a, j, i) /\ b = ledger[j].after
    \/ (\A j \in 1 .. (i - 1) : ledger[j].account # a) /\ b = 0

\* The ledger explains every balance: each row's balance_after is the previous
\* balance_after of the same account plus the row's amount, and the last one is
\* the balance in the wallet row.
LedgerExplainsBalance ==
    /\ \A i \in DOMAIN ledger :
          BalanceBefore(ledger[i].account, i, ledger[i].after - ledger[i].amount)
    /\ \A a \in Accounts : BalanceBefore(a, Len(ledger) + 1, balance[a])

\* A hold is charged at most once and for its actual_amount: a settled hold has
\* exactly one ledger row, any other hold has none.
SettledOnce ==
    \A h \in Holds :
        LET rows == {i \in DOMAIN ledger : ledger[i].type = TxTypePreAuthSettle
                                            /\ ledger[i].ref = PreAuthRef(h)}
        IN  IF hold[h].status = "settled"
              THEN \E i \in DOMAIN ledger :
                     /\ rows = {i}
                     /\ ledger[i].account = hold[h].account
                     /\ ledger[i].amount = -hold[h].actual
              ELSE rows = {}

\* RedeemCode: used_count is the number of redemptions of the code in the ledger,
\* whichever wallets they went to, and never exceeds max_uses.
CodeUsesCounted ==
    \A c \in Codes :
        LET rows == {i \in DOMAIN ledger : ledger[i].type = TxTypeRedemption
                                            /\ ledger[i].ref = CodeRef(c)}
        IN  code[c].used = Cardinality(rows) /\ code[c].used <= code[c].max

\* What the ledger says an account spent and topped up.
Spent(row, a) == IF row.account = a /\ row.amount < 0 THEN -row.amount ELSE 0
ToppedUp(row, a) == IF row.account = a /\ row.type = TxTypeTopup THEN row.amount ELSE 0
SpentRows(rows, a) == [i \in DOMAIN rows |-> Spent(rows[i], a)]
TopupRows(rows, a) == [i \in DOMAIN rows |-> ToppedUp(rows[i], a)]

\* total may be off from exact by half a cent for each of the writes.
Near(total, exact, writes) ==
    2 * (total - exact) \in -(Cent * writes) .. (Cent * writes)

\* The lifetime totals, from which the VIP level is computed, follow the ledger:
\* lifetime_spend differs from the sum of the debits by at most half a cent per
\* debit (each is rounded on its own), and lifetime_topup is the exact sum of
\* the topups as long as these are whole cents, as payment orders are.
LifetimeTotals ==
    \A a \in Accounts :
        /\ Near(spend[a], SumTo(SpentRows(ledger, a), Len(ledger)),
                Cardinality({i \in DOMAIN ledger : Spent(ledger[i], a) > 0}))
        /\ (\A i \in DOMAIN ledger : ToppedUp(ledger[i], a) % Cent = 0)
              => topup[a] = SumTo(TopupRows(ledger, a), Len(ledger))

\* A hold that was settled, released or expired never changes again: a settle
\* that comes after the sweep, or a sweep with a stale list, leaves it alone.
HoldFinal ==
    [][\A h \in Holds : hold[h].status \in {"settled", "released", "expired"}
                            => hold'[h] = hold[h]]_vars

\* A hold past its deadline does not keep money frozen for ever: it is settled,
\* released or expired by a sweep.
OverdueHoldEnds ==
    \A h \in Holds : (h \in overdue) ~> (hold[h].status # "active")

\* entity/wallet.go: a code is "one-use or multi-use".  A code that passes every
\* check of RedeemCode, uses left included, can be redeemed by any wallet.
MultiUseRedeemable ==
    \A a \in opened, c \in Codes :
        (c \notin lapsed /\ code[c].rewardType = "credits" /\ code[c].used < code[c].max
           /\ Len(ledger) < MaxLedger)
            => ENABLED RedeemCode(a, c)
=============================================================================
