---------------------------- MODULE WalletProofs ----------------------------
(***************************************************************************)
(* Proofs of the safety properties of module Wallet, for every value of    *)
(* its constants.                                                          *)
(*                                                                         *)
(* The steps of Next are grouped by what they write (StepCases).  The core *)
(* is FrozenStep: each transaction that changes a hold changes the frozen  *)
(* column of the owner by the same weight.  Non-negative balances and      *)
(* covered holds follow from it.                                           *)
(*                                                                         *)
(* The first part is about the sums of module Sums.  What a recursive      *)
(* function computes is proved from the well-foundedness of the naturals,  *)
(* by looking at the least index at which a claim would fail.              *)
(***************************************************************************)
EXTENDS Wallet, TLAPS, WellFoundedInduction, SequenceTheorems, FiniteSetTheorems

-----------------------------------------------------------------------------
(* Sums.                                                                    *)

NatLess == OpToRel(<, Nat)

\* A non-empty set of naturals has a least element; every induction below is a
\* least counterexample.
LEMMA LeastNatural ==
    ASSUME NEW T, T \subseteq Nat, T # {}
    PROVE  \E n \in T : \A m \in T : n <= m
<1>1. IsWellFoundedOn(NatLess, Nat)
  BY NatLessThanWellFounded DEF NatLess
<1>2. PICK n \in T : \A m \in T : ~ (<<m, n>> \in NatLess)
  BY <1>1, WFMin
<1>3. \A m \in T : m < n => <<m, n>> \in NatLess
  BY DEF NatLess, OpToRel
<1>4. \A m \in T : n <= m
  <2> TAKE m \in T
  <2>1. m \in Nat /\ n \in Nat
    OBVIOUS
  <2>2. ~(m < n)
    BY <1>2, <1>3
  <2> QED BY <2>1, <2>2
<1>. QED BY <1>4

(* s lists the partial sums of f on 0 .. n. *)
IsSum(s, f, n) ==
    s = [i \in 0 .. n |-> IF i = 0 THEN 0 ELSE s[i - 1] + f[i]]

\* The partial sums of an integer function exist and are integers.
LEMMA SumExists ==
    ASSUME NEW n \in Nat, NEW f, \A i \in 1 .. n : f[i] \in Int
    PROVE  \E s : IsSum(s, f, n) /\ \A i \in 0 .. n : s[i] \in Int
<1> DEFINE T == {m \in 0 .. n : ~ \E s : IsSum(s, f, m) /\ \A i \in 0 .. m : s[i] \in Int}
<1>1. SUFFICES ASSUME T # {} PROVE FALSE
  OBVIOUS
<1>2. PICK m \in T : \A k \in T : m <= k
  <2>1. T \subseteq Nat OBVIOUS
  <2> HIDE DEF T
  <2> QED BY <1>1, <2>1, LeastNatural
<1>3. m # 0
  <2>1. SUFFICES ASSUME m = 0 PROVE FALSE
    OBVIOUS
  <2> DEFINE s == [i \in 0 .. 0 |-> 0]
  <2>2. IsSum(s, f, 0) BY DEF IsSum
  <2>3. \A i \in 0 .. 0 : s[i] \in Int OBVIOUS
  <2> QED BY <2>1, <2>2, <2>3
<1>4. m \in 1 .. n /\ m - 1 \in 0 .. n /\ m - 1 \notin T
  BY <1>2, <1>3
<1>5. PICK s : IsSum(s, f, m - 1) /\ \A i \in 0 .. (m - 1) : s[i] \in Int
  BY <1>4
<1> DEFINE t == [i \in 0 .. m |-> IF i = m THEN s[m - 1] + f[m] ELSE s[i]]
<1>6. \A i \in 0 .. m : t[i] \in Int
  BY <1>4, <1>5
<1>7. ASSUME NEW i \in 0 .. m PROVE t[i] = IF i = 0 THEN 0 ELSE t[i - 1] + f[i]
  <2>1. CASE i = m
    BY <2>1, <1>4
  <2>2. CASE i # m
    <3>1. i \in 0 .. (m - 1) BY <2>2, <1>4
    <3>2. s[i] = IF i = 0 THEN 0 ELSE s[i - 1] + f[i] BY <3>1, <1>5 DEF IsSum
    <3>3. i # 0 => i - 1 \in 0 .. m /\ i - 1 # m BY <3>1, <1>4
    <3> QED BY <3>1, <3>2, <3>3, <2>2
  <2> QED BY <2>1, <2>2
<1>8. IsSum(t, f, m)
  <2> DEFINE u == [i \in 0 .. m |-> IF i = 0 THEN 0 ELSE t[i - 1] + f[i]]
  <2>1. t = u
    <3>1. \A i \in 0 .. m : t[i] = u[i] BY <1>7
    <3> QED BY <3>1
  <2> HIDE DEF t
  <2> QED BY <2>1 DEF IsSum
<1> HIDE DEF t
<1>9. m \notin T
  BY <1>6, <1>8
<1> QED BY <1>2, <1>9

\* Two lists of partial sums of the same function are equal.
LEMMA SumUnique ==
    ASSUME NEW n \in Nat, NEW f, NEW s, NEW t, IsSum(s, f, n), IsSum(t, f, n)
    PROVE  s = t
<1> DEFINE T == {m \in 0 .. n : s[m] # t[m]}
<1>1. T = {}
  <2>1. SUFFICES ASSUME T # {} PROVE FALSE
    OBVIOUS
  <2>2. PICK m \in T : \A k \in T : m <= k
    <3>1. T \subseteq Nat OBVIOUS
    <3> HIDE DEF T
    <3> QED BY <2>1, <3>1, LeastNatural
  <2>3. s[m] = (IF m = 0 THEN 0 ELSE s[m - 1] + f[m])
        /\ t[m] = (IF m = 0 THEN 0 ELSE t[m - 1] + f[m])
    BY <2>2 DEF IsSum
  <2>4. m # 0 /\ m - 1 \in 0 .. n
    BY <2>2, <2>3
  <2>5. m - 1 \notin T
    BY <2>2, <2>4
  <2> QED BY <2>2, <2>3, <2>4, <2>5
<1>2. \A i \in 0 .. n : s[i] = t[i]
  BY <1>1
<1>3. /\ s = [i \in 0 .. n |-> s[i]]
      /\ t = [i \in 0 .. n |-> t[i]]
  BY DEF IsSum
<1> QED BY <1>2, <1>3

\* The CHOOSE behind the recursive function PartialSums does pick the partial sums.
LEMMA PartialSumsDef ==
    ASSUME NEW n \in Nat, NEW f, \A i \in 1 .. n : f[i] \in Int
    PROVE  /\ IsSum(PartialSums(f, n), f, n)
           /\ \A i \in 0 .. n : PartialSums(f, n)[i] \in Int
<1>1. PICK s : IsSum(s, f, n) /\ \A i \in 0 .. n : s[i] \in Int
  BY SumExists
<1>2. PartialSums(f, n) = CHOOSE r : IsSum(r, f, n)
  BY DEF PartialSums, IsSum
<1>3. IsSum(PartialSums(f, n), f, n)
  BY <1>1, <1>2
<1>4. PartialSums(f, n) = s
  BY <1>1, <1>3, SumUnique
<1> QED BY <1>1, <1>3, <1>4

\* Whatever lists the partial sums of f ends in SumTo(f, n).
LEMMA SumIs ==
    ASSUME NEW n \in Nat, NEW f, \A i \in 1 .. n : f[i] \in Int,
           NEW s, IsSum(s, f, n)
    PROVE  SumTo(f, n) = s[n]
BY PartialSumsDef, SumUnique DEF SumTo

\* Changing one summand by d changes the sum by d: one hold of an account
\* is frozen or let go.
LEMMA SumUpdate ==
    ASSUME NEW n \in Nat, NEW f, \A i \in 1 .. n : f[i] \in Int,
           NEW g, NEW k \in 1 .. n, NEW d \in Int,
           g[k] = f[k] + d, \A i \in 1 .. n : i # k => g[i] = f[i]
    PROVE  SumTo(g, n) = SumTo(f, n) + d
<1> DEFINE s == PartialSums(f, n)
<1>1. IsSum(s, f, n) /\ \A i \in 0 .. n : s[i] \in Int
  BY PartialSumsDef
<1>2. SumTo(f, n) = s[n]
  BY DEF SumTo
<1> HIDE DEF s
<1> DEFINE t == [i \in 0 .. n |-> IF i >= k THEN s[i] + d ELSE s[i]]
<1>3. \A i \in 1 .. n : g[i] \in Int
  OBVIOUS
<1>4. ASSUME NEW i \in 0 .. n
      PROVE t[i] = IF i = 0 THEN 0 ELSE t[i - 1] + g[i]
  <2>1. s[i] = IF i = 0 THEN 0 ELSE s[i - 1] + f[i]
    BY <1>1 DEF IsSum
  <2>2. CASE i = 0
    BY <2>1, <2>2
  <2>3. CASE i # 0
    <3>1. i \in 1 .. n /\ i - 1 \in 0 .. n BY <2>3
    <3>2. s[i] \in Int /\ s[i - 1] \in Int /\ f[i] \in Int BY <3>1, <1>1
    <3>3. CASE i = k BY <3>1, <3>2, <3>3, <2>1, <2>3
    <3>4. CASE i > k BY <3>1, <3>2, <3>4, <2>1, <2>3
    <3>5. CASE i < k BY <3>1, <3>2, <3>5, <2>1, <2>3
    <3> QED BY <3>1, <3>3, <3>4, <3>5
  <2> QED BY <2>2, <2>3
<1>5. IsSum(t, g, n)
  <2> DEFINE u == [i \in 0 .. n |-> IF i = 0 THEN 0 ELSE t[i - 1] + g[i]]
  <2>1. t = u
    <3>1. \A i \in 0 .. n : t[i] = u[i] BY <1>4
    <3> QED BY <3>1
  <2> HIDE DEF t
  <2> QED BY <2>1 DEF IsSum
<1>6. t[n] = s[n] + d
  OBVIOUS
<1> HIDE DEF t
<1> QED BY <1>2, <1>3, <1>5, <1>6, SumIs

\* Equal summands have equal sums.
LEMMA SumSame ==
    ASSUME NEW n \in Nat, NEW f, NEW g,
           \A i \in 1 .. n : f[i] \in Int /\ g[i] = f[i]
    PROVE  SumTo(g, n) = SumTo(f, n)
<1>1. /\ IsSum(PartialSums(f, n), f, n)
      /\ IsSum(PartialSums(g, n), g, n)
      /\ \A i \in 0 .. n : PartialSums(f, n)[i] \in Int
  BY PartialSumsDef
<1>2. IsSum(PartialSums(f, n), g, n)
  <2> DEFINE s == PartialSums(f, n)
             u == [i \in 0 .. n |-> IF i = 0 THEN 0 ELSE s[i - 1] + f[i]]
             v == [i \in 0 .. n |-> IF i = 0 THEN 0 ELSE s[i - 1] + g[i]]
  <2>1. u = v
    <3>1. \A i \in 0 .. n : u[i] = v[i] OBVIOUS
    <3> QED BY <3>1
  <2>2. s = u
    BY <1>1 DEF IsSum
  <2>3. IsSum(s, g, n)
    <3> HIDE DEF s
    <3> QED BY <2>1, <2>2 DEF IsSum
  <2> QED BY <2>3
<1> QED BY <1>1, <1>2, SumIs DEF SumTo

\* A sum with one more summand: one row is appended to the ledger.
LEMMA SumAppend ==
    ASSUME NEW n \in Nat, NEW f, NEW g,
           \A i \in 1 .. n : f[i] \in Int /\ g[i] = f[i], g[n + 1] \in Int
    PROVE  SumTo(g, n + 1) = SumTo(f, n) + g[n + 1]
<1> DEFINE s == PartialSums(g, n + 1)
<1>1. n + 1 \in Nat /\ \A i \in 1 .. (n + 1) : g[i] \in Int
  OBVIOUS
<1>2. IsSum(s, g, n + 1) /\ SumTo(g, n + 1) = s[n + 1]
  BY <1>1, PartialSumsDef DEF SumTo
<1> HIDE DEF s
<1> DEFINE t == [i \in 0 .. n |-> s[i]]
<1>3. ASSUME NEW i \in 0 .. n
      PROVE t[i] = IF i = 0 THEN 0 ELSE t[i - 1] + f[i]
  BY <1>2 DEF IsSum
<1>4. IsSum(t, f, n)
  <2> DEFINE u == [i \in 0 .. n |-> IF i = 0 THEN 0 ELSE t[i - 1] + f[i]]
  <2>1. t = u
    <3>1. \A i \in 0 .. n : t[i] = u[i] BY <1>3
    <3> QED BY <3>1
  <2> HIDE DEF t
  <2> QED BY <2>1 DEF IsSum
<1>5. s[n + 1] = s[n] + g[n + 1] /\ t[n] = s[n]
  BY <1>2 DEF IsSum
<1> HIDE DEF t
<1>6. SumTo(f, n) = t[n]
  BY <1>4, SumIs
<1> QED BY <1>2, <1>5, <1>6

\* A sum of naturals is a natural.
LEMMA SumNonNegative ==
    ASSUME NEW n \in Nat, NEW f, \A i \in 1 .. n : f[i] \in Nat
    PROVE  SumTo(f, n) \in Nat
<1> DEFINE s == PartialSums(f, n)
           T == {m \in 0 .. n : s[m] \notin Nat}
<1>1. IsSum(s, f, n) /\ SumTo(f, n) = s[n]
  BY PartialSumsDef DEF SumTo
<1> HIDE DEF s
<1>2. SUFFICES ASSUME T # {} PROVE FALSE
  BY <1>1
<1>3. PICK m \in T : \A k \in T : m <= k
  <2>1. T \subseteq Nat OBVIOUS
  <2> HIDE DEF T
  <2> QED BY <1>2, <2>1, LeastNatural
<1>4. s[m] = IF m = 0 THEN 0 ELSE s[m - 1] + f[m]
  BY <1>1 DEF IsSum
<1>5. m # 0 /\ m \in 1 .. n /\ m - 1 \in 0 .. n
  BY <1>3, <1>4
<1>6. m - 1 \notin T
  BY <1>3, <1>5
<1> QED BY <1>3, <1>4, <1>5, <1>6

\* Every summand of a sum of naturals is at most the sum.
LEMMA SumBounds ==
    ASSUME NEW n \in Nat, NEW f, \A i \in 1 .. n : f[i] \in Nat, NEW k \in 1 .. n
    PROVE  SumTo(f, n) \in Nat /\ f[k] <= SumTo(f, n)
<1> DEFINE g == [i \in 1 .. n |-> IF i = k THEN 0 ELSE f[i]]
<1>1. SumTo(f, n) \in Nat
  BY SumNonNegative
<1>2. SumTo(g, n) \in Nat
  BY SumNonNegative
<1>3. SumTo(g, n) = SumTo(f, n) + (0 - f[k])
  <2>1. /\ \A i \in 1 .. n : f[i] \in Int
        /\ 0 - f[k] \in Int
        /\ g[k] = f[k] + (0 - f[k])
        /\ \A i \in 1 .. n : i # k => g[i] = f[i]
    OBVIOUS
  <2> HIDE DEF g
  <2> QED BY <2>1, SumUpdate
<1> HIDE DEF g
<1> QED BY <1>1, <1>2, <1>3

\* A sum of zeros is zero: no hold is active.
LEMMA SumZero ==
    ASSUME NEW n \in Nat, NEW f, \A i \in 1 .. n : f[i] = 0
    PROVE  SumTo(f, n) = 0
<1> DEFINE t == [i \in 0 .. n |-> 0]
<1>1. IsSum(t, f, n)
  <2> DEFINE u == [i \in 0 .. n |-> IF i = 0 THEN 0 ELSE t[i - 1] + f[i]]
  <2>1. t = u
    <3>1. \A i \in 0 .. n : t[i] = u[i] OBVIOUS
    <3> QED BY <3>1
  <2> HIDE DEF t
  <2> QED BY <2>1 DEF IsSum
<1>2. t[n] = 0
  OBVIOUS
<1> HIDE DEF t
<1> QED BY <1>1, <1>2, SumIs

-----------------------------------------------------------------------------
(* The steps of the wallet store.                                           *)

CallerRefs == Refs \cup {NoRef, AdminRef}

CreditStep == \E a \in Accounts, n \in Amounts, t \in CreditTypes \cup {AdminCredit},
                 r \in CallerRefs : Credit(a, n, t, r)
DebitStep == \E a \in Accounts, n \in Amounts, t \in DebitTypes \cup {AdminDebit},
                r \in CallerRefs : Debit(a, n, t, r)
RedeemStep == \E a \in Accounts, c \in Codes : RedeemCode(a, c)
FreezeStep == \E h \in Holds, a \in Accounts, n \in Amounts : CreatePreAuth(h, a, n)
SettleStep == \E h \in Holds, n \in Amounts \cup {0} : SettlePreAuth(h, n)
ReleaseStep == \E h \in Holds : ReleasePreAuth(h)
ExpireStep == \E w \in Workers, h \in Holds : ExpirePreAuth(w, h)
CodeStepOnly == \E c \in Codes : CodeStep(c)
\* Steps that touch neither money nor the ledger, the holds' rows or the codes.
QuietStep ==
    /\ UNCHANGED <<money, ledger, hold, codes>>
    /\ \/ (\E a \in Accounts : opened' = opened \cup {a}) /\ UNCHANGED <<overdue, sweep>>
       \/ (\E h \in Holds : overdue' = overdue \cup {h}) /\ UNCHANGED <<opened, sweep>>
       \/ (\E w \in Workers, S \in SUBSET overdue :
              sweep' = [sweep EXCEPT ![w] = S]) /\ UNCHANGED <<opened, overdue>>
       \/ UNCHANGED <<opened, overdue, sweep>>

\* Every step of the wallet store is one of the nine kinds above.
LEMMA StepCases ==
    ASSUME [Next]_vars
    PROVE  \/ CreditStep \/ DebitStep \/ RedeemStep \/ FreezeStep \/ SettleStep
           \/ ReleaseStep \/ ExpireStep \/ CodeStepOnly \/ QuietStep
<1>1. CASE UNCHANGED vars
  BY <1>1 DEF vars, QuietStep, money, holds, codes
<1>2. ASSUME NEW a \in Accounts, CallerStep(a)
      PROVE CreditStep \/ DebitStep \/ RedeemStep \/ FreezeStep \/ QuietStep
  <2>1. CASE GetOrCreate(a)
    BY <2>1 DEF GetOrCreate, QuietStep, money, holds, codes
  <2>2. CASE \E n \in Amounts, t \in CreditTypes, r \in Refs \cup {NoRef} : Credit(a, n, t, r)
    BY <2>2 DEF CreditStep, CallerRefs
  <2>3. CASE \E n \in Amounts, t \in DebitTypes, r \in Refs \cup {NoRef} : Debit(a, n, t, r)
    BY <2>3 DEF DebitStep, CallerRefs
  <2>4. CASE \E n \in Amounts : AdminAdjustWallet(a, n)
    BY <2>4 DEF AdminAdjustWallet, CreditStep, DebitStep, CallerRefs
  <2>5. CASE \E c \in Codes : RedeemCode(a, c)
    BY <2>5 DEF RedeemStep
  <2>6. CASE \E h \in Holds, n \in Amounts : CreatePreAuth(h, a, n)
    BY <2>6 DEF FreezeStep
  <2> QED BY <1>2, <2>1, <2>2, <2>3, <2>4, <2>5, <2>6 DEF CallerStep
<1>3. ASSUME NEW h \in Holds, HoldStep(h)
      PROVE SettleStep \/ ReleaseStep \/ QuietStep
  <2>1. CASE HoldOverdue(h)
    BY <2>1 DEF HoldOverdue, QuietStep, money, codes
  <2> QED BY <1>3, <2>1 DEF HoldStep, SettleStep, ReleaseStep
<1>4. ASSUME NEW w \in Workers, SweepStep(w)
      PROVE ExpireStep \/ QuietStep
  <2>1. CASE ListStalePreAuths(w)
    BY <2>1 DEF ListStalePreAuths, QuietStep, money, codes
  <2>2. CASE SweepAborts(w)
    BY <2>2 DEF SweepAborts, QuietStep, money, codes
  <2> QED BY <1>4, <2>1, <2>2 DEF SweepStep, ExpireStep
<1> QED BY <1>1, <1>2, <1>3, <1>4 DEF Next, CodeStepOnly

HoldOwned == \A h \in Holds : hold[h].status # "none" => hold[h].account \in Accounts
TypeInv == TypeOK /\ HoldOwned

\* The initial state is well typed.
LEMMA TypeInit == Init => TypeInv
BY DEF Init, TypeInv, TypeOK, HoldOwned, NoHold, NoCode, HoldRow, HoldStatus, CodeRow

\* Counting a use of a redemption code (RedeemCode) leaves a well-typed row.
LEMMA CountedUse ==
    ASSUME NEW row \in CodeRow
    PROVE  [row EXCEPT !.used = @ + 1] \in CodeRow
BY DEF CodeRow

\* A rounded lifetime total is an integer number of units.
LEMMA ToCentsInt == \A x \in Int : ToCents(x) \in Int
<1> SUFFICES ASSUME NEW x \in Int PROVE ToCents(x) \in Int
  OBVIOUS
<1>1. 2 * x + Cent \in Int /\ 2 * Cent \in Int /\ 2 * Cent > 0 /\ Cent \in Int
  BY WalletAssumption
<1> DEFINE n == 2 * x + Cent
           d == 2 * Cent
<1>2. n \div d \in Int
  <2> HIDE DEF n, d
  <2> QED BY <1>1 DEF n, d
<1> HIDE DEF n, d
<1>3. Cent * (n \div d) \in Int
  BY <1>1, <1>2
<1> QED BY <1>3 DEF ToCents, n, d

\* Every step keeps the types.
LEMMA TypeStep == TypeInv /\ [Next]_vars => TypeInv'
<1> SUFFICES ASSUME TypeInv, [Next]_vars PROVE TypeInv'
  OBVIOUS
<1> USE DEF TypeInv, TypeOK, HoldOwned, money, holds, codes
<1> USE WalletAssumption DEF Amounts
<1>1. CASE CreditStep
  <2> PICK a \in Accounts, n \in Amounts, t \in CreditTypes \cup {AdminCredit},
           r \in CallerRefs : Credit(a, n, t, r)
    BY <1>1 DEF CreditStep
  <2>1. [account |-> a, type |-> t, ref |-> r, amount |-> n, after |-> balance[a] + n]
           \in LedgerRow
    BY DEF LedgerRow, LedgerTypes, LedgerRefs, CallerRefs
  <2>2. ToCents(topup[a] + n) \in Int
    <3>1. topup[a] + n \in Int
      OBVIOUS
    <3> QED BY <3>1, ToCentsInt
  <2>3. topup' \in [Accounts -> Int]
    BY <2>2 DEF Credit
  <2> QED BY <2>1, <2>3 DEF Credit, RecordTx
<1>2. CASE DebitStep
  <2> PICK a \in Accounts, n \in Amounts, t \in DebitTypes \cup {AdminDebit},
           r \in CallerRefs : Debit(a, n, t, r)
    BY <1>2 DEF DebitStep
  <2>1. [account |-> a, type |-> t, ref |-> r, amount |-> -n, after |-> balance[a] + (-n)]
           \in LedgerRow
    BY DEF LedgerRow, LedgerTypes, LedgerRefs, CallerRefs
  <2>2. ToCents(spend[a] + n) \in Int
    <3>1. spend[a] + n \in Int
      OBVIOUS
    <3> QED BY <3>1, ToCentsInt
  <2>3. spend' \in [Accounts -> Int]
    BY <2>2 DEF Debit
  <2> QED BY <2>1, <2>3 DEF Debit, RecordTx
<1>3. CASE RedeemStep
  <2> PICK a \in Accounts, c \in Codes : RedeemCode(a, c)
    BY <1>3 DEF RedeemStep
  <2>0. code[c] \in CodeRow /\ code[c].reward \in Nat /\ code[c].used \in Nat
    BY DEF CodeRow
  <2>1. [account |-> a, type |-> TxTypeRedemption, ref |-> CodeRef(c),
         amount |-> code[c].reward, after |-> balance[a] + code[c].reward] \in LedgerRow
    BY <2>0 DEF LedgerRow, LedgerTypes, LedgerRefs
  <2>2. [code EXCEPT ![c].used = @ + 1] \in [Codes -> CodeRow]
    <3>1. [code[c] EXCEPT !.used = @ + 1] \in CodeRow
      BY <2>0, CountedUse
    <3> QED BY <3>1
  <2>3. ledger' \in Seq(LedgerRow)
    BY <2>1 DEF RedeemCode, RecordTx
  <2>4. balance' \in [Accounts -> Int]
    BY <2>0 DEF RedeemCode
  <2>5. code' \in [Codes -> CodeRow]
    BY <2>2 DEF RedeemCode
  <2>6. UNCHANGED <<opened, frozen, topup, spend, hold, overdue, sweep, lapsed>>
    BY DEF RedeemCode, holds
  <2> QED BY <2>3, <2>4, <2>5, <2>6
<1>4. CASE FreezeStep
  BY <1>4 DEF FreezeStep, CreatePreAuth, HoldRow, HoldStatus
<1>5. CASE SettleStep
  <2> PICK h \in Holds, n \in Amounts \cup {0} : SettlePreAuth(h, n)
    BY <1>5 DEF SettleStep
  <2> DEFINE a == hold[h].account
  <2>0. /\ hold[h] \in HoldRow /\ hold[h].amount \in Nat /\ a \in Accounts
        /\ n \in Nat /\ balance[a] \in Int
    BY DEF SettlePreAuth, HoldRow
  <2>1. [account |-> a, type |-> TxTypePreAuthSettle, ref |-> PreAuthRef(h),
         amount |-> -n, after |-> balance[a] + (-n)] \in LedgerRow
    BY <2>0 DEF LedgerRow, LedgerTypes, LedgerRefs
  <2>2. [hold EXCEPT ![h].status = "settled", ![h].actual = n] \in [Holds -> HoldRow]
    BY <2>0 DEF HoldRow, HoldStatus
  <2>3. HoldOwned'
    BY <2>0 DEF SettlePreAuth
  <2>4. hold' \in [Holds -> HoldRow] /\ ledger' \in Seq(LedgerRow)
    BY <2>1, <2>2 DEF SettlePreAuth, RecordTx
  <2>5. /\ balance' = [balance EXCEPT ![a] = @ - n]
        /\ frozen' = [frozen EXCEPT ![a] = @ - hold[h].amount]
        /\ spend' = [spend EXCEPT ![a] = ToCents(@ + n)]
        /\ UNCHANGED <<opened, topup, overdue, sweep, codes>>
    BY DEF SettlePreAuth
  <2> HIDE DEF a
  <2>6. spend' \in [Accounts -> Int]
    BY <2>0, <2>5, ToCentsInt
  <2> QED BY <2>0, <2>3, <2>4, <2>5, <2>6
<1>6. CASE ReleaseStep
  <2> PICK h \in Holds : ReleasePreAuth(h)
    BY <1>6 DEF ReleaseStep
  <2>0. hold[h] \in HoldRow /\ hold[h].amount \in Nat /\ hold[h].account \in Accounts
    BY DEF ReleasePreAuth, HoldRow
  <2>2. [hold EXCEPT ![h].status = "released"] \in [Holds -> HoldRow]
    BY <2>0 DEF HoldRow, HoldStatus
  <2>3. HoldOwned'
    BY <2>0 DEF ReleasePreAuth, Unfreeze
  <2>4. frozen' \in [Accounts -> Int]
    BY <2>0 DEF ReleasePreAuth, Unfreeze
  <2>5. hold' \in [Holds -> HoldRow]
    BY <2>2 DEF ReleasePreAuth, Unfreeze
  <2> QED BY <2>3, <2>4, <2>5 DEF ReleasePreAuth
<1>7. CASE ExpireStep
  <2> PICK w \in Workers, h \in Holds : ExpirePreAuth(w, h)
    BY <1>7 DEF ExpireStep
  <2>0. sweep' \in [Workers -> SUBSET Holds]
    BY DEF ExpirePreAuth
  <2>1. CASE hold[h].status = "active"
    <3>0. hold[h] \in HoldRow /\ hold[h].amount \in Nat /\ hold[h].account \in Accounts
      BY <2>1 DEF HoldRow
    <3>2. [hold EXCEPT ![h].status = "expired"] \in [Holds -> HoldRow]
      BY <3>0 DEF HoldRow, HoldStatus
    <3>3. HoldOwned'
      <4>1. hold' = [hold EXCEPT ![h].status = "expired"]
        BY <2>1 DEF ExpirePreAuth, Unfreeze
      <4> QED BY <3>0, <4>1
    <3>4. frozen' \in [Accounts -> Int]
      <4>1. frozen' = [frozen EXCEPT ![hold[h].account] = @ - hold[h].amount]
        BY <2>1 DEF ExpirePreAuth, Unfreeze
      <4> QED BY <3>0, <4>1
    <3>5. hold' \in [Holds -> HoldRow]
      BY <2>1, <3>2 DEF ExpirePreAuth, Unfreeze
    <3> QED BY <2>0, <3>3, <3>4, <3>5 DEF ExpirePreAuth
  <2>2. CASE hold[h].status # "active"
    BY <2>0, <2>2 DEF ExpirePreAuth
  <2> QED BY <2>1, <2>2
<1>8. CASE CodeStepOnly
  <2> PICK c \in Codes : CodeStep(c)
    BY <1>8 DEF CodeStepOnly
  <2>1. CASE \E n \in Amounts, m \in 1 .. MaxUses : CreateRedemptionCode(c, n, m)
    BY <2>1 DEF CreateRedemptionCode, CodeRow
  <2>2. CASE \E n \in Amounts : BulkGenerateCodes(c, n)
    BY <2>2 DEF BulkGenerateCodes, CodeRow
  <2>3. CASE CodeLapses(c)
    BY <2>3 DEF CodeLapses
  <2> QED BY <2>1, <2>2, <2>3 DEF CodeStep
<1>9. CASE QuietStep
  BY <1>9 DEF QuietStep
<1> QED BY StepCases, <1>1, <1>2, <1>3, <1>4, <1>5, <1>6, <1>7, <1>8, <1>9

\* The wallet rows, the ledger, the holds and the codes keep their types, for
\* every set of accounts, codes, callers, workers and every bound.
THEOREM TypeCorrect == Spec => []TypeOK
<1>1. Spec => []TypeInv
  BY TypeInit, TypeStep, PTL DEF Spec
<1>2. TypeInv => TypeOK
  BY DEF TypeInv
<1> QED BY <1>1, <1>2, PTL

-----------------------------------------------------------------------------
\* What one hold contributes to an account is a natural number.
LEMMA WeightNat ==
    ASSUME NEW row \in HoldRow, NEW a
    PROVE  Weight(row, a) \in Nat
BY DEF HoldRow, Weight

\* Replacing the row of one hold changes what is held by the difference of the
\* two rows' weights.
LEMMA HeldUpdate ==
    ASSUME NEW rows \in [Holds -> HoldRow], NEW h \in Holds, NEW row \in HoldRow, NEW a
    PROVE  SumTo(Weights([rows EXCEPT ![h] = row], a), MaxHolds)
             = SumTo(Weights(rows, a), MaxHolds) + (Weight(row, a) - Weight(rows[h], a))
<1> DEFINE f == Weights(rows, a)
           g == Weights([rows EXCEPT ![h] = row], a)
           d == Weight(row, a) - Weight(rows[h], a)
<1>1. \A i \in 1 .. MaxHolds : f[i] = Weight(rows[i], a) /\ f[i] \in Int
  BY WeightNat DEF Weights, Holds
<1>2. \A i \in 1 .. MaxHolds : i # h => g[i] = f[i]
  BY DEF Weights, Holds
<1>3. g[h] = Weight(row, a)
  BY DEF Weights, Holds
<1>4. Weight(row, a) \in Int /\ Weight(rows[h], a) \in Int
  BY WeightNat
<1>5. g[h] = f[h] + d /\ d \in Int /\ h \in 1 .. MaxHolds
  BY <1>1, <1>3, <1>4 DEF Holds
<1>6. MaxHolds \in Nat
  BY WalletAssumption
<1> HIDE DEF f, g, d
<1>7. SumTo(g, MaxHolds) = SumTo(f, MaxHolds) + d
  BY <1>1, <1>2, <1>5, <1>6, SumUpdate
<1> QED BY <1>7 DEF f, g, d

\* A transaction that changes the row of one hold and, by the same amount, the
\* frozen column of its owner keeps FrozenIsHeld.
LEMMA FrozenFollows ==
    ASSUME TypeInv, FrozenIsHeld,
           NEW h \in Holds, NEW row \in HoldRow, NEW b \in Accounts, NEW d \in Int,
           hold' = [hold EXCEPT ![h] = row],
           frozen' = [frozen EXCEPT ![b] = @ + d],
           \A a \in Accounts : Weight(row, a) - Weight(hold[h], a) = IF a = b THEN d ELSE 0
    PROVE  FrozenIsHeld'
<1> SUFFICES ASSUME NEW a \in Accounts
             PROVE  frozen'[a] = SumTo(Weights(hold', a), MaxHolds)
  BY DEF FrozenIsHeld, Held
<1>1. hold \in [Holds -> HoldRow] /\ frozen \in [Accounts -> Int]
  BY DEF TypeInv, TypeOK
<1>2. SumTo(Weights(hold', a), MaxHolds)
        = SumTo(Weights(hold, a), MaxHolds) + (Weight(row, a) - Weight(hold[h], a))
  BY <1>1, HeldUpdate
<1>3. frozen[a] = SumTo(Weights(hold, a), MaxHolds)
  BY DEF FrozenIsHeld, Held
<1>4. frozen[a] \in Int
  BY <1>1
<1> QED BY <1>1, <1>2, <1>3, <1>4

\* A step that touches neither holds nor frozen keeps FrozenIsHeld.
LEMMA FrozenSame ==
    ASSUME FrozenIsHeld, UNCHANGED <<hold, frozen>>
    PROVE  FrozenIsHeld'
BY DEF FrozenIsHeld, Held, Weights, Weight

\* Nothing is held or frozen at first.
LEMMA FrozenInit == Init => FrozenIsHeld
<1> SUFFICES ASSUME Init, NEW a \in Accounts PROVE frozen[a] = Held(a)
  BY DEF FrozenIsHeld
<1>1. MaxHolds \in Nat
  BY WalletAssumption
<1>2. \A i \in 1 .. MaxHolds : Weights(hold, a)[i] = 0
  BY DEF Init, Weights, Weight, Holds, NoHold
<1>3. SumTo(Weights(hold, a), MaxHolds) = 0
  BY <1>1, <1>2, SumZero
<1> QED BY <1>3 DEF Init, Held

\* A hold that stops being active no longer counts, and counted with its amount
\* for its owner before: settle, release and expire alike.
LEMMA LeavesActive ==
    ASSUME TypeInv, NEW h \in Holds, hold[h].status = "active",
           NEW s \in {"settled", "released", "expired"}, NEW n \in Nat
    PROVE  /\ hold[h].account \in Accounts
           /\ hold[h].amount \in Nat
           /\ [hold[h] EXCEPT !.status = s, !.actual = n] \in HoldRow
           /\ [hold[h] EXCEPT !.status = s] \in HoldRow
           /\ \A a \in Accounts :
                 /\ Weight([hold[h] EXCEPT !.status = s, !.actual = n], a) = 0
                 /\ Weight([hold[h] EXCEPT !.status = s], a) = 0
                 /\ Weight(hold[h], a)
                      = IF a = hold[h].account THEN hold[h].amount ELSE 0
<1>1. hold[h] \in HoldRow
  BY DEF TypeInv, TypeOK
<1>2. hold[h].account \in Accounts
  BY DEF TypeInv, HoldOwned
<1> QED BY <1>1, <1>2 DEF HoldRow, HoldStatus, Weight

\* Every step of the store keeps frozen equal to what the active holds hold.
LEMMA FrozenStep == TypeInv /\ FrozenIsHeld /\ [Next]_vars => FrozenIsHeld'
<1> SUFFICES ASSUME TypeInv, FrozenIsHeld, [Next]_vars PROVE FrozenIsHeld'
  OBVIOUS
<1> USE DEF money, holds, codes
<1>1. CASE CreditStep
  BY <1>1, FrozenSame DEF CreditStep, Credit
<1>2. CASE DebitStep
  BY <1>2, FrozenSame DEF DebitStep, Debit
<1>3. CASE RedeemStep
  BY <1>3, FrozenSame DEF RedeemStep, RedeemCode
<1>4. CASE FreezeStep
  <2> PICK h \in Holds, b \in Accounts, n \in Amounts : CreatePreAuth(h, b, n)
    BY <1>4 DEF FreezeStep
  <2> DEFINE row == [status |-> "active", account |-> b, amount |-> n, actual |-> 0]
  <2>1. n \in Nat /\ n \in Int
    BY WalletAssumption DEF Amounts
  <2>2. row \in HoldRow
    BY <2>1 DEF HoldRow, HoldStatus
  <2>3. \A a \in Accounts : Weight(row, a) - Weight(hold[h], a) = IF a = b THEN n ELSE 0
    BY <2>1 DEF Weight, CreatePreAuth
  <2>4. hold' = [hold EXCEPT ![h] = row] /\ frozen' = [frozen EXCEPT ![b] = @ + n]
    BY DEF CreatePreAuth
  <2> HIDE DEF row
  <2> QED BY <2>1, <2>2, <2>3, <2>4, FrozenFollows
<1>5. CASE SettleStep
  <2> PICK h \in Holds, n \in Amounts \cup {0} : SettlePreAuth(h, n)
    BY <1>5 DEF SettleStep
  <2> DEFINE row == [hold[h] EXCEPT !.status = "settled", !.actual = n]
             b == hold[h].account
             d == -hold[h].amount
  <2>1. n \in Nat /\ hold[h].status = "active"
    BY WalletAssumption DEF Amounts, SettlePreAuth
  <2>0. /\ b \in Accounts /\ hold[h].amount \in Nat /\ row \in HoldRow
        /\ \A a \in Accounts : /\ Weight(row, a) = 0
                               /\ Weight(hold[h], a) = IF a = b THEN hold[h].amount ELSE 0
    BY <2>1, LeavesActive
  <2>2. /\ b \in Accounts /\ hold[h].amount \in Nat /\ row \in HoldRow
        /\ \A a \in Accounts : Weight(row, a) - Weight(hold[h], a) = IF a = b THEN d ELSE 0
    <3> HIDE DEF row, b
    <3> QED BY <2>0
  <2>3. hold' = [hold EXCEPT ![h] = row]
    BY DEF SettlePreAuth
  <2>4. frozen' = [frozen EXCEPT ![b] = @ + d]
    <3>1. frozen[b] - hold[h].amount = frozen[b] + d
      BY <2>2 DEF TypeInv, TypeOK
    <3> QED BY <3>1 DEF SettlePreAuth
  <2>5. d \in Int
    BY <2>2
  <2> HIDE DEF row, b, d
  <2> QED BY <2>2, <2>3, <2>4, <2>5, FrozenFollows
<1>6. ASSUME NEW h \in Holds, NEW s \in {"released", "expired"},
             hold[h].status = "active", Unfreeze(h, s)
      PROVE  FrozenIsHeld'
  <2> DEFINE row == [hold[h] EXCEPT !.status = s]
             b == hold[h].account
             d == -hold[h].amount
  <2>0. /\ b \in Accounts /\ hold[h].amount \in Nat /\ row \in HoldRow
        /\ \A a \in Accounts : /\ Weight(row, a) = 0
                               /\ Weight(hold[h], a) = IF a = b THEN hold[h].amount ELSE 0
    <3>1. s \in {"settled", "released", "expired"} /\ 0 \in Nat /\ hold[h].status = "active"
      BY <1>6
    <3> QED BY <3>1, LeavesActive
  <2>2. /\ b \in Accounts /\ hold[h].amount \in Nat /\ row \in HoldRow
        /\ \A a \in Accounts : Weight(row, a) - Weight(hold[h], a) = IF a = b THEN d ELSE 0
    <3> HIDE DEF row, b
    <3> QED BY <2>0
  <2>3. hold' = [hold EXCEPT ![h] = row]
    BY <1>6 DEF Unfreeze
  <2>4. frozen' = [frozen EXCEPT ![b] = @ + d]
    <3>1. frozen[b] - hold[h].amount = frozen[b] + d
      BY <2>2 DEF TypeInv, TypeOK
    <3> QED BY <1>6, <3>1 DEF Unfreeze
  <2>5. d \in Int
    BY <2>2
  <2> HIDE DEF row, b, d
  <2> QED BY <2>2, <2>3, <2>4, <2>5, FrozenFollows
<1>7. CASE ReleaseStep
  BY <1>6, <1>7 DEF ReleaseStep, ReleasePreAuth
<1>8. CASE ExpireStep
  <2> PICK w \in Workers, h \in Holds : ExpirePreAuth(w, h)
    BY <1>8 DEF ExpireStep
  <2>1. CASE hold[h].status = "active"
    BY <1>6, <2>1 DEF ExpirePreAuth
  <2>2. CASE hold[h].status # "active"
    BY <2>2, FrozenSame DEF ExpirePreAuth
  <2> QED BY <2>1, <2>2
<1>9. CASE CodeStepOnly
  BY <1>9, FrozenSame DEF CodeStepOnly, CodeStep, CreateRedemptionCode, BulkGenerateCodes, CodeLapses
<1>10. CASE QuietStep
  BY <1>10, FrozenSame DEF QuietStep
<1> QED BY StepCases, <1>1, <1>2, <1>3, <1>4, <1>5, <1>7, <1>8, <1>9, <1>10

FrozenInv == TypeInv /\ FrozenIsHeld

\* Types and FrozenIsHeld together are inductive.
LEMMA FrozenInvariant == Spec => []FrozenInv
<1>1. Init => FrozenInv
  BY TypeInit, FrozenInit DEF FrozenInv
<1>2. FrozenInv /\ [Next]_vars => FrozenInv'
  BY TypeStep, FrozenStep DEF FrozenInv
<1> QED BY <1>1, <1>2, PTL DEF Spec

\* wallets.frozen is the sum of the active holds of the account in every reachable
\* state, for any number of holds, accounts and concurrent expiry sweeps.
THEOREM FrozenCorrect == Spec => []FrozenIsHeld
<1>1. FrozenInv => FrozenIsHeld
  BY DEF FrozenInv
<1> QED BY <1>1, FrozenInvariant, PTL

-----------------------------------------------------------------------------
\* A frozen amount is a sum of naturals, so it is not negative.
LEMMA FrozenNonNegative ==
    ASSUME FrozenInv, NEW a \in Accounts
    PROVE  frozen[a] \in Int /\ frozen[a] >= 0
<1>1. frozen[a] = SumTo(Weights(hold, a), MaxHolds) /\ frozen[a] \in Int
  BY DEF FrozenInv, FrozenIsHeld, Held, TypeInv, TypeOK
<1>2. \A i \in 1 .. MaxHolds : Weights(hold, a)[i] \in Nat
  BY WeightNat DEF FrozenInv, TypeInv, TypeOK, Weights, Holds
<1>3. MaxHolds \in Nat
  BY WalletAssumption
<1> QED BY <1>1, <1>2, <1>3, SumNonNegative

\* Only a settled hold has been charged.
OnlySettledCharged ==
    \A h \in Holds : hold[h].status # "settled" => hold[h].actual = 0

MoneyInv == FrozenInv /\ NonNegative /\ HoldsBacked /\ OnlySettledCharged

\* The money invariant holds at first.
LEMMA MoneyInit == Init => MoneyInv
<1> SUFFICES ASSUME Init PROVE MoneyInv
  OBVIOUS
<1>1. FrozenInv
  BY TypeInit, FrozenInit DEF FrozenInv
<1> QED BY <1>1 DEF MoneyInv, Init, NonNegative, HoldsBacked, OnlySettledCharged, NoHold

\* No step makes a balance or a frozen amount negative: Debit compares with
\* balance - frozen and SettlePreAuth with balance.
LEMMA NonNegativeStep == FrozenInv /\ NonNegative /\ [Next]_vars => NonNegative'
<1> SUFFICES ASSUME FrozenInv, NonNegative, [Next]_vars PROVE NonNegative'
  OBVIOUS
<1>0. FrozenInv'
  BY TypeStep, FrozenStep DEF FrozenInv
<1>1. \A a \in Accounts : frozen'[a] >= 0
  <2> SUFFICES ASSUME NEW a \in Accounts PROVE frozen'[a] >= 0
    OBVIOUS
  <2>1. frozen'[a] = SumTo(Weights(hold', a), MaxHolds)
    BY <1>0 DEF FrozenInv, FrozenIsHeld, Held
  <2>2. \A i \in 1 .. MaxHolds : Weights(hold', a)[i] \in Nat
    BY <1>0, WeightNat DEF FrozenInv, TypeInv, TypeOK, Weights, Holds
  <2>3. MaxHolds \in Nat
    BY WalletAssumption
  <2>4. SumTo(Weights(hold', a), MaxHolds) \in Nat
    BY <2>2, <2>3, SumNonNegative
  <2> QED BY <2>1, <2>4
<1>2. SUFFICES \A a \in Accounts : balance'[a] >= 0
  BY <1>1 DEF NonNegative
<1>3. balance \in [Accounts -> Int]
      /\ \A a \in Accounts : balance[a] >= 0 /\ frozen[a] >= 0 /\ frozen[a] \in Int
  BY FrozenNonNegative DEF NonNegative, FrozenInv, TypeInv, TypeOK
<1>4. CASE UNCHANGED balance
  BY <1>3, <1>4
<1>5. CASE CreditStep
  BY <1>3, <1>5, WalletAssumption DEF CreditStep, Credit, Amounts
<1>6. CASE DebitStep
  BY <1>3, <1>6, WalletAssumption DEF DebitStep, Debit, Available, Amounts
<1>7. CASE RedeemStep
  <2> PICK a \in Accounts, c \in Codes : RedeemCode(a, c)
    BY <1>7 DEF RedeemStep
  <2>1. code[c].reward \in Nat
    BY DEF FrozenInv, TypeInv, TypeOK, CodeRow
  <2>2. balance' = [balance EXCEPT ![a] = @ + code[c].reward]
    BY DEF RedeemCode
  <2> QED BY <1>3, <2>1, <2>2
<1>8. CASE SettleStep
  <2> PICK h \in Holds, n \in Amounts \cup {0} : SettlePreAuth(h, n)
    BY <1>8 DEF SettleStep
  <2>1. /\ balance[hold[h].account] >= n
        /\ balance' = [balance EXCEPT ![hold[h].account] = @ - n]
        /\ n \in Int
    BY WalletAssumption DEF SettlePreAuth, Amounts
  <2> QED BY <1>3, <2>1
<1>9. CASE FreezeStep \/ ReleaseStep \/ ExpireStep \/ CodeStepOnly \/ QuietStep
  BY <1>4, <1>9 DEF FreezeStep, CreatePreAuth, ReleaseStep, ReleasePreAuth, ExpireStep,
     ExpirePreAuth, CodeStepOnly, CodeStep, CreateRedemptionCode, BulkGenerateCodes,
     CodeLapses, QuietStep, money
<1> QED BY StepCases, <1>5, <1>6, <1>7, <1>8, <1>9

\* Only SettlePreAuth writes actual_amount.
LEMMA ChargedStep == TypeInv /\ OnlySettledCharged /\ [Next]_vars => OnlySettledCharged'
<1> SUFFICES ASSUME TypeInv, OnlySettledCharged, [Next]_vars PROVE OnlySettledCharged'
  OBVIOUS
<1>0. hold \in [Holds -> HoldRow]
  BY DEF TypeInv, TypeOK
<1>1. CASE UNCHANGED hold
  BY <1>1 DEF OnlySettledCharged
<1>2. ASSUME NEW h \in Holds, NEW s \in {"released", "expired"},
             hold[h].status = "active", Unfreeze(h, s)
      PROVE  OnlySettledCharged'
  <2>1. hold' = [hold EXCEPT ![h] = [hold[h] EXCEPT !.status = s]]
    BY <1>2 DEF Unfreeze
  <2>2. [hold[h] EXCEPT !.status = s].actual = hold[h].actual
    BY <1>0 DEF HoldRow
  <2>3. hold[h].actual = 0
    BY <1>2 DEF OnlySettledCharged
  <2> QED BY <1>0, <2>1, <2>2, <2>3 DEF OnlySettledCharged
<1>3. CASE FreezeStep
  <2> PICK h \in Holds, b \in Accounts, n \in Amounts : CreatePreAuth(h, b, n)
    BY <1>3 DEF FreezeStep
  <2> QED BY <1>0 DEF CreatePreAuth, OnlySettledCharged
<1>4. CASE SettleStep
  <2> PICK h \in Holds, n \in Amounts \cup {0} : SettlePreAuth(h, n)
    BY <1>4 DEF SettleStep
  <2>1. hold' = [hold EXCEPT ![h] = [hold[h] EXCEPT !.status = "settled", !.actual = n]]
    BY DEF SettlePreAuth
  <2>2. [hold[h] EXCEPT !.status = "settled", !.actual = n].status = "settled"
    BY <1>0 DEF HoldRow
  <2> QED BY <1>0, <2>1, <2>2 DEF OnlySettledCharged
<1>5. CASE ReleaseStep
  BY <1>2, <1>5 DEF ReleaseStep, ReleasePreAuth
<1>6. CASE ExpireStep
  <2> PICK w \in Workers, h \in Holds : ExpirePreAuth(w, h)
    BY <1>6 DEF ExpireStep
  <2>1. CASE hold[h].status = "active"
    BY <1>2, <2>1 DEF ExpirePreAuth
  <2>2. CASE hold[h].status # "active"
    BY <1>1, <2>2 DEF ExpirePreAuth
  <2> QED BY <2>1, <2>2
<1>7. CASE CreditStep \/ DebitStep \/ RedeemStep \/ CodeStepOnly \/ QuietStep
  BY <1>1, <1>7 DEF CreditStep, Credit, DebitStep, Debit, RedeemStep, RedeemCode,
     CodeStepOnly, CodeStep, CreateRedemptionCode, BulkGenerateCodes, CodeLapses,
     QuietStep, holds
<1> QED BY StepCases, <1>3, <1>4, <1>5, <1>6, <1>7

\* Every step keeps the holds covered, unless a settlement exceeded its hold.
LEMMA BackedStep == MoneyInv /\ [Next]_vars => HoldsBacked'
<1> SUFFICES ASSUME MoneyInv, [Next]_vars,
                    \A h \in Holds : hold'[h].actual <= hold'[h].amount,
                    NEW a \in Accounts
             PROVE  frozen'[a] <= balance'[a]
  BY DEF HoldsBacked
<1> USE WalletAssumption DEF Amounts
<1>0. /\ hold \in [Holds -> HoldRow]
      /\ balance \in [Accounts -> Int]
      /\ frozen \in [Accounts -> Int]
      /\ \A h \in Holds : hold[h].actual \in Nat /\ hold[h].amount \in Nat
  BY DEF MoneyInv, FrozenInv, TypeInv, TypeOK, HoldRow
<1>1. ASSUME \A h \in Holds : hold[h].actual <= hold[h].amount
      PROVE  \A b \in Accounts : frozen[b] <= balance[b]
  BY <1>1 DEF MoneyInv, HoldsBacked
\* Every step leaves the premise as it was or makes it stronger.
<1>2. ASSUME NEW g \in Holds, hold[g].status # "settled",
             \A h \in Holds : h # g => hold'[h] = hold[h]
      PROVE  \A b \in Accounts : frozen[b] <= balance[b]
  <2>1. hold[g].actual <= hold[g].amount
    BY <1>0, <1>2 DEF MoneyInv, OnlySettledCharged
  <2>2. \A h \in Holds : hold[h].actual <= hold[h].amount
    BY <1>2, <2>1
  <2> QED BY <1>1, <2>2
<1>3. ASSUME UNCHANGED hold
      PROVE  \A b \in Accounts : frozen[b] <= balance[b]
  BY <1>1, <1>3
<1>4. ASSUME NEW h \in Holds, NEW s, hold[h].status = "active", Unfreeze(h, s),
             UNCHANGED balance
      PROVE  frozen'[a] <= balance'[a]
  <2>1. \A b \in Accounts : frozen[b] <= balance[b]
    BY <1>2, <1>4, <1>0 DEF Unfreeze
  <2>2. frozen' = [frozen EXCEPT ![hold[h].account] = @ - hold[h].amount]
    BY <1>4 DEF Unfreeze
  <2> QED BY <1>0, <1>4, <2>1, <2>2
<1>5. CASE CreditStep
  <2> PICK b \in Accounts, n \in Amounts, t \in CreditTypes \cup {AdminCredit},
           r \in CallerRefs : Credit(b, n, t, r)
    BY <1>5 DEF CreditStep
  <2>1. \A x \in Accounts : frozen[x] <= balance[x]
    BY <1>3 DEF Credit, holds
  <2> QED BY <1>0, <2>1 DEF Credit
<1>6. CASE DebitStep
  <2> PICK b \in Accounts, n \in Amounts, t \in DebitTypes \cup {AdminDebit},
           r \in CallerRefs : Debit(b, n, t, r)
    BY <1>6 DEF DebitStep
  <2>1. \A x \in Accounts : frozen[x] <= balance[x]
    BY <1>3 DEF Debit, holds
  <2> QED BY <1>0, <2>1 DEF Debit, Available
<1>7. CASE RedeemStep
  <2> PICK b \in Accounts, c \in Codes : RedeemCode(b, c)
    BY <1>7 DEF RedeemStep
  <2>1. \A x \in Accounts : frozen[x] <= balance[x]
    BY <1>3 DEF RedeemCode, holds
  <2>2. code[c].reward \in Nat
    BY DEF MoneyInv, FrozenInv, TypeInv, TypeOK, CodeRow
  <2>3. balance' = [balance EXCEPT ![b] = @ + code[c].reward] /\ frozen' = frozen
    BY DEF RedeemCode
  <2> QED BY <1>0, <2>1, <2>2, <2>3
<1>8. CASE FreezeStep
  <2> PICK h \in Holds, b \in Accounts, n \in Amounts : CreatePreAuth(h, b, n)
    BY <1>8 DEF FreezeStep
  <2>1. \A x \in Accounts : frozen[x] <= balance[x]
    BY <1>0, <1>2 DEF CreatePreAuth
  <2> QED BY <1>0, <2>1 DEF CreatePreAuth, Available
<1>9. CASE SettleStep
  <2> PICK h \in Holds, n \in Amounts \cup {0} : SettlePreAuth(h, n)
    BY <1>9 DEF SettleStep
  <2> DEFINE b == hold[h].account
  <2>1. \A x \in Accounts : frozen[x] <= balance[x]
    BY <1>0, <1>2 DEF SettlePreAuth
  <2>2. hold'[h].actual = n /\ hold'[h].amount = hold[h].amount
    BY <1>0 DEF SettlePreAuth, HoldRow
  <2>3. n <= hold[h].amount /\ n \in Int
    BY <2>2
  <2>4. /\ frozen' = [frozen EXCEPT ![b] = @ - hold[h].amount]
        /\ balance' = [balance EXCEPT ![b] = @ - n]
    BY DEF SettlePreAuth
  <2> HIDE DEF b
  <2> QED BY <1>0, <2>1, <2>3, <2>4
<1>10. CASE ReleaseStep
  BY <1>4, <1>10 DEF ReleaseStep, ReleasePreAuth
<1>11. CASE ExpireStep
  <2> PICK w \in Workers, h \in Holds : ExpirePreAuth(w, h)
    BY <1>11 DEF ExpireStep
  <2>1. CASE hold[h].status = "active"
    BY <1>4, <2>1 DEF ExpirePreAuth
  <2>2. CASE hold[h].status # "active"
    BY <1>3, <2>2 DEF ExpirePreAuth
  <2> QED BY <2>1, <2>2
<1>12. CASE CodeStepOnly \/ QuietStep
  <2>1. UNCHANGED <<hold, balance, frozen>>
    BY <1>12 DEF CodeStepOnly, CodeStep, CreateRedemptionCode, BulkGenerateCodes,
       CodeLapses, QuietStep, holds, money
  <2> QED BY <1>3, <2>1
<1> QED BY StepCases, <1>5, <1>6, <1>7, <1>8, <1>9, <1>10, <1>11, <1>12

\* The conjunction of the money invariants is inductive.
LEMMA MoneyInvariant == Spec => []MoneyInv
<1>1. MoneyInv /\ [Next]_vars => MoneyInv'
  <2> SUFFICES ASSUME MoneyInv, [Next]_vars PROVE MoneyInv'
    OBVIOUS
  <2>1. FrozenInv'
    BY TypeStep, FrozenStep DEF MoneyInv, FrozenInv
  <2>2. NonNegative'
    BY NonNegativeStep DEF MoneyInv
  <2>3. OnlySettledCharged'
    BY ChargedStep DEF MoneyInv, FrozenInv
  <2>4. HoldsBacked'
    BY BackedStep
  <2> QED BY <2>1, <2>2, <2>3, <2>4 DEF MoneyInv
<1> QED BY <1>1, MoneyInit, PTL DEF Spec

\* No sequence of credits, debits, holds, settlements, redemptions and sweeps ever
\* makes a balance or a frozen amount negative.
THEOREM NeverNegative == Spec => []NonNegative
<1>1. MoneyInv => NonNegative
  BY DEF MoneyInv
<1> QED BY <1>1, MoneyInvariant, PTL

\* Debits never spend held money: unless a settlement charged more than its hold,
\* frozen never exceeds the balance.
THEOREM HoldsStayBacked == Spec => []HoldsBacked
<1>1. MoneyInv => HoldsBacked
  BY DEF MoneyInv
<1> QED BY <1>1, MoneyInvariant, PTL

-----------------------------------------------------------------------------
\* No step changes a hold that left the active status.
LEMMA FinalStep ==
    ASSUME TypeInv, [Next]_vars, NEW g \in Holds,
           hold[g].status \in {"settled", "released", "expired"}
    PROVE  hold'[g] = hold[g]
<1>0. hold \in [Holds -> HoldRow]
  BY DEF TypeInv, TypeOK
<1>1. CASE UNCHANGED hold
  BY <1>1
<1>2. ASSUME NEW h \in Holds, NEW s, hold[h].status = "active", Unfreeze(h, s)
      PROVE  hold'[g] = hold[g]
  BY <1>0, <1>2 DEF Unfreeze
<1>3. CASE FreezeStep
  BY <1>0, <1>3 DEF FreezeStep, CreatePreAuth
<1>4. CASE SettleStep
  BY <1>0, <1>4 DEF SettleStep, SettlePreAuth
<1>5. CASE ReleaseStep
  BY <1>2, <1>5 DEF ReleaseStep, ReleasePreAuth
<1>6. CASE ExpireStep
  <2> PICK w \in Workers, h \in Holds : ExpirePreAuth(w, h)
    BY <1>6 DEF ExpireStep
  <2>1. CASE hold[h].status = "active"
    BY <1>2, <2>1 DEF ExpirePreAuth
  <2>2. CASE hold[h].status # "active"
    BY <1>1, <2>2 DEF ExpirePreAuth
  <2> QED BY <2>1, <2>2
<1>7. CASE CreditStep \/ DebitStep \/ RedeemStep \/ CodeStepOnly \/ QuietStep
  BY <1>1, <1>7 DEF CreditStep, Credit, DebitStep, Debit, RedeemStep, RedeemCode,
     CodeStepOnly, CodeStep, CreateRedemptionCode, BulkGenerateCodes, CodeLapses,
     QuietStep, holds
<1> QED BY StepCases, <1>3, <1>4, <1>5, <1>6, <1>7

\* A hold that was settled, released or expired never changes again, however
\* stale the list an expiry sweep works from is.
THEOREM HoldsAreFinal == Spec => HoldFinal
<1>1. Spec => []TypeInv
  BY TypeInit, TypeStep, PTL DEF Spec
<1>2. TypeInv /\ [Next]_vars
        => [\A h \in Holds : hold[h].status \in {"settled", "released", "expired"}
                               => hold'[h] = hold[h]]_vars
  BY FinalStep
<1> QED BY <1>1, <1>2, PTL DEF Spec, HoldFinal

-----------------------------------------------------------------------------
(* The ledger.  Every transaction that moves money appends one row, and a   *)
(* row's reference says which kind of transaction it was.                   *)

\* The ledger rows with a type and a reference.
RowsOf(type, ref) == {i \in DOMAIN ledger : ledger[i].type = type /\ ledger[i].ref = ref}

\* A row is appended that says what happened to the balance of its account.
Recorded(row) ==
    /\ row \in LedgerRow
    /\ ReferenceFree(row.type, row.ref)
    /\ ledger' = Append(ledger, row)
    /\ row.after = balance[row.account] + row.amount
    /\ balance' = [balance EXCEPT ![row.account] = @ + row.amount]

\* The references that the store makes up are none of its callers'.
LEMMA RefsApart ==
    /\ \A h \in Holds : PreAuthRef(h) \notin CallerRefs /\ PreAuthRef(h) # NoRef
    /\ \A c \in Codes : CodeRef(c) \notin CallerRefs /\ CodeRef(c) # NoRef
<1>1. \A a, b, x, y : <<a, b>> = <<x, y>> => a = x
  OBVIOUS
<1>2. "" # "pre_auth" /\ "" # "redemption_code"
  BY Zenon
<1>3. \A x : NoRef # <<"pre_auth", x>> /\ NoRef # <<"redemption_code", x>>
  BY <1>1, <1>2, Zenon DEF NoRef
<1> QED BY <1>3, WalletAssumption DEF CallerRefs, PreAuthRef, CodeRef, AdminRef, Holds

\* The row a credit appends.
LEMMA CreditRecords ==
    ASSUME TypeInv, NEW a \in Accounts, NEW n \in Amounts, NEW t \in CreditTypes \cup {AdminCredit},
           NEW r \in CallerRefs, Credit(a, n, t, r)
    PROVE  Recorded([account |-> a, type |-> t, ref |-> r, amount |-> n, after |-> balance[a] + n])
<1>1. [account |-> a, type |-> t, ref |-> r, amount |-> n, after |-> balance[a] + n] \in LedgerRow
  BY WalletAssumption DEF TypeInv, TypeOK, LedgerRow, LedgerTypes, LedgerRefs, CallerRefs, Amounts
<1> QED BY <1>1 DEF Recorded, Credit, RecordTx

\* The row of a debit.
LEMMA DebitRecords ==
    ASSUME TypeInv, NEW a \in Accounts, NEW n \in Amounts, NEW t \in DebitTypes \cup {AdminDebit},
           NEW r \in CallerRefs, Debit(a, n, t, r)
    PROVE  Recorded([account |-> a, type |-> t, ref |-> r, amount |-> -n, after |-> balance[a] + (-n)])
<1>1. [account |-> a, type |-> t, ref |-> r, amount |-> -n, after |-> balance[a] + (-n)] \in LedgerRow
  BY WalletAssumption DEF TypeInv, TypeOK, LedgerRow, LedgerTypes, LedgerRefs, CallerRefs, Amounts
<1>2. balance' = [balance EXCEPT ![a] = @ + (-n)]
  BY WalletAssumption DEF TypeInv, TypeOK, Debit, Amounts
<1> QED BY <1>1, <1>2 DEF Recorded, Debit, RecordTx

\* The row of a redemption.
LEMMA RedeemRecords ==
    ASSUME TypeInv, NEW a \in Accounts, NEW c \in Codes, RedeemCode(a, c)
    PROVE  Recorded([account |-> a, type |-> TxTypeRedemption, ref |-> CodeRef(c),
                     amount |-> code[c].reward, after |-> balance[a] + code[c].reward])
<1>0. code[c].reward \in Nat /\ balance \in [Accounts -> Int]
  BY DEF TypeInv, TypeOK, CodeRow
<1>1. [account |-> a, type |-> TxTypeRedemption, ref |-> CodeRef(c),
       amount |-> code[c].reward, after |-> balance[a] + code[c].reward] \in LedgerRow
  BY <1>0 DEF LedgerRow, LedgerTypes, LedgerRefs
<1> QED BY <1>1 DEF Recorded, RedeemCode, RecordTx

\* The row of a settlement.
LEMMA SettleRecords ==
    ASSUME TypeInv, NEW h \in Holds, NEW n \in Amounts \cup {0}, SettlePreAuth(h, n)
    PROVE  Recorded([account |-> hold[h].account, type |-> TxTypePreAuthSettle, ref |-> PreAuthRef(h),
                     amount |-> -n, after |-> balance[hold[h].account] + (-n)])
<1> DEFINE a == hold[h].account
<1>0. a \in Accounts /\ n \in Nat /\ balance \in [Accounts -> Int]
  BY WalletAssumption DEF TypeInv, TypeOK, HoldOwned, HoldRow, SettlePreAuth, Amounts
<1>1. [account |-> a, type |-> TxTypePreAuthSettle, ref |-> PreAuthRef(h),
       amount |-> -n, after |-> balance[a] + (-n)] \in LedgerRow
  BY <1>0 DEF LedgerRow, LedgerTypes, LedgerRefs
<1>2. balance' = [balance EXCEPT ![a] = @ - n]
  BY DEF SettlePreAuth
<1>3. balance' = [balance EXCEPT ![a] = @ + (-n)]
  <2> HIDE DEF a
  <2> QED BY <1>0, <1>2
<1> QED BY <1>1, <1>3 DEF Recorded, SettlePreAuth, RecordTx

\* A step appends a row that tells the change of a balance, or leaves ledger
\* and balances alone.
LEMMA LedgerCases ==
    ASSUME TypeInv, [Next]_vars
    PROVE  (\E row : Recorded(row)) \/ UNCHANGED <<ledger, balance>>
<1>1. CASE CreditStep \/ DebitStep \/ RedeemStep \/ SettleStep
  BY <1>1, CreditRecords, DebitRecords, RedeemRecords, SettleRecords
     DEF CreditStep, DebitStep, RedeemStep, SettleStep
<1>2. CASE FreezeStep \/ ReleaseStep \/ ExpireStep \/ CodeStepOnly \/ QuietStep
  BY <1>2 DEF FreezeStep, CreatePreAuth, ReleaseStep, ReleasePreAuth, ExpireStep,
     ExpirePreAuth, CodeStepOnly, CodeStep, CreateRedemptionCode, BulkGenerateCodes,
     CodeLapses, QuietStep, money
<1> QED BY <1>1, <1>2, StepCases

\* What an appended row does to the ledger.
LEMMA RecordedRows ==
    ASSUME TypeInv, NEW row, Recorded(row)
    PROVE  /\ Len(ledger) \in Nat /\ DOMAIN ledger = 1 .. Len(ledger)
           /\ Len(ledger') = Len(ledger) + 1 /\ DOMAIN ledger' = 1 .. (Len(ledger) + 1)
           /\ \A i \in 1 .. Len(ledger) : ledger'[i] = ledger[i] /\ ledger[i] \in LedgerRow
           /\ ledger'[Len(ledger) + 1] = row
<1>1. ledger \in Seq(LedgerRow) /\ row \in LedgerRow
  BY DEF TypeInv, TypeOK, Recorded
<1>2. ledger' = Append(ledger, row)
  BY DEF Recorded
<1> QED BY <1>1, <1>2

-----------------------------------------------------------------------------
(* LedgerExplainsBalance. *)

\* The definitions of Wallet, with the ledger rows and balances as arguments.
LastIn(L, a, j, i) ==
    /\ j \in 1 .. (i - 1)
    /\ L[j].account = a
    /\ \A k \in (j + 1) .. (i - 1) : L[k].account # a
BalanceIn(L, a, i, b) ==
    \/ \E j \in 1 .. (i - 1) : LastIn(L, a, j, i) /\ b = L[j].after
    \/ (\A j \in 1 .. (i - 1) : L[j].account # a) /\ b = 0
Explains(L, n, B) ==
    /\ \A i \in 1 .. n : BalanceIn(L, L[i].account, i, L[i].after - L[i].amount)
    /\ \A a \in Accounts : BalanceIn(L, a, n + 1, B[a])

\* LedgerExplainsBalance in these terms, now ...
LEMMA ExplainsNow ==
    ASSUME DOMAIN ledger = 1 .. Len(ledger)
    PROVE  LedgerExplainsBalance <=> Explains(ledger, Len(ledger), balance)
BY DEF LedgerExplainsBalance, BalanceBefore, LastBefore, Explains, BalanceIn, LastIn

\* ... and after a step.
LEMMA ExplainsNext ==
    ASSUME DOMAIN ledger' = 1 .. Len(ledger')
    PROVE  LedgerExplainsBalance' <=> Explains(ledger', Len(ledger'), balance')
BY DEF LedgerExplainsBalance, BalanceBefore, LastBefore, Explains, BalanceIn, LastIn

\* Only the rows before i say what the balance before row i was.
LEMMA BalanceInSame ==
    ASSUME NEW L, NEW M, NEW a, NEW i \in Nat, NEW b,
           \A j \in 1 .. (i - 1) : M[j] = L[j], BalanceIn(L, a, i, b)
    PROVE  BalanceIn(M, a, i, b)
<1>1. CASE \E j \in 1 .. (i - 1) : LastIn(L, a, j, i) /\ b = L[j].after
  <2> PICK j \in 1 .. (i - 1) : LastIn(L, a, j, i) /\ b = L[j].after
    BY <1>1
  <2>1. \A k \in (j + 1) .. (i - 1) : k \in 1 .. (i - 1)
    OBVIOUS
  <2>2. LastIn(M, a, j, i) /\ b = M[j].after
    BY <2>1 DEF LastIn
  <2> QED BY <2>2 DEF BalanceIn
<1>2. CASE (\A j \in 1 .. (i - 1) : L[j].account # a) /\ b = 0
  BY <1>2 DEF BalanceIn
<1> QED BY <1>1, <1>2 DEF BalanceIn

\* A row of the account is the last one that tells its balance, a row of
\* another account says nothing about it.
LEMMA BalanceInAfter ==
    ASSUME NEW M, NEW a, NEW n \in Nat, NEW b
    PROVE  /\ M[n + 1].account = a /\ b = M[n + 1].after => BalanceIn(M, a, n + 2, b)
           /\ M[n + 1].account # a /\ BalanceIn(M, a, n + 1, b) => BalanceIn(M, a, n + 2, b)
<1>0. (n + 2) - 1 = n + 1 /\ (n + 1) - 1 = n
  OBVIOUS
<1>1. ASSUME M[n + 1].account = a, b = M[n + 1].after PROVE BalanceIn(M, a, n + 2, b)
  <2>1. LastIn(M, a, n + 1, n + 2)
    BY <1>1 DEF LastIn
  <2> QED BY <1>0, <1>1, <2>1 DEF BalanceIn
<1>2. ASSUME M[n + 1].account # a, BalanceIn(M, a, n + 1, b) PROVE BalanceIn(M, a, n + 2, b)
  <2>1. CASE \E j \in 1 .. n : LastIn(M, a, j, n + 1) /\ b = M[j].after
    <3> PICK j \in 1 .. n : LastIn(M, a, j, n + 1) /\ b = M[j].after
      BY <2>1
    <3>1. \A k \in (j + 1) .. (n + 1) : k \in (j + 1) .. n \/ k = n + 1
      OBVIOUS
    <3>2. LastIn(M, a, j, n + 2)
      BY <1>0, <1>2, <3>1 DEF LastIn
    <3> QED BY <1>0, <3>2 DEF BalanceIn
  <2>2. CASE (\A j \in 1 .. n : M[j].account # a) /\ b = 0
    <3>1. \A k \in 1 .. (n + 1) : k \in 1 .. n \/ k = n + 1
      OBVIOUS
    <3> QED BY <1>0, <1>2, <2>2, <3>1 DEF BalanceIn
  <2> QED BY <1>0, <1>2, <2>1, <2>2 DEF BalanceIn
<1> QED BY <1>1, <1>2

\* Every step keeps the balances explained by the ledger.
LEMMA ExplainsStep == TypeInv /\ LedgerExplainsBalance /\ [Next]_vars => LedgerExplainsBalance'
<1> SUFFICES ASSUME TypeInv, LedgerExplainsBalance, [Next]_vars PROVE LedgerExplainsBalance'
  OBVIOUS
<1>1. CASE UNCHANGED <<ledger, balance>>
  BY <1>1 DEF LedgerExplainsBalance, BalanceBefore, LastBefore
<1>2. ASSUME NEW row, Recorded(row) PROVE LedgerExplainsBalance'
  <2> DEFINE n == Len(ledger)
             a == row.account
  <2>0. /\ n \in Nat /\ DOMAIN ledger = 1 .. n
        /\ Len(ledger') = n + 1 /\ DOMAIN ledger' = 1 .. (n + 1)
        /\ \A i \in 1 .. n : ledger'[i] = ledger[i] /\ ledger[i] \in LedgerRow
        /\ ledger'[n + 1] = row
    BY <1>2, RecordedRows
  <2>1. /\ a \in Accounts /\ row.amount \in Int /\ balance \in [Accounts -> Int]
        /\ row.after = balance[a] + row.amount
        /\ balance' = [balance EXCEPT ![a] = @ + row.amount]
    BY <1>2 DEF Recorded, LedgerRow, TypeInv, TypeOK
  <2>2. Explains(ledger, n, balance)
    BY <2>0, ExplainsNow
  <2> HIDE DEF n, a
  <2>3. ASSUME NEW b \in Accounts PROVE BalanceIn(ledger', b, n + 1, balance[b])
    <3>1. BalanceIn(ledger, b, n + 1, balance[b])
      BY <2>2 DEF Explains
    <3>2. n + 1 \in Nat /\ \A j \in 1 .. ((n + 1) - 1) : ledger'[j] = ledger[j]
      BY <2>0
    <3> QED BY <3>1, <3>2, BalanceInSame
  <2>4. ASSUME NEW i \in 1 .. (n + 1)
        PROVE  BalanceIn(ledger', ledger'[i].account, i, ledger'[i].after - ledger'[i].amount)
    <3>1. CASE i = n + 1
      <4>1. balance[a] = row.after - row.amount
        BY <2>1
      <4>2. BalanceIn(ledger', a, n + 1, row.after - row.amount)
        BY <2>1, <2>3, <4>1
      <4> QED BY <2>0, <3>1, <4>2 DEF a
    <3>2. CASE i # n + 1
      <4>0. i \in 1 .. n /\ i \in Nat
        BY <2>0, <3>2
      <4>1. BalanceIn(ledger, ledger[i].account, i, ledger[i].after - ledger[i].amount)
        BY <2>2, <4>0 DEF Explains
      <4>2. ledger'[i] = ledger[i] /\ \A j \in 1 .. (i - 1) : ledger'[j] = ledger[j]
        BY <2>0, <4>0
      <4>3. BalanceIn(ledger', ledger[i].account, i, ledger[i].after - ledger[i].amount)
        BY <4>0, <4>1, <4>2, BalanceInSame
      <4> QED BY <4>2, <4>3
    <3> QED BY <3>1, <3>2
  <2>5. ASSUME NEW b \in Accounts PROVE BalanceIn(ledger', b, n + 2, balance'[b])
    <3>1. CASE b = a
      <4>1. balance'[b] = row.after /\ ledger'[n + 1].account = b
            /\ ledger'[n + 1].after = row.after
        BY <2>0, <2>1, <3>1 DEF a
      <4> QED BY <2>0, <4>1, BalanceInAfter
    <3>2. CASE b # a
      <4>1. balance'[b] = balance[b] /\ ledger'[n + 1].account # b
        BY <2>0, <2>1, <3>2 DEF a
      <4> QED BY <2>0, <2>3, <4>1, BalanceInAfter
    <3> QED BY <3>1, <3>2
  <2>6. (n + 1) + 1 = n + 2
    BY <2>0
  <2>7. Explains(ledger', n + 1, balance')
    BY <2>4, <2>5, <2>6 DEF Explains
  <2> QED BY <2>0, <2>7, ExplainsNext
<1> QED BY <1>1, <1>2, LedgerCases

\* The ledger explains every balance: row by row, and up to the last one.
THEOREM LedgerExplains == Spec => []LedgerExplainsBalance
<1>1. Init => TypeInv /\ LedgerExplainsBalance
  BY TypeInit DEF Init, LedgerExplainsBalance, BalanceBefore
<1>2. TypeInv /\ LedgerExplainsBalance /\ [Next]_vars => (TypeInv /\ LedgerExplainsBalance)'
  BY TypeStep, ExplainsStep
<1> QED BY <1>1, <1>2, PTL DEF Spec

-----------------------------------------------------------------------------
(* SettledOnce and CodeUsesCounted: the ledger rows of a hold, of a code.     *)

\* What appending a row does to the rows with a type and a reference.
LEMMA RowsAppend ==
    ASSUME TypeInv, NEW row, Recorded(row), NEW t, NEW r
    PROVE  /\ (row.type = t /\ row.ref = r => RowsOf(t, r)' = RowsOf(t, r) \cup {Len(ledger) + 1})
           /\ (~(row.type = t /\ row.ref = r) => RowsOf(t, r)' = RowsOf(t, r))
           /\ RowsOf(t, r) \subseteq 1 .. Len(ledger)
<1> DEFINE n == Len(ledger)
<1>0. /\ n \in Nat /\ DOMAIN ledger = 1 .. n /\ DOMAIN ledger' = 1 .. (n + 1)
      /\ \A i \in 1 .. n : ledger'[i] = ledger[i]
      /\ ledger'[n + 1] = row
  BY RecordedRows
<1>1. 1 .. (n + 1) = (1 .. n) \cup {n + 1}
  BY <1>0
<1> HIDE DEF n
<1>2. RowsOf(t, r)' = {i \in 1 .. (n + 1) : ledger'[i].type = t /\ ledger'[i].ref = r}
  BY <1>0 DEF RowsOf
<1>3. RowsOf(t, r) = {i \in 1 .. n : ledger[i].type = t /\ ledger[i].ref = r}
  BY <1>0 DEF RowsOf
<1>4. ASSUME row.type = t, row.ref = r PROVE RowsOf(t, r)' = RowsOf(t, r) \cup {n + 1}
  BY <1>0, <1>1, <1>2, <1>3, <1>4
<1>5. ASSUME ~(row.type = t /\ row.ref = r) PROVE RowsOf(t, r)' = RowsOf(t, r)
  BY <1>0, <1>1, <1>2, <1>3, <1>5
<1> QED BY <1>3, <1>4, <1>5 DEF n

\* A settled hold has its one charge in the ledger, any other hold none.
ChargeOf(h) == RowsOf(TxTypePreAuthSettle, PreAuthRef(h))
ChargedRight(h) ==
    /\ hold[h].status = "settled" =>
         \E i \in DOMAIN ledger : /\ ChargeOf(h) = {i}
                                  /\ ledger[i].account = hold[h].account
                                  /\ ledger[i].amount = -hold[h].actual
    /\ hold[h].status # "settled" => ChargeOf(h) = {}

\* SettledOnce, hold by hold.
LEMMA SettledIs == SettledOnce <=> \A h \in Holds : ChargedRight(h)
BY DEF SettledOnce, ChargedRight, ChargeOf, RowsOf

\* A row that does not settle h leaves what is said about h as it is.
LEMMA ChargeKept ==
    ASSUME TypeInv, NEW row, Recorded(row), NEW h \in Holds, ChargedRight(h),
           ~(row.type = TxTypePreAuthSettle /\ row.ref = PreAuthRef(h)), hold'[h] = hold[h]
    PROVE  ChargedRight(h)'
<1>1. ChargeOf(h)' = ChargeOf(h)
  BY RowsAppend DEF ChargeOf
<1>2. \A i \in DOMAIN ledger : i \in DOMAIN ledger' /\ ledger'[i] = ledger[i]
  BY RecordedRows
<1> QED BY <1>1, <1>2 DEF ChargedRight

\* A step that leaves the ledger alone and settles no hold, nor touches a
\* settled one, keeps the charges.
LEMMA ChargeSame ==
    ASSUME UNCHANGED ledger, NEW h \in Holds, ChargedRight(h),
           hold'[h] = hold[h] \/ (hold[h].status # "settled" /\ hold'[h].status # "settled")
    PROVE  ChargedRight(h)'
<1>1. ChargeOf(h)' = ChargeOf(h)
  BY DEF ChargeOf, RowsOf
<1> QED BY <1>1 DEF ChargedRight

\* Every step keeps a hold charged once, if it is settled, or not at all.
LEMMA SettledStep == TypeInv /\ SettledOnce /\ [Next]_vars => SettledOnce'
<1> SUFFICES ASSUME TypeInv, SettledOnce, [Next]_vars, NEW g \in Holds PROVE ChargedRight(g)'
  BY SettledIs DEF SettledOnce, ChargedRight, ChargeOf, RowsOf
<1>0. ChargedRight(g)
  BY SettledIs
<1>1. CASE CreditStep
  <2> PICK a \in Accounts, n \in Amounts, t \in CreditTypes \cup {AdminCredit},
           r \in CallerRefs : Credit(a, n, t, r)
    BY <1>1 DEF CreditStep
  <2>1. hold' = hold
    BY DEF Credit, holds
  <2> DEFINE row == [account |-> a, type |-> t, ref |-> r, amount |-> n, after |-> balance[a] + n]
  <2>2. Recorded(row) /\ row.ref = r
    BY CreditRecords
  <2> HIDE DEF row
  <2> QED BY <1>0, <2>1, <2>2, ChargeKept, RefsApart
<1>2. CASE DebitStep
  <2> PICK a \in Accounts, n \in Amounts, t \in DebitTypes \cup {AdminDebit},
           r \in CallerRefs : Debit(a, n, t, r)
    BY <1>2 DEF DebitStep
  <2>1. hold' = hold
    BY DEF Debit, holds
  <2> DEFINE row == [account |-> a, type |-> t, ref |-> r, amount |-> -n,
                     after |-> balance[a] + (-n)]
  <2>2. Recorded(row) /\ row.ref = r
    BY DebitRecords
  <2> HIDE DEF row
  <2> QED BY <1>0, <2>1, <2>2, ChargeKept, RefsApart
<1>3. CASE RedeemStep
  <2> PICK a \in Accounts, c \in Codes : RedeemCode(a, c)
    BY <1>3 DEF RedeemStep
  <2>1. hold' = hold
    BY DEF RedeemCode, holds
  <2> DEFINE row == [account |-> a, type |-> TxTypeRedemption, ref |-> CodeRef(c),
                     amount |-> code[c].reward, after |-> balance[a] + code[c].reward]
  <2>2. Recorded(row) /\ row.type # TxTypePreAuthSettle
    BY RedeemRecords DEF TxTypeRedemption, TxTypePreAuthSettle
  <2> HIDE DEF row
  <2> QED BY <1>0, <2>1, <2>2, ChargeKept
<1>4. CASE SettleStep
  <2> PICK h \in Holds, n \in Amounts \cup {0} : SettlePreAuth(h, n)
    BY <1>4 DEF SettleStep
  <2>0. /\ hold[h] \in HoldRow /\ hold[h].status = "active"
        /\ hold' = [hold EXCEPT ![h].status = "settled", ![h].actual = n]
    BY DEF SettlePreAuth, TypeInv, TypeOK
  <2> DEFINE row == [account |-> hold[h].account, type |-> TxTypePreAuthSettle,
                     ref |-> PreAuthRef(h), amount |-> -n,
                     after |-> balance[hold[h].account] + (-n)]
  <2>1. Recorded(row)
    BY SettleRecords
  <2>2. row.type = TxTypePreAuthSettle /\ row.ref = PreAuthRef(h) /\ row.amount = -n
        /\ row.account = hold[h].account
    OBVIOUS
  <2> HIDE DEF row
  <2>3. CASE g = h
    <3>1. ChargeOf(h) = {}
      BY <1>0, <2>0, <2>3 DEF ChargedRight
    <3>2. ChargeOf(h)' = {Len(ledger) + 1}
      <4>1. ChargeOf(h)' = ChargeOf(h) \cup {Len(ledger) + 1}
        BY <2>1, <2>2, RowsAppend DEF ChargeOf
      <4> QED BY <3>1, <4>1
    <3>3. ledger'[Len(ledger) + 1] = row /\ Len(ledger) + 1 \in DOMAIN ledger'
      BY <2>1, RecordedRows
    <3>4. hold \in [Holds -> HoldRow]
      BY DEF TypeInv, TypeOK
    <3>5. hold'[h].status = "settled" /\ hold'[h].account = hold[h].account /\ hold'[h].actual = n
      BY <2>0, <3>4 DEF HoldRow
    <3> QED BY <2>2, <2>3, <3>2, <3>3, <3>5 DEF ChargedRight
  <2>4. CASE g # h
    <3>1. hold'[g] = hold[g]
      BY <2>0, <2>4 DEF TypeInv, TypeOK
    <3>2. PreAuthRef(h) # PreAuthRef(g)
      BY <2>4 DEF PreAuthRef
    <3> QED BY <1>0, <2>1, <2>2, <3>1, <3>2, ChargeKept
  <2> QED BY <2>3, <2>4
<1>5. CASE FreezeStep \/ ReleaseStep \/ ExpireStep
  <2>1. hold \in [Holds -> HoldRow]
    BY DEF TypeInv, TypeOK
  <2>2. PICK h \in Holds : hold' = hold \/ (hold[h].status \in {"none", "active"}
          /\ \E row \in HoldRow : row.status # "settled" /\ hold' = [hold EXCEPT ![h] = row])
    <3>1. CASE FreezeStep
      <4> PICK h \in Holds, a \in Accounts, n \in Amounts : CreatePreAuth(h, a, n)
        BY <3>1 DEF FreezeStep
      <4>1. [status |-> "active", account |-> a, amount |-> n, actual |-> 0] \in HoldRow
        BY WalletAssumption DEF HoldRow, HoldStatus, Amounts
      <4> QED BY <4>1 DEF CreatePreAuth
    <3>2. ASSUME NEW h \in Holds, NEW s \in {"released", "expired"}, Unfreeze(h, s)
          PROVE \E row \in HoldRow : row.status # "settled" /\ hold' = [hold EXCEPT ![h] = row]
      <4> DEFINE row == [hold[h] EXCEPT !.status = s]
      <4>1. row \in HoldRow /\ row.status = s
        BY <2>1 DEF HoldRow, HoldStatus
      <4>2. hold' = [hold EXCEPT ![h] = row]
        BY <2>1, <3>2 DEF Unfreeze
      <4> HIDE DEF row
      <4> QED BY <4>1, <4>2
    <3>3. CASE ReleaseStep
      BY <3>2, <3>3 DEF ReleaseStep, ReleasePreAuth
    <3>4. CASE ExpireStep
      <4> PICK w \in Workers, h \in Holds : ExpirePreAuth(w, h)
        BY <3>4 DEF ExpireStep
      <4>1. CASE hold[h].status = "active"
        BY <3>2, <4>1 DEF ExpirePreAuth
      <4>2. CASE hold[h].status # "active"
        <5>1. hold' = hold
          BY <4>2 DEF ExpirePreAuth
        <5> QED BY <5>1
      <4> QED BY <4>1, <4>2
    <3> QED BY <1>5, <3>1, <3>3, <3>4
  <2>3. UNCHANGED ledger
    BY <1>5 DEF FreezeStep, CreatePreAuth, ReleaseStep, ReleasePreAuth, ExpireStep, ExpirePreAuth
  <2> QED BY <1>0, <2>1, <2>2, <2>3, ChargeSame
<1>6. CASE CodeStepOnly \/ QuietStep
  <2>1. UNCHANGED <<ledger, hold>>
    BY <1>6 DEF CodeStepOnly, CodeStep, CreateRedemptionCode, BulkGenerateCodes, CodeLapses,
       QuietStep, holds
  <2> QED BY <1>0, <2>1, ChargeSame
<1> QED BY <1>1, <1>2, <1>3, <1>4, <1>5, <1>6, StepCases

\* A settled hold is charged exactly once, for its actual amount and to its
\* owner; a hold that was not settled is not charged.
THEOREM HoldsChargedOnce == Spec => []SettledOnce
<1>1. Init => TypeInv /\ SettledOnce
  <2>1. ASSUME Init, NEW h \in Holds PROVE ChargedRight(h)
    BY <2>1 DEF Init, ChargedRight, ChargeOf, RowsOf, NoHold
  <2> QED BY <2>1, TypeInit, SettledIs
<1>2. TypeInv /\ SettledOnce /\ [Next]_vars => (TypeInv /\ SettledOnce)'
  BY TypeStep, SettledStep
<1> QED BY <1>1, <1>2, PTL DEF Spec

\* The same for a code: its used_count is the number of its rows, and a code
\* that was not created yet was not used.
UsesOf(c) == RowsOf(TxTypeRedemption, CodeRef(c))
SpentRight(c) ==
    /\ code[c].used <= code[c].max
    /\ \/ code[c].used = 0 /\ UsesOf(c) = {}
       \/ code[c].used = 1 /\ \E i \in DOMAIN ledger : UsesOf(c) = {i}
    /\ code[c].rewardType = "none" => code[c].used = 0
CodeInv == \A c \in Codes : SpentRight(c)

\* CodeUsesCounted, code by code.
LEMMA CodeInvImplies == CodeInv => CodeUsesCounted
<1> SUFFICES ASSUME CodeInv, NEW c \in Codes
             PROVE  code[c].used = Cardinality(UsesOf(c)) /\ code[c].used <= code[c].max
  BY DEF UsesOf, RowsOf, CodeUsesCounted
<1>1. SpentRight(c)
  BY DEF CodeInv
<1>2. CASE code[c].used = 0 /\ UsesOf(c) = {}
  BY <1>1, <1>2, FS_EmptySet DEF SpentRight
<1>3. CASE code[c].used = 1 /\ \E i \in DOMAIN ledger : UsesOf(c) = {i}
  <2> PICK i \in DOMAIN ledger : UsesOf(c) = {i}
    BY <1>3
  <2>1. Cardinality({i}) = 1
    BY FS_Singleton
  <2> QED BY <1>1, <1>3, <2>1 DEF SpentRight
<1> QED BY <1>1, <1>2, <1>3 DEF SpentRight

\* A row that is not a redemption of c leaves what is said about c as it is.
LEMMA UsesKept ==
    ASSUME TypeInv, NEW row, Recorded(row), NEW c \in Codes, SpentRight(c),
           ~(row.type = TxTypeRedemption /\ row.ref = CodeRef(c)), code'[c] = code[c]
    PROVE  SpentRight(c)'
<1>1. UsesOf(c)' = UsesOf(c)
  BY RowsAppend DEF UsesOf
<1>2. \A i \in DOMAIN ledger : i \in DOMAIN ledger'
  BY RecordedRows
<1> QED BY <1>1, <1>2 DEF SpentRight

\* Every step keeps the uses of the codes; RedeemCode finds the code unused,
\* because of the index on the ledger's references.
LEMMA CodeInvStep == TypeInv /\ CodeInv /\ [Next]_vars => CodeInv'
<1> SUFFICES ASSUME TypeInv, CodeInv, [Next]_vars, NEW d \in Codes PROVE SpentRight(d)'
  BY DEF CodeInv
<1>0. SpentRight(d) /\ code \in [Codes -> CodeRow] /\ code[d] \in CodeRow
  BY DEF CodeInv, TypeInv, TypeOK
<1>1. CASE CreditStep
  <2> PICK a \in Accounts, n \in Amounts, t \in CreditTypes \cup {AdminCredit},
           r \in CallerRefs : Credit(a, n, t, r)
    BY <1>1 DEF CreditStep
  <2>1. code' = code
    BY DEF Credit, codes
  <2> DEFINE row == [account |-> a, type |-> t, ref |-> r, amount |-> n, after |-> balance[a] + n]
  <2>2. Recorded(row) /\ row.ref = r
    BY CreditRecords
  <2> HIDE DEF row
  <2> QED BY <1>0, <2>1, <2>2, UsesKept, RefsApart
<1>2. CASE DebitStep
  <2> PICK a \in Accounts, n \in Amounts, t \in DebitTypes \cup {AdminDebit},
           r \in CallerRefs : Debit(a, n, t, r)
    BY <1>2 DEF DebitStep
  <2>1. code' = code
    BY DEF Debit, codes
  <2> DEFINE row == [account |-> a, type |-> t, ref |-> r, amount |-> -n,
                     after |-> balance[a] + (-n)]
  <2>2. Recorded(row) /\ row.ref = r
    BY DebitRecords
  <2> HIDE DEF row
  <2> QED BY <1>0, <2>1, <2>2, UsesKept, RefsApart
<1>3. CASE SettleStep
  <2> PICK h \in Holds, n \in Amounts \cup {0} : SettlePreAuth(h, n)
    BY <1>3 DEF SettleStep
  <2>1. code' = code
    BY DEF SettlePreAuth, codes
  <2> DEFINE row == [account |-> hold[h].account, type |-> TxTypePreAuthSettle,
                     ref |-> PreAuthRef(h), amount |-> -n,
                     after |-> balance[hold[h].account] + (-n)]
  <2>2. Recorded(row) /\ row.type # TxTypeRedemption
    BY SettleRecords DEF TxTypeRedemption, TxTypePreAuthSettle
  <2> HIDE DEF row
  <2> QED BY <1>0, <2>1, <2>2, UsesKept
<1>4. CASE RedeemStep
  <2> PICK a \in Accounts, c \in Codes : RedeemCode(a, c)
    BY <1>4 DEF RedeemStep
  <2>0. /\ code' = [code EXCEPT ![c].used = @ + 1] /\ code[c].used < code[c].max
        /\ code[c].rewardType = "credits"
    BY DEF RedeemCode
  <2> DEFINE row == [account |-> a, type |-> TxTypeRedemption, ref |-> CodeRef(c),
                     amount |-> code[c].reward, after |-> balance[a] + code[c].reward]
  <2>1. Recorded(row) /\ row.type = TxTypeRedemption /\ row.ref = CodeRef(c)
    BY RedeemRecords
  <2> HIDE DEF row
  <2>2. CASE c = d
    <3>1. UsesOf(d) = {}
      BY <2>1, <2>2, RefsApart DEF Recorded, ReferenceFree, UsesOf, RowsOf
    <3>2. UsesOf(d)' = {Len(ledger) + 1}
      <4>1. UsesOf(d)' = UsesOf(d) \cup {Len(ledger) + 1}
        BY <2>1, <2>2, RowsAppend DEF UsesOf
      <4> QED BY <3>1, <4>1
    <3>3. Len(ledger) + 1 \in DOMAIN ledger'
      BY <2>1, RecordedRows
    <3>4. code[d].used = 0
      BY <1>0, <3>1 DEF SpentRight
    <3>5. code'[d].used = 1 /\ code'[d].max = code[d].max /\ code'[d].rewardType = "credits"
      BY <1>0, <2>0, <2>2, <3>4 DEF CodeRow
    <3>6. 1 <= code[d].max
      BY <1>0, <2>0, <2>2, <3>4 DEF CodeRow
    <3> QED BY <3>2, <3>3, <3>5, <3>6 DEF SpentRight
  <2>3. CASE c # d
    <3>1. code'[d] = code[d]
      BY <1>0, <2>0, <2>3
    <3>2. CodeRef(c) # CodeRef(d)
      BY <2>3 DEF CodeRef
    <3> QED BY <1>0, <2>1, <3>1, <3>2, UsesKept
  <2> QED BY <2>2, <2>3
<1>5. CASE CodeStepOnly
  <2>1. UNCHANGED ledger
    BY <1>5 DEF CodeStepOnly, CodeStep, CreateRedemptionCode, BulkGenerateCodes, CodeLapses
  <2>2. UsesOf(d)' = UsesOf(d)
    BY <2>1 DEF UsesOf, RowsOf
  <2>3. \/ code'[d] = code[d]
        \/ /\ code[d].rewardType = "none"
           /\ code'[d].used = 0 /\ code'[d].max \in Nat
    BY <1>0, <1>5, WalletAssumption
       DEF CodeStepOnly, CodeStep, CreateRedemptionCode, BulkGenerateCodes, CodeLapses, Amounts
  <2> QED BY <1>0, <2>1, <2>2, <2>3 DEF SpentRight
<1>6. CASE FreezeStep \/ ReleaseStep \/ ExpireStep \/ QuietStep
  <2>1. UNCHANGED <<ledger, code>>
    BY <1>6 DEF FreezeStep, CreatePreAuth, ReleaseStep, ReleasePreAuth, ExpireStep,
       ExpirePreAuth, QuietStep, codes
  <2>2. UsesOf(d)' = UsesOf(d)
    BY <2>1 DEF UsesOf, RowsOf
  <2> QED BY <1>0, <2>1, <2>2 DEF SpentRight
<1> QED BY <1>1, <1>2, <1>3, <1>4, <1>5, <1>6, StepCases

\* used_count counts the redemptions in the ledger and never exceeds max_uses.
THEOREM CodesCounted == Spec => []CodeUsesCounted
<1>1. Init => TypeInv /\ CodeInv
  <2>1. ASSUME Init, NEW c \in Codes PROVE SpentRight(c)
    BY <2>1 DEF Init, SpentRight, UsesOf, RowsOf, NoCode
  <2> QED BY <2>1, TypeInit DEF CodeInv
<1>2. TypeInv /\ CodeInv /\ [Next]_vars => (TypeInv /\ CodeInv)'
  BY TypeStep, CodeInvStep
<1> QED BY <1>1, <1>2, CodeInvImplies, PTL DEF Spec

-----------------------------------------------------------------------------
(* LifetimeTotals: the lifetime columns follow the ledger up to rounding.   *)

\* x is a whole number of cents.
Whole(x) == \E k \in Int : x = Cent * k

\* Rounding to cents moves a total by at most half a cent, and does not move a
\* whole number of cents.
LEMMA Rounding ==
    ASSUME NEW x \in Int
    PROVE  /\ ToCents(x) \in Int /\ Whole(ToCents(x))
           /\ -Cent <= 2 * (ToCents(x) - x) /\ 2 * (ToCents(x) - x) <= Cent
           /\ Whole(x) => ToCents(x) = x
<1> DEFINE d == 2 * Cent
           n == 2 * x + Cent
           q == n \div d
<1>0. Cent \in Nat \ {0} /\ d \in Nat \ {0} /\ n \in Int
  BY WalletAssumption
<1>1. q \in Int /\ d * q <= n /\ n < d * q + d
  <2> HIDE DEF d, n
  <2> QED BY <1>0
<1>2. ToCents(x) = Cent * q
  BY DEF ToCents
<1> HIDE DEF q
<1>3. d * q = 2 * (Cent * q) /\ Cent * q \in Int
  BY <1>0, <1>1
<1>4. -Cent <= 2 * (Cent * q - x) /\ 2 * (Cent * q - x) <= Cent
  <2> DEFINE y == Cent * q
  <2>1. y \in Int /\ 2 * y <= 2 * x + Cent /\ 2 * x + Cent < 2 * y + 2 * Cent
    BY <1>0, <1>1, <1>3
  <2> HIDE DEF y
  <2>2. -Cent <= 2 * (y - x) /\ 2 * (y - x) <= Cent
    BY <1>0, <2>1
  <2> QED BY <2>2 DEF y
<1>5. ASSUME Whole(x) PROVE ToCents(x) = x
  <2> PICK k \in Int : x = Cent * k
    BY <1>5 DEF Whole
  <2>1. d * k = 2 * x
    BY <1>0
  <2>2. d * k <= n /\ n < d * k + d
    BY <1>0, <2>1
  <2>3. n \div d = k
    <3> HIDE DEF n, d
    <3> QED BY <1>0, <2>2
  <2> QED BY <1>2, <2>3 DEF q
<1> QED BY <1>1, <1>2, <1>3, <1>4, <1>5 DEF Whole

\* Whole numbers of cents add up to a whole number of cents.
LEMMA WholeSum ==
    ASSUME NEW x \in Int, NEW y \in Int, Whole(x), y % Cent = 0
    PROVE  Whole(x + y)
<1>0. Cent \in Nat \ {0}
  BY WalletAssumption
<1>1. PICK k \in Int : x = Cent * k
  BY DEF Whole
<1>2. y \div Cent \in Int /\ y = Cent * (y \div Cent)
  BY <1>0
<1>3. PICK m \in Int : y = Cent * m
  BY <1>2
<1>4. x + y = Cent * (k + m) /\ k + m \in Int
  BY <1>0, <1>1, <1>3
<1> QED BY <1>4 DEF Whole

\* What the ledger says an account spent, in how many debits, and topped up.
SpentSum(a) == SumTo(SpentRows(ledger, a), Len(ledger))
TopupSum(a) == SumTo(TopupRows(ledger, a), Len(ledger))
Debits(a) == {i \in DOMAIN ledger : Spent(ledger[i], a) > 0}
WholeTopups(a) == \A i \in DOMAIN ledger : ToppedUp(ledger[i], a) % Cent = 0

TotalsRight(a) ==
    /\ Whole(spend[a]) /\ Whole(topup[a])
    /\ Near(spend[a], SpentSum(a), Cardinality(Debits(a)))
    /\ WholeTopups(a) => topup[a] = TopupSum(a)
TotalsInv == \A a \in Accounts : TotalsRight(a)

\* LifetimeTotals, account by account.
LEMMA TotalsImplies == TotalsInv => LifetimeTotals
BY DEF TotalsInv, TotalsRight, LifetimeTotals, SpentSum, TopupSum, Debits, WholeTopups

\* The sums of a well-typed ledger are integers, and its debits can be counted.
LEMMA TotalsTyped ==
    ASSUME TypeInv, NEW a \in Accounts
    PROVE  /\ SpentSum(a) \in Int /\ TopupSum(a) \in Int
           /\ IsFiniteSet(Debits(a)) /\ Cardinality(Debits(a)) \in Nat
           /\ \A i \in 1 .. Len(ledger) :
                 SpentRows(ledger, a)[i] \in Int /\ TopupRows(ledger, a)[i] \in Int
<1> DEFINE n == Len(ledger)
<1>0. n \in Nat /\ DOMAIN ledger = 1 .. n /\ \A i \in 1 .. n : ledger[i] \in LedgerRow
  BY DEF TypeInv, TypeOK
<1> HIDE DEF n
<1>1. \A i \in 1 .. n : SpentRows(ledger, a)[i] \in Int /\ TopupRows(ledger, a)[i] \in Int
  BY <1>0 DEF SpentRows, TopupRows, Spent, ToppedUp, LedgerRow
<1>2. SumTo(SpentRows(ledger, a), n) \in Int /\ SumTo(TopupRows(ledger, a), n) \in Int
  BY <1>0, <1>1, PartialSumsDef DEF SumTo
<1>3. IsFiniteSet(1 .. n) /\ Debits(a) \subseteq 1 .. n
  BY <1>0, FS_Interval DEF Debits
<1>4. IsFiniteSet(Debits(a))
  BY <1>3, FS_Subset
<1>5. Cardinality(Debits(a)) \in Nat
  BY <1>4, FS_CardinalityType
<1> QED BY <1>1, <1>2, <1>4, <1>5 DEF SpentSum, TopupSum, n

\* An appended row adds its part to the sums.
LEMMA TotalsAppend ==
    ASSUME TypeInv, NEW row, Recorded(row), NEW a \in Accounts
    PROVE  /\ SpentSum(a)' = SpentSum(a) + Spent(row, a)
           /\ TopupSum(a)' = TopupSum(a) + ToppedUp(row, a)
           /\ Cardinality(Debits(a))' =
                 Cardinality(Debits(a)) + (IF Spent(row, a) > 0 THEN 1 ELSE 0)
           /\ WholeTopups(a)' => WholeTopups(a) /\ ToppedUp(row, a) % Cent = 0
           /\ Spent(row, a) \in Nat /\ ToppedUp(row, a) \in Int
<1> DEFINE n == Len(ledger)
<1>0. /\ n \in Nat /\ DOMAIN ledger = 1 .. n
      /\ Len(ledger') = n + 1 /\ DOMAIN ledger' = 1 .. (n + 1)
      /\ \A i \in 1 .. n : ledger'[i] = ledger[i] /\ ledger[i] \in LedgerRow
      /\ ledger'[n + 1] = row
  BY RecordedRows
<1>1. \A i \in 1 .. n : SpentRows(ledger, a)[i] \in Int /\ TopupRows(ledger, a)[i] \in Int
  BY TotalsTyped
<1>2. Spent(row, a) \in Nat /\ ToppedUp(row, a) \in Int
  BY DEF Recorded, LedgerRow, Spent, ToppedUp
<1> HIDE DEF n
<1>3. SumTo(SpentRows(ledger', a), n + 1) = SumTo(SpentRows(ledger, a), n) + Spent(row, a)
  <2> DEFINE f == SpentRows(ledger, a)
             g == SpentRows(ledger', a)
  <2>1. (\A i \in 1 .. n : g[i] = f[i]) /\ g[n + 1] = Spent(row, a)
    BY <1>0 DEF SpentRows
  <2>2. \A i \in 1 .. n : f[i] \in Int
    BY <1>1
  <2> HIDE DEF f, g
  <2>3. n \in Nat /\ (\A i \in 1 .. n : f[i] \in Int /\ g[i] = f[i]) /\ g[n + 1] \in Int
    BY <1>0, <1>2, <2>1, <2>2
  <2>4. SumTo(g, n + 1) = SumTo(f, n) + g[n + 1]
    BY <2>3, SumAppend
  <2> QED BY <2>1, <2>4 DEF f, g
<1>4. SumTo(TopupRows(ledger', a), n + 1) = SumTo(TopupRows(ledger, a), n) + ToppedUp(row, a)
  <2> DEFINE f == TopupRows(ledger, a)
             g == TopupRows(ledger', a)
  <2>1. (\A i \in 1 .. n : g[i] = f[i]) /\ g[n + 1] = ToppedUp(row, a)
    BY <1>0 DEF TopupRows
  <2>2. \A i \in 1 .. n : f[i] \in Int
    BY <1>1
  <2> HIDE DEF f, g
  <2>3. n \in Nat /\ (\A i \in 1 .. n : f[i] \in Int /\ g[i] = f[i]) /\ g[n + 1] \in Int
    BY <1>0, <1>2, <2>1, <2>2
  <2>4. SumTo(g, n + 1) = SumTo(f, n) + g[n + 1]
    BY <2>3, SumAppend
  <2> QED BY <2>1, <2>4 DEF f, g
<1>5. SpentSum(a)' = SumTo(SpentRows(ledger', a), Len(ledger'))
      /\ TopupSum(a)' = SumTo(TopupRows(ledger', a), Len(ledger'))
  BY DEF SpentSum, TopupSum, SpentRows, TopupRows, Spent, ToppedUp
<1>6. Debits(a) = {i \in 1 .. n : Spent(ledger[i], a) > 0}
      /\ Debits(a)' = {i \in 1 .. (n + 1) : Spent(ledger'[i], a) > 0}
  BY <1>0 DEF Debits, Spent
<1>7. 1 .. (n + 1) = (1 .. n) \cup {n + 1} /\ n + 1 \notin 1 .. n
  BY <1>0
<1>8. Cardinality(Debits(a)') = Cardinality(Debits(a)) + (IF Spent(row, a) > 0 THEN 1 ELSE 0)
  <2>0. IsFiniteSet(Debits(a)) /\ Cardinality(Debits(a)) \in Nat
    BY TotalsTyped
  <2>1. CASE Spent(row, a) > 0
    <3>1. Debits(a)' = Debits(a) \cup {n + 1} /\ n + 1 \notin Debits(a)
      BY <1>0, <1>6, <1>7, <2>1
    <3>2. Cardinality(Debits(a) \cup {n + 1}) = Cardinality(Debits(a)) + 1
      BY <2>0, <3>1, FS_AddElement
    <3> QED BY <2>1, <3>1, <3>2
  <2>2. CASE ~(Spent(row, a) > 0)
    <3>1. Debits(a)' = Debits(a)
      BY <1>0, <1>6, <1>7, <2>2
    <3> QED BY <2>0, <2>2, <3>1
  <2> QED BY <2>1, <2>2
<1>9. ASSUME WholeTopups(a)' PROVE WholeTopups(a) /\ ToppedUp(row, a) % Cent = 0
  <2>1. \A i \in 1 .. (n + 1) : ToppedUp(ledger'[i], a) % Cent = 0
    BY <1>0, <1>9 DEF WholeTopups, ToppedUp
  <2>2. \A i \in 1 .. n : ToppedUp(ledger[i], a) % Cent = 0
    BY <1>0, <1>7, <2>1
  <2>3. ToppedUp(row, a) % Cent = 0
    BY <1>0, <1>7, <2>1
  <2> QED BY <1>0, <2>2, <2>3 DEF WholeTopups
<1> QED BY <1>0, <1>2, <1>3, <1>4, <1>5, <1>8, <1>9 DEF SpentSum, TopupSum, n

\* A debit or settlement of m counts as m, rounded; a zero settlement does not
\* move a total of whole cents.
LEMMA NearAfter ==
    ASSUME NEW total \in Int, NEW exact \in Int, NEW writes \in Nat, NEW m \in Nat,
           Whole(total), Near(total, exact, writes)
    PROVE  Near(ToCents(total + m), exact + m, writes + (IF m > 0 THEN 1 ELSE 0))
<1>0. Cent \in Nat \ {0} /\ total + m \in Int
  BY WalletAssumption
<1>1. CASE m = 0
  <2>1. total + m = total /\ exact + m = exact /\ writes + (IF m > 0 THEN 1 ELSE 0) = writes
    BY <1>1
  <2>2. ToCents(total) = total
    BY Rounding
  <2> QED BY <2>1, <2>2
<1>2. CASE m # 0
  <2> DEFINE x == ToCents(total + m)
             w == Cent * writes
  <2>1. /\ x \in Int /\ -Cent <= 2 * (x - (total + m)) /\ 2 * (x - (total + m)) <= Cent
    BY <1>0, Rounding
  <2>2. w \in Int /\ Cent * (writes + 1) = w + Cent
    BY <1>0
  <2>3. -w <= 2 * (total - exact) /\ 2 * (total - exact) <= w
    BY <1>0 DEF Near
  <2> HIDE DEF x, w
  <2>4. -(w + Cent) <= 2 * (x - (exact + m)) /\ 2 * (x - (exact + m)) <= w + Cent
    BY <1>0, <2>1, <2>2, <2>3
  <2>5. 2 * (x - (exact + m)) \in -(w + Cent) .. (w + Cent)
    BY <1>0, <2>1, <2>2, <2>4
  <2>6. writes + (IF m > 0 THEN 1 ELSE 0) = writes + 1
    BY <1>2
  <2> QED BY <2>2, <2>5, <2>6 DEF Near, x
<1> QED BY <1>1, <1>2

\* What each of the four money-moving transactions does to the totals of b.
MovesTotals(row, b) ==
    /\ spend'[b] = ToCents(spend[b] + Spent(row, b))
    /\ \/ topup'[b] = topup[b] /\ ToppedUp(row, b) = 0
       \/ topup'[b] = ToCents(topup[b] + ToppedUp(row, b))

\* Such a row keeps the totals right.
LEMMA TotalsKept ==
    ASSUME TypeInv, NEW row, Recorded(row), NEW b \in Accounts, TotalsRight(b), MovesTotals(row, b)
    PROVE  TotalsRight(b)'
<1> DEFINE s == Spent(row, b)
           u == ToppedUp(row, b)
<1>1. /\ SpentSum(b)' = SpentSum(b) + s /\ TopupSum(b)' = TopupSum(b) + u
      /\ Cardinality(Debits(b))' = Cardinality(Debits(b)) + (IF s > 0 THEN 1 ELSE 0)
      /\ WholeTopups(b)' => WholeTopups(b) /\ u % Cent = 0
      /\ s \in Nat /\ u \in Int
  BY TotalsAppend
<1>2. /\ SpentSum(b) \in Int /\ TopupSum(b) \in Int /\ Cardinality(Debits(b)) \in Nat
      /\ spend[b] \in Int /\ topup[b] \in Int
  BY TotalsTyped DEF TypeInv, TypeOK
<1>3. /\ spend'[b] = ToCents(spend[b] + s)
      /\ (topup'[b] = topup[b] /\ u = 0) \/ topup'[b] = ToCents(topup[b] + u)
  BY DEF MovesTotals
<1>4. /\ Whole(spend[b]) /\ Whole(topup[b])
      /\ Near(spend[b], SpentSum(b), Cardinality(Debits(b)))
      /\ WholeTopups(b) => topup[b] = TopupSum(b)
  BY DEF TotalsRight
<1> HIDE DEF s, u
<1>5. spend[b] + s \in Int /\ topup[b] + u \in Int
  BY <1>1, <1>2
<1>6. Whole(spend'[b]) /\ Whole(topup'[b])
  BY <1>3, <1>4, <1>5, Rounding
<1>7. Near(spend'[b], SpentSum(b)', Cardinality(Debits(b))')
  BY <1>1, <1>2, <1>3, <1>4, NearAfter
<1>8. ASSUME WholeTopups(b)' PROVE topup'[b] = TopupSum(b)'
  <2>1. topup[b] = TopupSum(b) /\ u % Cent = 0
    BY <1>1, <1>4, <1>8
  <2>2. Whole(topup[b] + u)
    BY <1>1, <1>2, <1>4, <2>1, WholeSum
  <2>3. ToCents(topup[b] + u) = topup[b] + u
    BY <1>5, <2>2, Rounding
  <2> QED BY <1>1, <1>2, <1>3, <2>1, <2>3
<1>9. TotalsRight(b)' <=>
        /\ Whole(spend'[b]) /\ Whole(topup'[b])
        /\ Near(spend'[b], SpentSum(b)', Cardinality(Debits(b))')
        /\ WholeTopups(b)' => topup'[b] = TopupSum(b)'
  BY DEF TotalsRight, Whole, Near
<1> QED BY <1>6, <1>7, <1>8, <1>9

\* A credit, debit, redemption or settlement moves the totals by its own row.
LEMMA TotalsMove ==
    ASSUME TypeInv, NEW b \in Accounts, TotalsRight(b),
           CreditStep \/ DebitStep \/ RedeemStep \/ SettleStep
    PROVE  \E row : Recorded(row) /\ MovesTotals(row, b)
<1>0. /\ spend \in [Accounts -> Int] /\ topup \in [Accounts -> Int]
      /\ MaxAmount \in Nat /\ TxTypeTopup \notin DebitTypes
  BY WalletAssumption DEF TypeInv, TypeOK
<1>1. ToCents(spend[b] + 0) = spend[b]
  BY <1>0, Rounding DEF TotalsRight
<1>2. CASE CreditStep
  <2> PICK a \in Accounts, n \in Amounts, t \in CreditTypes \cup {AdminCredit},
           r \in CallerRefs : Credit(a, n, t, r)
    BY <1>2 DEF CreditStep
  <2> DEFINE row == [account |-> a, type |-> t, ref |-> r, amount |-> n, after |-> balance[a] + n]
  <2>1. Recorded(row)
    BY CreditRecords
  <2>2. Spent(row, b) = 0 /\ ToppedUp(row, b) = (IF a = b /\ t = TxTypeTopup THEN n ELSE 0)
    BY <1>0 DEF Spent, ToppedUp, Amounts
  <2> HIDE DEF row
  <2>3. spend' = spend
        /\ topup' = IF t = TxTypeTopup THEN [topup EXCEPT ![a] = ToCents(@ + n)] ELSE topup
    BY DEF Credit
  <2>4. MovesTotals(row, b)
    BY <1>0, <1>1, <2>2, <2>3 DEF MovesTotals
  <2> QED BY <2>1, <2>4
<1>3. CASE DebitStep
  <2> PICK a \in Accounts, n \in Amounts, t \in DebitTypes \cup {AdminDebit},
           r \in CallerRefs : Debit(a, n, t, r)
    BY <1>3 DEF DebitStep
  <2> DEFINE row == [account |-> a, type |-> t, ref |-> r, amount |-> -n,
                     after |-> balance[a] + (-n)]
  <2>1. Recorded(row)
    BY DebitRecords
  <2>2. t # TxTypeTopup
    BY <1>0 DEF AdminDebit, TxTypeTopup
  <2>3. Spent(row, b) = (IF a = b THEN n ELSE 0) /\ ToppedUp(row, b) = 0
    BY <1>0, <2>2 DEF Spent, ToppedUp, Amounts
  <2> HIDE DEF row
  <2>4. topup' = topup /\ spend' = [spend EXCEPT ![a] = ToCents(@ + n)]
    BY DEF Debit
  <2>5. MovesTotals(row, b)
    BY <1>0, <1>1, <2>3, <2>4 DEF MovesTotals
  <2> QED BY <2>1, <2>5
<1>4. CASE RedeemStep
  <2> PICK a \in Accounts, c \in Codes : RedeemCode(a, c)
    BY <1>4 DEF RedeemStep
  <2> DEFINE row == [account |-> a, type |-> TxTypeRedemption, ref |-> CodeRef(c),
                     amount |-> code[c].reward, after |-> balance[a] + code[c].reward]
  <2>0. code[c].reward \in Nat
    BY DEF TypeInv, TypeOK, CodeRow
  <2>1. Recorded(row)
    BY RedeemRecords
  <2>2. Spent(row, b) = 0 /\ ToppedUp(row, b) = 0
    BY <2>0 DEF Spent, ToppedUp, TxTypeRedemption, TxTypeTopup
  <2> HIDE DEF row
  <2>3. topup' = topup /\ spend' = spend
    BY DEF RedeemCode
  <2>4. MovesTotals(row, b)
    BY <1>1, <2>2, <2>3 DEF MovesTotals
  <2> QED BY <2>1, <2>4
<1>5. CASE SettleStep
  <2> PICK h \in Holds, n \in Amounts \cup {0} : SettlePreAuth(h, n)
    BY <1>5 DEF SettleStep
  <2> DEFINE a == hold[h].account
             row == [account |-> a, type |-> TxTypePreAuthSettle, ref |-> PreAuthRef(h),
                     amount |-> -n, after |-> balance[a] + (-n)]
  <2>1. Recorded(row)
    BY SettleRecords
  <2>2. a \in Accounts /\ n \in Nat
    BY <1>0 DEF TypeInv, HoldOwned, SettlePreAuth, Amounts
  <2>4. topup' = topup /\ spend' = [spend EXCEPT ![a] = ToCents(@ + n)]
    BY DEF SettlePreAuth
  <2> HIDE DEF a
  <2>3. Spent(row, b) = (IF a = b THEN n ELSE 0) /\ ToppedUp(row, b) = 0
    BY <2>2 DEF Spent, ToppedUp, TxTypePreAuthSettle, TxTypeTopup
  <2> HIDE DEF row
  <2>5. MovesTotals(row, b)
    BY <1>0, <1>1, <2>2, <2>3, <2>4 DEF MovesTotals
  <2> QED BY <2>1, <2>5
<1> QED BY <1>2, <1>3, <1>4, <1>5

\* Every step keeps the totals of every account right.
LEMMA TotalsStep == TypeInv /\ TotalsInv /\ [Next]_vars => TotalsInv'
<1> SUFFICES ASSUME TypeInv, TotalsInv, [Next]_vars, NEW b \in Accounts PROVE TotalsRight(b)'
  BY DEF TotalsInv
<1>0. TotalsRight(b)
  BY DEF TotalsInv
<1>1. CASE CreditStep \/ DebitStep \/ RedeemStep \/ SettleStep
  BY <1>0, <1>1, TotalsMove, TotalsKept
<1>2. CASE FreezeStep \/ ReleaseStep \/ ExpireStep \/ CodeStepOnly \/ QuietStep
  <2>1. UNCHANGED <<ledger, spend, topup>>
    BY <1>2 DEF FreezeStep, CreatePreAuth, ReleaseStep, ReleasePreAuth, ExpireStep,
       ExpirePreAuth, CodeStepOnly, CodeStep, CreateRedemptionCode, BulkGenerateCodes,
       CodeLapses, QuietStep, money
  <2> QED BY <1>0, <2>1 DEF TotalsRight, Whole, Near, SpentSum, TopupSum, Debits, WholeTopups,
          SpentRows, TopupRows, Spent, ToppedUp
<1> QED BY <1>1, <1>2, StepCases

\* lifetime_spend is within half a cent per debit of what the ledger says was
\* spent, lifetime_topup is the sum of the topups when these are whole cents.
THEOREM TotalsFollowLedger == Spec => []LifetimeTotals
<1>1. Init => TypeInv /\ TotalsInv
  <2> SUFFICES ASSUME Init, NEW a \in Accounts PROVE TotalsRight(a)
    BY TypeInit DEF TotalsInv
  <2>1. /\ ledger = <<>> /\ spend[a] = 0 /\ topup[a] = 0
        /\ Len(ledger) = 0 /\ DOMAIN ledger = {}
    BY DEF Init
  <2>2. SpentSum(a) = 0 /\ TopupSum(a) = 0
    BY <2>1, SumZero DEF SpentSum, TopupSum
  <2>3. Debits(a) = {} /\ Cardinality(Debits(a)) = 0
    BY <2>1, FS_EmptySet DEF Debits
  <2>4. Cent \in Nat /\ Cent * 0 = 0 /\ 0 \in Int
    BY WalletAssumption
  <2>5. Whole(0)
    BY <2>4 DEF Whole
  <2>6. Near(0, 0, 0)
    BY <2>4 DEF Near
  <2> QED BY <2>1, <2>2, <2>3, <2>5, <2>6 DEF TotalsRight
<1>2. TypeInv /\ TotalsInv /\ [Next]_vars => (TypeInv /\ TotalsInv)'
  BY TypeStep, TotalsStep
<1> QED BY <1>1, <1>2, TotalsImplies, PTL DEF Spec
=============================================================================
