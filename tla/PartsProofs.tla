----------------------------- MODULE PartsProofs -----------------------------
(***************************************************************************)
(* The parts of the token that share no item with its payments, for every  *)
(* value of the constants: the arithmetic of a tax (TaxShares), the initial*)
(* accounts (InitialAccounts), the marketing data (Marketing).             *)
(***************************************************************************)
EXTENDS TaxShares, InitialAccounts, Marketing, AmountsProofs, SequenceTheorems

-----------------------------------------------------------------------------
\* Shares: the product of a rate and an amount, floored by One.

Share(r, n) == (r * n) \div One

\* The quotient is the only number with its remainder.
LEMMA DivIs ==
    ASSUME NEW n \in Nat, NEW d \in Nat \ {0}, NEW q \in Nat, d * q <= n, n < d * q + d
    PROVE  n \div d = q
<1>1. n \div d \in Nat /\ d * (n \div d) <= n /\ n < d * (n \div d) + d
  BY DivMul
<1>. DEFINE p == n \div d
<1>. HIDE DEF p
<1>2. p \in Nat /\ d * p <= n /\ n < d * p + d
  BY <1>1 DEF p
<1>3. d * p \in Nat /\ d * q \in Nat /\ d * (p + 1) = d * p + d /\ d * (q + 1) = d * q + d
  BY <1>2, Z3
<1>4. d * p < d * (q + 1) /\ d * q < d * (p + 1)
  BY <1>2, <1>3
<1>5. p < q + 1 /\ q < p + 1
  BY <1>2, <1>4, LessByFactor
<1>6. p = q
  BY <1>2, <1>5
<1>. QED
  BY <1>6 DEF p

LEMMA ShareIs ==
    ASSUME NEW r \in Nat, NEW n \in Nat
    PROVE  /\ r * n \in Nat /\ Share(r, n) \in Nat
           /\ One * Share(r, n) \in Nat
           /\ One * Share(r, n) <= r * n /\ r * n < One * Share(r, n) + One
<1>1. r * n \in Nat
  BY Z3
<1>2. Share(r, n) \in Nat /\ One * Share(r, n) <= r * n /\ r * n < One * Share(r, n) + One
  BY <1>1, DivMul, RatesAssumption DEF Share
<1>. HIDE DEF Share
<1>3. One * Share(r, n) \in Nat
  BY <1>2, RatesAssumption, Z3
<1>. QED
  BY <1>1, <1>2, <1>3

\* Rounding the net amount up is rounding the tax down.
LEMMA NetIsRest ==
    ASSUME NEW r \in Nat, NEW n \in Nat, r * n <= n * One
    PROVE  CeilUint(n * One - r * n) = n - Share(r, n) /\ n - Share(r, n) \in Nat
<1>. USE RatesAssumption
<1>. DEFINE q == Share(r, n)
            k == n * One - r * n + One - 1
<1>1. /\ r * n \in Nat /\ q \in Nat /\ One * q \in Nat
      /\ One * q <= r * n /\ r * n < One * q + One
  BY ShareIs
<1>. HIDE DEF q
<1>2. n * One \in Nat /\ n * One = One * n /\ One * (n + 1) = One * n + One
  BY Z3
<1>3. q \in 0 .. n
  <2>1. One * q < One * (n + 1)
    BY <1>1, <1>2
  <2>2. q < n + 1
    BY <1>1, <2>1, LessByFactor
  <2>. QED
    BY <1>1, <2>2
<1>4. n - q \in Nat /\ One * (n - q) = One * n - One * q
  BY <1>3, Z3
<1>5. k \in Nat
  BY <1>1, <1>2
<1>6. One * (n - q) <= k /\ k < One * (n - q) + One
  BY <1>1, <1>2, <1>4
<1>. HIDE DEF k
<1>7. k \div One = n - q
  BY <1>4, <1>5, <1>6, DivIs
<1>. QED
  BY <1>4, <1>7 DEF CeilUint, k, q

\* The rate that counts: the one of the source, where the movement is taxed.
Rate == IF MovementTaxed(info, src, dst) THEN TaxRate(info.src_cond, src) ELSE 0

TaxTypes == info \in TaxInfo /\ src \in Addr /\ dst \in Addr /\ amount \in 0 .. MaxUint

LEMMA RateIsNat ==
    ASSUME TaxTypes
    PROVE  Rate \in Nat
BY RateType DEF TaxTypes, TaxInfo, Rate

LEMMA AcceptedIs ==
    ASSUME TaxTypes, NEW n \in Nat, Accepted(n)
    PROVE  Rate * n <= n * One /\ (MovementTaxed(info, src, dst) => n * One <= MaxUint)
<1>1. CASE MovementTaxed(info, src, dst)
  BY <1>1 DEF Accepted, DeductTaxOk, Deductible, Rate
<1>2. CASE ~MovementTaxed(info, src, dst)
  <2>1. Rate = 0 /\ 0 * n = 0
    BY <1>2 DEF Rate
  <2>2. n * One \in Nat
    BY RatesAssumption, Z3
  <2>. QED
    BY <1>2, <2>1, <2>2
<1>. QED
  BY <1>1, <1>2

LEMMA DeductedIs ==
    ASSUME TaxTypes, NEW n \in Nat, Accepted(n)
    PROVE  /\ Deducted(n) = Split(n - Share(Rate, n), Share(Rate, n))
           /\ Deducted(n).tax = Share(Rate, n)
           /\ Deducted(n).net = n - Share(Rate, n)
           /\ Share(Rate, n) \in Nat /\ n - Share(Rate, n) \in Nat
<1>1. Rate \in Nat /\ Rate * n <= n * One
  BY RateIsNat, AcceptedIs
<1>2. /\ CeilUint(n * One - Rate * n) = n - Share(Rate, n)
      /\ n - Share(Rate, n) \in Nat /\ Share(Rate, n) \in Nat
  BY <1>1, NetIsRest, ShareIs
<1>3. Deducted(n) = Split(n - Share(Rate, n), Share(Rate, n))
  <2>1. CASE MovementTaxed(info, src, dst)
    <3>1. Rate = TaxRate(info.src_cond, src)
      BY <2>1 DEF Rate
    <3>2. Deducted(n) = Split(n - Share(Rate, n), n - (n - Share(Rate, n)))
      BY <1>2, <2>1, <3>1 DEF Deducted, DeductTax, TaxDeduction
    <3>3. n - (n - Share(Rate, n)) = Share(Rate, n)
      BY <1>2
    <3>. QED
      BY <3>2, <3>3
  <2>2. CASE ~MovementTaxed(info, src, dst)
    <3>1. Share(Rate, n) = 0
      <4>1. Rate = 0 /\ 0 * n = 0
        BY <2>2 DEF Rate
      <4>2. One * 0 = 0
        BY RatesAssumption
      <4>3. 0 \div One = 0
        BY <4>2, DivIs, RatesAssumption
      <4>. QED
        BY <4>1, <4>3 DEF Share
    <3>2. Deducted(n) = Split(n, 0)
      BY <2>2 DEF Deducted, DeductTax
    <3>. QED
      BY <3>1, <3>2
  <2>. QED
    BY <2>1, <2>2
<1>. QED
  BY <1>2, <1>3 DEF Split

\* The shares of two parts, and of the whole.
LEMMA SharesAdd ==
    ASSUME NEW r \in Nat, NEW n \in Nat, NEW k \in Nat
    PROVE  Share(r, n + k) - (Share(r, n) + Share(r, k)) \in {0, 1}
<1>. USE RatesAssumption
<1>. DEFINE p == Share(r, n)
            q == Share(r, k)
            w == Share(r, n + k)
<1>1. n + k \in Nat
  OBVIOUS
<1>2. /\ p \in Nat /\ One * p \in Nat /\ r * n \in Nat
      /\ One * p <= r * n /\ r * n < One * p + One
  BY ONLY ShareIs, r \in Nat, n \in Nat DEF p
<1>3. /\ q \in Nat /\ One * q \in Nat /\ r * k \in Nat
      /\ One * q <= r * k /\ r * k < One * q + One
  BY ONLY ShareIs, r \in Nat, k \in Nat DEF q
<1>4. /\ w \in Nat /\ One * w \in Nat /\ r * (n + k) \in Nat
      /\ One * w <= r * (n + k) /\ r * (n + k) < One * w + One
  BY ONLY <1>1, ShareIs, r \in Nat DEF w
<1>. HIDE DEF p, q, w
<1>5. r * (n + k) = r * n + r * k
  BY Z3
<1>6. /\ One * (p + q) = One * p + One * q
      /\ One * (w + 1) = One * w + One
      /\ One * (p + q + 2) = One * p + One * q + One + One
  BY <1>2, <1>3, <1>4, Z3
<1>7. One * (p + q) < One * (w + 1) /\ One * w < One * (p + q + 2)
  BY <1>2, <1>3, <1>4, <1>5, <1>6
<1>8. p + q < w + 1 /\ w < p + q + 2
  BY <1>2, <1>3, <1>4, <1>7, LessByFactor
<1>9. w - (p + q) \in {0, 1}
  BY <1>2, <1>3, <1>4, <1>8
<1>. QED
  BY <1>9 DEF p, q, w

\* The share of one unit more, at a rate up to One.
LEMMA NextShare ==
    ASSUME NEW r \in Nat, NEW n \in Nat, r <= One
    PROVE  Share(r, n + 1) - Share(r, n) \in {0, 1}
<1>. USE RatesAssumption
<1>. DEFINE p == Share(r, n)
            w == Share(r, n + 1)
<1>1. n + 1 \in Nat
  OBVIOUS
<1>2. /\ p \in Nat /\ One * p \in Nat /\ r * n \in Nat
      /\ One * p <= r * n /\ r * n < One * p + One
  BY ONLY ShareIs, r \in Nat, n \in Nat DEF p
<1>3. /\ w \in Nat /\ One * w \in Nat /\ r * (n + 1) \in Nat
      /\ One * w <= r * (n + 1) /\ r * (n + 1) < One * w + One
  BY ONLY <1>1, ShareIs, r \in Nat DEF w
<1>. HIDE DEF p, w
<1>4. r * (n + 1) = r * n + r
  BY Z3
<1>5. One * (w + 1) = One * w + One /\ One * (p + 2) = One * p + One + One
  BY <1>2, <1>3, Z3
<1>6. One * p < One * (w + 1) /\ One * w < One * (p + 2)
  BY <1>2, <1>3, <1>4, <1>5
<1>7. p < w + 1 /\ w < p + 2
  BY <1>2, <1>3, <1>6, LessByFactor
<1>8. w - p \in {0, 1}
  BY <1>2, <1>3, <1>7
<1>. QED
  BY <1>8 DEF p, w

\* A part of an accepted amount is accepted.
LEMMA PartAccepted ==
    ASSUME TaxTypes, NEW n \in Nat, NEW k \in 0 .. n, Accepted(n)
    PROVE  Accepted(k)
<1>. SUFFICES ASSUME MovementTaxed(info, src, dst)
              PROVE  Deductible(info.src_cond, src, k)
  BY DEF Accepted, DeductTaxOk
<1>. DEFINE r == Rate
<1>1. r \in Nat /\ r * n <= n * One /\ n * One <= MaxUint
  BY RateIsNat, AcceptedIs
<1>2. TaxRate(info.src_cond, src) = r
  BY DEF Rate
<1>. HIDE DEF r
<1>3. k * One <= n * One /\ k * One \in Nat /\ n * One \in Nat
  BY RatesAssumption, Z3
<1>4. r * k <= k * One
  <2>1. CASE k = 0
    BY <1>1, <2>1, RatesAssumption
  <2>2. CASE k # 0
    <3>1. n \in Nat \ {0} /\ n * r <= n * One /\ One + 1 \in Int /\ n * (One + 1) = n * One + n
      BY <1>1, <2>2, RatesAssumption, Z3
    <3>2. n * r \in Nat /\ n * r < n * (One + 1)
      BY <1>1, <1>3, <3>1, Z3
    <3>3. r < One + 1
      BY <1>1, <3>1, <3>2, LessByFactor
    <3>4. r <= One
      BY <1>1, <3>3, RatesAssumption
    <3>. QED
      BY <1>1, <3>4, RatesAssumption, Z3
  <2>. QED
    BY <2>1, <2>2
<1>5. k * One <= MaxUint
  BY <1>1, <1>3, RatesAssumption
<1>. QED
  BY <1>2, <1>4, <1>5 DEF Deductible

-----------------------------------------------------------------------------
\* The tax of a payment.

LEMMA TaxTypesHold == TaxSpec => []TaxTypes
<1>1. TaxInit => TaxTypes
  BY SharesAssumption, RatesAssumption DEF TaxInit, TaxTypes
<1>2. TaxTypes /\ [Grow]_tax_vars => TaxTypes'
  BY RatesAssumption DEF TaxTypes, Grow, tax_vars
<1>. QED
  BY <1>1, <1>2, PTL DEF TaxSpec

\* Whatever the rates, the conditions and the accounts: a payment that is accepted is
\* taxed the share of its amount that the rate says, rounded down (tax_deduction
\* rounds the net amount up), and never where one side is not under its condition.
THEOREM TaxIsFloorOfShare == TaxSpec => []FloorOfShare
<1>1. TaxTypes => FloorOfShare
  <2>. SUFFICES ASSUME TaxTypes
                PROVE  FloorOfShare
    OBVIOUS
  <2>. DEFINE from == info.src_cond
              to == info.dst_cond
              rate == IF /\ from.kind # "Never" /\ to.kind # "Never"
                         /\ from.kind = "ContractCode" => CodeIdOf[src] \in from.code_ids
                         /\ to.kind = "ContractCode" => CodeIdOf[dst] \in to.code_ids
                         /\ dst # info.proceeds
                      THEN from.tax_rate ELSE 0
  <2>1. from \in TaxCondition /\ to \in TaxCondition /\ amount \in Nat
    BY RatesAssumption DEF TaxTypes, TaxInfo
  <2>2. \A c \in TaxCondition : c.kind \in {"Never", "Always", "ContractCode"}
    BY DEF TaxCondition, NeverCondition, AlwaysCondition, ContractCodeCondition
  <2>3. rate = Rate
    BY <2>1, <2>2 DEF Rate, MovementTaxed, TaxRate, IsTaxed
  <2>4. Accepted(amount) =>
            Deducted(amount) = Split(amount - (Rate * amount) \div One, (Rate * amount) \div One)
    BY <2>1, DeductedIs DEF Share
  <2>. HIDE DEF rate
  <2>5. Accepted(amount) =>
            Deducted(amount) = Split(amount - (rate * amount) \div One, (rate * amount) \div One)
    BY <2>3, <2>4
  <2>. QED
    BY <2>5 DEF FloorOfShare, rate
<1>. QED
  BY <1>1, TaxTypesHold, PTL

\* Nobody gains more than one base unit by cutting a payment in two, and nobody loses.
THEOREM SplittingSavesLittle == TaxSpec => []SplittingSavesAtMostOne
<1>1. TaxTypes => SplittingSavesAtMostOne
  <2>. SUFFICES ASSUME TaxTypes, Accepted(amount), NEW k \in 0 .. amount
                PROVE  /\ Accepted(k)
                       /\ Deducted(k).tax + Deducted(amount - k).tax
                              \in {Deducted(amount).tax, Deducted(amount).tax - 1}
    BY DEF SplittingSavesAtMostOne
  <2>1. /\ amount \in Nat /\ k \in Nat /\ amount - k \in 0 .. amount /\ amount - k \in Nat
        /\ (amount - k) + k = amount
    BY RatesAssumption DEF TaxTypes
  <2>2. Accepted(k) /\ Accepted(amount - k)
    BY <2>1, PartAccepted
  <2>. DEFINE p == Share(Rate, amount - k)
              q == Share(Rate, k)
              w == Share(Rate, amount)
  <2>3. /\ Deducted(amount - k).tax = p /\ Deducted(k).tax = q /\ Deducted(amount).tax = w
        /\ p \in Nat /\ q \in Nat /\ w \in Nat
    BY <2>1, <2>2, DeductedIs
  <2>4. w - (p + q) \in {0, 1}
    <3>1. Rate \in Nat
      BY RateIsNat
    <3>2. Share(Rate, (amount - k) + k) - (p + q) \in {0, 1}
      BY <2>1, <3>1, SharesAdd
    <3>. QED
      BY <2>1, <3>2
  <2>. HIDE DEF p, q, w
  <2>. QED
    BY <2>2, <2>3, <2>4
<1>. QED
  BY <1>1, TaxTypesHold, PTL

\* One unit more, and it is either taxed or received.
THEOREM OneUnitIsTaxedOrReceived == TaxSpec => MoreIsMore
<1>1. ASSUME TaxTypes, [Grow]_tax_vars, Accepted(amount')
      PROVE  UNCHANGED tax_vars
             \/ /\ Accepted(amount)
                /\ Deducted(amount').tax - Deducted(amount).tax \in {0, 1}
                /\ Deducted(amount').net - Deducted(amount).net \in {0, 1}
  <2>. SUFFICES ASSUME Grow
                PROVE  /\ Accepted(amount)
                       /\ Deducted(amount').tax - Deducted(amount).tax \in {0, 1}
                       /\ Deducted(amount').net - Deducted(amount).net \in {0, 1}
    BY <1>1
  <2>. DEFINE n == amount
              m == amount'
  <2>1. n \in Nat /\ m = n + 1 /\ m \in Nat /\ n \in 0 .. m /\ m \in Nat \ {0}
    BY <1>1, RatesAssumption DEF TaxTypes, Grow
  <2>2. Accepted(m) /\ Accepted(n)
    BY <1>1, <2>1, PartAccepted
  <2>. DEFINE p == Share(Rate, n)
              w == Share(Rate, m)
  <2>3. /\ Deducted(n).tax = p /\ Deducted(n).net = n - p
        /\ Deducted(m).tax = w /\ Deducted(m).net = m - w
        /\ p \in Nat /\ w \in Nat
    BY <1>1, <2>1, <2>2, DeductedIs
  <2>4. Rate \in Nat /\ Accepted(1)
    BY <1>1, <2>1, <2>2, RateIsNat, PartAccepted
  <2>5. Rate <= One
    <3>1. Rate * 1 <= 1 * One
      BY <1>1, <2>4, AcceptedIs
    <3>. QED
      BY <2>4, <3>1, RatesAssumption
  <2>6. w - p \in {0, 1}
    BY <2>1, <2>4, <2>5, NextShare
  <2>. HIDE DEF p, w
  <2>. QED
    BY <2>1, <2>2, <2>3, <2>6
<1>. QED
  BY <1>1, TaxTypesHold, PTL DEF TaxSpec, MoreIsMore

-----------------------------------------------------------------------------
\* The initial accounts.
\* The sum grows by a row's amount because the row's account had nothing, and it had
\* nothing because no earlier row names it: that is where the invariant needs both
\* ValidAccounts and what the rows done have left behind.

RowsDone ==
    /\ row > 0 => ValidAccounts(coins)
    /\ \A i \in 1 .. row : /\ coins[i].address \in Addr
                           /\ saved[coins[i].address] = coins[i].amount
    /\ \A a \in Addr : (\A i \in 1 .. row : coins[i].address # a) => saved[a] = 0

AInv ==
    /\ coins \in Seq(Coin)
    /\ row \in 0 .. Len(coins)
    /\ saved \in [Addr -> 0 .. MaxUint]
    /\ total_supply \in 0 .. MaxUint
    /\ TotalBalance(saved) = total_supply
    /\ RowsDone

LEMMA AccountsStart == AccountsInit => AInv
<1>. SUFFICES ASSUME AccountsInit
              PROVE  AInv
  OBVIOUS
<1>1. coins \in Seq(Coin) /\ row = 0 /\ Len(coins) \in Nat
  BY AccountsAssumption, LenProperties DEF AccountsInit
<1>2. saved \in [Addr -> 0 .. MaxUint] /\ total_supply \in 0 .. MaxUint
  BY RatesAssumption DEF AccountsInit
<1>3. TotalBalance(saved) = total_supply
  BY TotalOfZeros DEF AccountsInit
<1>4. RowsDone
  BY <1>1 DEF RowsDone, AccountsInit
<1>. QED
  BY <1>1, <1>2, <1>3, <1>4 DEF AInv

LEMMA RowSaved ==
    ASSUME AInv, SaveRow
    PROVE  AInv'
<1>. DEFINE coin == coins[row + 1]
            b == SetBalance(saved, coin.address, coin.amount)
<1>1. coins \in Seq(Coin) /\ row \in Nat /\ Len(coins) \in Nat /\ row + 1 \in 1 .. Len(coins)
  BY LenProperties DEF AInv, SaveRow
<1>2. \A i \in 1 .. Len(coins) : i \in DOMAIN coins /\ coins[i] \in Coin
  BY <1>1, ElementOfSeq, LenProperties
<1>3. coin \in Coin /\ coin.address \in Addr /\ coin.amount \in 0 .. MaxUint
  BY <1>1, <1>2 DEF SaveRow, Coin
<1>4. ValidAccounts(coins)
  BY DEF SaveRow
<1>5. \A i \in 1 .. row : coins[i].address # coin.address
  BY <1>1, <1>2, <1>4 DEF ValidAccounts
<1>6. saved[coin.address] = 0
  BY <1>3, <1>5 DEF AInv, RowsDone
<1>7. /\ coins' = coins /\ row' = row + 1 /\ saved' = b
      /\ total_supply' = total_supply + coin.amount /\ total_supply' <= MaxUint
  BY DEF SaveRow, SetBalance
<1>8. saved \in [Addr -> 0 .. MaxUint] /\ total_supply \in Nat /\ TotalBalance(saved) = total_supply
  BY RatesAssumption DEF AInv
<1>9. MaxUint \in Nat /\ coin.amount \in Nat
  BY <1>3, RatesAssumption
<1>10. TotalBalance(b) = TotalBalance(saved) - saved[coin.address] + coin.amount
  <2>1. IsFiniteSet(Addr) /\ coin.address \in Addr
    BY <1>3, AccountsAssumption
  <2>. HIDE DEF coin
  <2>. QED
    BY ONLY <2>1, <1>8, <1>9, TotalOfUpdate DEF b
<1>11. b \in [Addr -> 0 .. MaxUint]
  BY <1>3, <1>8 DEF SetBalance
<1>12. /\ b[coin.address] = coin.amount
       /\ \A a \in Addr : a # coin.address => b[a] = saved[a]
  BY <1>3, <1>8 DEF SetBalance
<1>13. RowsDone'
  <2>1. \A i \in 1 .. row + 1 : i \in 1 .. row \/ i = row + 1
    BY <1>1
  <2>2. \A i \in 1 .. row + 1 : coins[i].address \in Addr /\ b[coins[i].address] = coins[i].amount
    <3>. TAKE i \in 1 .. row + 1
    <3>1. CASE i \in 1 .. row
      <4>1. coins[i].address \in Addr /\ saved[coins[i].address] = coins[i].amount
        BY <3>1 DEF AInv, RowsDone
      <4>2. coins[i].address # coin.address
        BY <1>5, <3>1
      <4>. HIDE DEF b, coin
      <4>. QED
        BY <1>12, <4>1, <4>2
    <3>2. CASE i = row + 1
      BY <1>3, <1>12, <3>2
    <3>. QED
      BY <2>1, <3>1, <3>2
  <2>3. \A a \in Addr : (\A i \in 1 .. row + 1 : coins[i].address # a) => b[a] = 0
    <3>. SUFFICES ASSUME NEW a \in Addr, \A i \in 1 .. row + 1 : coins[i].address # a
                  PROVE  b[a] = 0
      OBVIOUS
    <3>1. a # coin.address /\ \A i \in 1 .. row : coins[i].address # a
      BY <1>1
    <3>2. saved[a] = 0
      BY <3>1 DEF AInv, RowsDone
    <3>. HIDE DEF b, coin
    <3>. QED
      BY <1>12, <3>1, <3>2
  <2>. HIDE DEF b
  <2>. QED
    BY <1>4, <1>7, <2>2, <2>3 DEF RowsDone, ValidAccounts
<1>. HIDE DEF b, coin
<1>14. TotalBalance(b) = total_supply + coin.amount
  BY <1>6, <1>8, <1>9, <1>10
<1>15. row' \in 0 .. Len(coins') /\ total_supply' \in 0 .. MaxUint
  BY <1>1, <1>7, <1>8, <1>9
<1>. QED
  BY <1>1, <1>7, <1>11, <1>13, <1>14, <1>15 DEF AInv

LEMMA AccountsInvariant == AccountsSpec => []AInv
<1>1. AInv /\ UNCHANGED accounts_vars => AInv'
  BY DEF AInv, RowsDone, accounts_vars, ValidAccounts
<1>2. AInv /\ [SaveRow]_accounts_vars => AInv'
  BY <1>1, RowSaved
<1>. QED
  BY <1>2, AccountsStart, PTL DEF AccountsSpec

\* Whatever the list, its order and its length: the supply that create_accounts
\* returns is the sum of the balances it has saved.
THEOREM SupplyStartsConserved == AccountsSpec => []SupplyMatchesAccounts
<1>1. AInv => SupplyMatchesAccounts
  BY DEF AInv, SupplyMatchesAccounts
<1>. QED
  BY <1>1, AccountsInvariant, PTL

\* No row's balance is overwritten by a later row.
THEOREM AccountsStartAsGiven == AccountsSpec => []EveryCoinSaved
<1>1. AInv => EveryCoinSaved
  BY DEF AInv, RowsDone, EveryCoinSaved
<1>. QED
  BY <1>1, AccountsInvariant, PTL

-----------------------------------------------------------------------------
\* The marketing data.

LEMMA LogoInfoOfType ==
    ASSUME NEW l \in Logo
    PROVE  LogoInfoOf(l) \in LogoInfo
BY DEF LogoInfoOf, LogoInfo, Logo, Picture

LEMMA LogoInfoOfNotNone ==
    ASSUME NEW l \in Logo
    PROVE  LogoInfoOf(l) # None
BY LogoInfoOfType, MarketingAssumption

\* The logos that verify_logo lets pass.
VerifiedLogo ==
    [kind : {"svg", "png"}, header : {TRUE}, size : 0 .. LOGO_SIZE_CAP]
    \cup [kind : {"url"}, url : Texts]

LEMMA VerifiedLogoType ==
    ASSUME NEW l \in Logo, VerifyLogo(l)
    PROVE  l \in VerifiedLogo
<1>1. CASE l \in Picture
  <2>1. l.header = TRUE /\ l.size \in 0 .. LOGO_SIZE_CAP /\ l.kind \in {"svg", "png"}
    BY <1>1, MarketingAssumption DEF VerifyLogo, Picture
  <2> QED BY <1>1, <2>1 DEF VerifiedLogo, Picture
<1>2. CASE l \in [kind : {"url"}, url : Texts]
  BY <1>2 DEF VerifiedLogo
<1> QED BY <1>1, <1>2 DEF Logo

LEMMA VerifiedIsLogo ==
    ASSUME NEW l \in VerifiedLogo
    PROVE  l \in Logo
<1>1. CASE l \in [kind : {"svg", "png"}, header : {TRUE}, size : 0 .. LOGO_SIZE_CAP]
  <2>1. 0 .. LOGO_SIZE_CAP \subseteq Nat
    BY MarketingAssumption
  <2>2. l = [kind |-> l.kind, header |-> l.header, size |-> l.size]
    BY <1>1
  <2>3. l.kind \in {"svg", "png"} /\ l.header \in BOOLEAN /\ l.size \in Nat
    BY <1>1, <2>1
  <2> QED BY <2>2, <2>3 DEF Logo, Picture
<1>2. CASE l \in [kind : {"url"}, url : Texts]
  BY <1>2 DEF Logo
<1> QED BY <1>1, <1>2 DEF VerifiedLogo

\* The fields of a record and of the instantiate message.
LEMMA UpdatedType ==
    ASSUME NEW field \in Field, NEW given \in Field
    PROVE  Updated(field, given) \in Field
BY DEF Updated, Field

LEMMA UpdatedMarketingType ==
    ASSUME NEW field \in Addr \cup {None}, NEW given \in Addr \cup {Blank, None}
    PROVE  Updated(field, given) \in Addr \cup {None}
BY DEF Updated

-----------------------------------------------------------------------------
\* The invariant: types, and the record is about the logo that is stored.
\* A record is never empty of everything while there is a logo, so its removal
\* (is_empty) never leaves a logo behind.
InSync ==
    /\ marketing_info = None => logo = None
    /\ marketing_info # None =>
          marketing_info.logo = IF logo = None THEN None ELSE LogoInfoOf(logo)

MInv == TypeOK /\ InSync

LEMMA MInvInit == Init => MInv
<1> SUFFICES ASSUME NEW i \in Instantiations, InitWith(i) PROVE MInv
  BY DEF Init
<1>1. CASE i = None
  BY <1>1 DEF InitWith, MInv, TypeOK, InSync
<1>2. CASE i # None
  <2>1. i \in InstantiateMarketingInfo
    BY <1>2, MarketingAssumption
  <2>2. /\ InstantiateOk(i) /\ logo = i.logo
        /\ marketing_info = [i EXCEPT !.logo = IF i.logo = None THEN None ELSE LogoInfoOf(i.logo)]
    BY <1>2 DEF InitWith
  <2>3. i.logo = None \/ i.logo \in Logo
    BY <2>1 DEF InstantiateMarketingInfo
  <2>4. i.marketing \in Addr \cup {None}
    BY <2>1, <2>2 DEF InstantiateMarketingInfo, InstantiateOk
  <2>5. marketing_info.logo = IF i.logo = None THEN None ELSE LogoInfoOf(i.logo)
    BY <2>1, <2>2 DEF InstantiateMarketingInfo
  <2>6. marketing_info \in MarketingInfo
    <3>1. (IF i.logo = None THEN None ELSE LogoInfoOf(i.logo)) \in LogoInfo \cup {None}
      BY <2>3, LogoInfoOfType
    <3> QED BY <2>1, <2>2, <2>4, <3>1 DEF InstantiateMarketingInfo, MarketingInfo
  <2>7. marketing_info # None
    BY <2>6, MarketingAssumption
  <2>8. logo \in VerifiedLogo \cup {None}
    BY <2>2, <2>3, VerifiedLogoType DEF InstantiateOk
  <2> QED BY <2>2, <2>5, <2>6, <2>7, <2>8 DEF MInv, TypeOK, InSync, VerifiedLogo
<1> QED BY <1>1, <1>2

LEMMA MInvUpdateMarketing ==
    ASSUME MInv, NEW sender \in Addr, NEW project \in Field, NEW description \in Field,
           NEW marketing, UpdateMarketing(sender, project, description, marketing)
    PROVE  MInv'
<1> DEFINE edited == [marketing_info EXCEPT !.project = Updated(@, project),
                                            !.description = Updated(@, description),
                                            !.marketing = Updated(@, marketing)]
<1>1. marketing \in Addr \cup {Blank, None}
  BY DEF UpdateMarketing, UpdateMarketingOk
<1>2. marketing_info \in MarketingInfo /\ marketing_info # None
  BY DEF UpdateMarketing, UpdateMarketingOk, Authorized, MInv, TypeOK
<1>3. /\ marketing_info' = IF IsEmpty(edited) THEN None ELSE edited
      /\ logo' = logo
  BY DEF UpdateMarketing
<1>4. edited \in MarketingInfo /\ edited.logo = marketing_info.logo
  <2>1. /\ Updated(marketing_info.project, project) \in Field
        /\ Updated(marketing_info.description, description) \in Field
        /\ Updated(marketing_info.marketing, marketing) \in Addr \cup {None}
    BY <1>1, <1>2, UpdatedType, UpdatedMarketingType DEF MarketingInfo
  <2> QED BY <1>2, <2>1 DEF MarketingInfo
<1>5. edited # None
  BY <1>4, MarketingAssumption
<1> HIDE DEF edited
<1>6. TypeOK'
  BY <1>3, <1>4 DEF MInv, TypeOK
<1>7. InSync'
  <2>1. marketing_info.logo = IF logo = None THEN None ELSE LogoInfoOf(logo)
    BY <1>2 DEF MInv, InSync
  <2>2. CASE IsEmpty(edited)
    <3>1. edited.logo = None
      BY <2>2 DEF IsEmpty
    <3>2. logo = None
      <4>1. logo # None => logo \in Logo
        BY VerifiedIsLogo DEF MInv, TypeOK, VerifiedLogo
      <4> QED BY <1>4, <2>1, <3>1, <4>1, LogoInfoOfNotNone
    <3> QED BY <1>3, <2>2, <3>2 DEF InSync
  <2>3. CASE ~IsEmpty(edited)
    BY <1>3, <1>4, <1>5, <2>1, <2>3 DEF InSync
  <2> QED BY <2>2, <2>3
<1> QED BY <1>6, <1>7 DEF MInv

LEMMA MInvUploadLogo ==
    ASSUME MInv, NEW sender \in Addr, NEW l \in Logos, UploadLogo(sender, l)
    PROVE  MInv'
<1>1. l \in Logo
  BY MarketingAssumption
<1>2. /\ VerifyLogo(l) /\ logo' = l
      /\ marketing_info' = [marketing_info EXCEPT !.logo = LogoInfoOf(l)]
      /\ marketing_info # None
  BY DEF UploadLogo, UploadLogoOk, Authorized
<1>3. marketing_info \in MarketingInfo
  BY <1>2 DEF MInv, TypeOK
<1>4. marketing_info' \in MarketingInfo /\ marketing_info'.logo = LogoInfoOf(l)
  BY <1>1, <1>2, <1>3, LogoInfoOfType DEF MarketingInfo
<1>5. TypeOK'
  BY <1>1, <1>2, <1>4, VerifiedLogoType DEF TypeOK, VerifiedLogo
<1>6. logo' # None
  BY <1>1, <1>2, MarketingAssumption
<1>7. InSync'
  BY <1>2, <1>4, <1>6, MarketingAssumption DEF InSync
<1> QED BY <1>5, <1>7 DEF MInv

LEMMA MInvNext == MInv /\ [Next]_marketing_vars => MInv'
<1> SUFFICES ASSUME MInv, [Next]_marketing_vars PROVE MInv'
  OBVIOUS
<1>1. CASE UNCHANGED marketing_vars
  BY <1>1 DEF MInv, TypeOK, InSync, marketing_vars
<1>2. CASE Next
  BY <1>2, MInvUpdateMarketing, MInvUploadLogo DEF Next
<1> QED BY <1>1, <1>2

LEMMA MInvHolds == Spec => []MInv
BY MInvInit, MInvNext, PTL DEF Spec

-----------------------------------------------------------------------------
\* The items keep their types for all texts and sizes; a picture without the right
\* header, or above the cap, is never stored (verify_logo).
THEOREM MarketingTypes == Spec => []TypeOK
<1>1. MInv => TypeOK
  BY DEF MInv
<1> QED BY <1>1, MInvHolds, PTL

\* The record and the logo agree after every update and every upload.
THEOREM LogoStaysInSync == Spec => []LogoInSync
<1>1. MInv => LogoInSync
  <2> SUFFICES ASSUME MInv PROVE LogoInSync
    OBVIOUS
  <2>1. CASE marketing_info = None
    BY <2>1 DEF MInv, InSync, LogoInSync, QueryMarketingInfo, EmptyInfo
  <2>2. CASE marketing_info # None
    BY <2>2 DEF MInv, InSync, LogoInSync, QueryMarketingInfo
  <2> QED BY <2>1, <2>2
<1> QED BY <1>1, MInvHolds, PTL

\* Without an editor no message changes anything.
THEOREM RoleGoneForGood == Spec => GoneForGood
<1> DEFINE Gone == marketing_info = None \/ marketing_info.marketing = None
<1>1. ASSUME NEW sender \in Addr, Authorized(sender)
      PROVE  ~Gone
  BY <1>1, MarketingAssumption DEF Authorized, AnyAddr
<1>2. [Next]_marketing_vars => [Gone => UNCHANGED marketing_vars]_marketing_vars
  BY <1>1 DEF Next, UpdateMarketing, UpdateMarketingOk, UploadLogo, UploadLogoOk
<1> QED BY <1>2, PTL DEF Spec, GoneForGood
=============================================================================
