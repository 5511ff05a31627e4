---------------------------- MODULE AmountsProofs ----------------------------
(***************************************************************************)
(* Lemmas on amounts: what the operators of Balances do to the sum of all  *)
(* balances, and the tax arithmetic of TaxRules for every amount and rate. *)
(***************************************************************************)
EXTENDS Balances, TaxRules, FiniteSetTheorems, TLAPS

-----------------------------------------------------------------------------
\* Balances.

\* The units of finitely many accounts with bounded balances are finitely many.
LEMMA UnitsFinite ==
    ASSUME NEW S, IsFiniteSet(S), NEW M \in Nat, NEW b \in [S -> 0 .. M]
    PROVE  IsFiniteSet(Units(b))
<1>1. IsFiniteSet(1 .. M)
  BY FS_Interval
<1>2. IsFiniteSet(S \X (1 .. M))
  BY <1>1, FS_Product
<1>3. Units(b) \subseteq S \X (1 .. M)
  <2>1. \A a \in S : b[a] \in 0 .. M
    OBVIOUS
  <2>2. \A a \in S : {a} \X (1 .. b[a]) \subseteq S \X (1 .. M)
    BY <2>1
  <2>. QED
    BY <2>2 DEF Units
<1>. QED
  BY <1>2, <1>3, FS_Subset

\* An account with v units has v of them.
LEMMA UnitsOfOne ==
    ASSUME NEW a, NEW v \in Nat
    PROVE  IsFiniteSet({a} \X (1 .. v)) /\ Cardinality({a} \X (1 .. v)) = v
<1>1. IsFiniteSet(1 .. v) /\ Cardinality(1 .. v) = v
  BY FS_Interval
<1>2. IsFiniteSet({a}) /\ Cardinality({a}) = 1
  BY FS_Singleton
<1>. QED
  BY <1>1, <1>2, FS_Product

\* One new balance.
SetBalance(b, a, v) == [b EXCEPT ![a] = v]

\* The sum of all balances changes by what one balance changes: the units of
\* the other accounts stay, and are apart from those of the one.
THEOREM TotalOfUpdate ==
    ASSUME NEW S, IsFiniteSet(S), NEW M \in Nat, NEW b \in [S -> 0 .. M],
           NEW a \in S, NEW v \in Nat
    PROVE  /\ TotalBalance(b) \in Nat
           /\ TotalBalance(SetBalance(b, a, v)) = TotalBalance(b) - b[a] + v
           /\ b[a] <= TotalBalance(b)
<1>. DEFINE others == Units([b EXCEPT ![a] = 0])
<1>1. [b EXCEPT ![a] = 0] \in [S -> 0 .. M] /\ [b EXCEPT ![a] = 0][a] = 0
  OBVIOUS
<1>2. IsFiniteSet(others) /\ Cardinality(others) \in Nat
  BY <1>1, UnitsFinite, FS_CardinalityType
<1>3. ASSUME NEW w \in Nat
      PROVE  TotalBalance([b EXCEPT ![a] = w]) = Cardinality(others) + w
  <2>. DEFINE own == {a} \X (1 .. w)
  <2>1. /\ [b EXCEPT ![a] = w][a] = w
        /\ \A x \in S \ {a} : [b EXCEPT ![a] = w][x] = [b EXCEPT ![a] = 0][x]
    OBVIOUS
  <2>2. Units([b EXCEPT ![a] = w]) = others \cup own
    BY <1>1, <2>1 DEF Units
  <2>3. others \cap own = {}
    BY <1>1 DEF Units
  <2>4. IsFiniteSet(own) /\ Cardinality(own) = w
    BY UnitsOfOne
  <2>5. Cardinality(others \cap own) = 0
    BY <2>3, FS_EmptySet
  <2>6. Cardinality(others \cup own)
          = Cardinality(others) + Cardinality(own) - Cardinality(others \cap own)
    <3>. HIDE DEF others, own
    <3>. QED
      BY <1>2, <2>4, FS_Union
  <2>7. Cardinality(others \cup own) = Cardinality(others) + w
    <3>. HIDE DEF others, own
    <3>. QED
      BY <1>2, <2>4, <2>5, <2>6
  <2>. QED
    BY <2>2, <2>7 DEF TotalBalance
<1>4. b = [b EXCEPT ![a] = b[a]] /\ b[a] \in Nat
  OBVIOUS
<1>5. TotalBalance(b) = Cardinality(others) + b[a]
  <2>1. TotalBalance([b EXCEPT ![a] = b[a]]) = Cardinality(others) + b[a]
    BY <1>3, <1>4
  <2>. QED
    BY <2>1, <1>4
<1>6. TotalBalance([b EXCEPT ![a] = v]) = Cardinality(others) + v
  BY <1>3
<1>. HIDE DEF others
<1>. QED
  BY <1>2, <1>4, <1>5, <1>6 DEF SetBalance

\* Crediting n adds n to the sum.
THEOREM CreditTotal ==
    ASSUME NEW S, IsFiniteSet(S), NEW M \in Nat, NEW b \in [S -> 0 .. M],
           NEW a \in S, NEW n \in Nat
    PROVE  /\ Credit(b, a, n) \in [S -> 0 .. (M + n)]
           /\ TotalBalance(Credit(b, a, n)) = TotalBalance(b) + n
<1>1. Credit(b, a, n) = SetBalance(b, a, b[a] + n)
  BY DEF Credit, SetBalance
<1>2. b[a] \in Nat /\ b[a] + n \in Nat
  OBVIOUS
<1>3. /\ TotalBalance(b) \in Nat
      /\ TotalBalance(SetBalance(b, a, b[a] + n)) = TotalBalance(b) - b[a] + (b[a] + n)
  BY <1>2, TotalOfUpdate
<1>4. SetBalance(b, a, b[a] + n) \in [S -> 0 .. (M + n)]
  BY DEF SetBalance
<1>. QED
  BY <1>1, <1>2, <1>3, <1>4

\* Debiting n that is there takes n from the sum.
THEOREM DebitTotal ==
    ASSUME NEW S, IsFiniteSet(S), NEW M \in Nat, NEW b \in [S -> 0 .. M],
           NEW a \in S, NEW n \in Nat, n <= b[a]
    PROVE  /\ Debit(b, a, n) \in [S -> 0 .. M]
           /\ TotalBalance(Debit(b, a, n)) = TotalBalance(b) - n
<1>1. Debit(b, a, n) = SetBalance(b, a, b[a] - n)
  BY DEF Debit, SetBalance
<1>2. b[a] \in 0 .. M /\ b[a] - n \in 0 .. M
  OBVIOUS
<1>3. /\ TotalBalance(b) \in Nat
      /\ TotalBalance(SetBalance(b, a, b[a] - n)) = TotalBalance(b) - b[a] + (b[a] - n)
  BY <1>2, TotalOfUpdate
<1>4. SetBalance(b, a, b[a] - n) \in [S -> 0 .. M]
  BY <1>2 DEF SetBalance
<1>. QED
  BY <1>1, <1>2, <1>3, <1>4

\* No balance exceeds a bound of the sum.
THEOREM BoundedByTotal ==
    ASSUME NEW S, IsFiniteSet(S), NEW M \in Nat, NEW b \in [S -> 0 .. M],
           NEW N \in Nat, TotalBalance(b) <= N
    PROVE  b \in [S -> 0 .. N]
<1>1. ASSUME NEW a \in S
      PROVE  b[a] \in 0 .. N
  <2>1. b[a] \in Nat
    OBVIOUS
  <2>2. TotalBalance(b) \in Nat /\ b[a] <= TotalBalance(b)
    BY <2>1, TotalOfUpdate
  <2>. QED
    BY <2>1, <2>2
<1>. QED
  BY <1>1

\* The balances of finitely many accounts have a sum, which bounds each of them.
LEMMA TotalIsBound ==
    ASSUME NEW S, IsFiniteSet(S), NEW b \in [S -> Nat]
    PROVE  TotalBalance(b) \in Nat /\ b \in [S -> 0 .. TotalBalance(b)]
<1>. DEFINE of == [a \in S |-> {a} \X (1 .. b[a])]
            T == {{a} \X (1 .. b[a]) : a \in S}
<1>1. \A a \in S : IsFiniteSet(of[a]) /\ Cardinality(of[a]) = b[a]
  <2>. SUFFICES ASSUME NEW a \in S
                PROVE  IsFiniteSet(of[a]) /\ Cardinality(of[a]) = b[a]
    OBVIOUS
  <2>1. b[a] \in Nat
    OBVIOUS
  <2>. QED
    BY <2>1, UnitsOfOne
<1>2. IsFiniteSet(T)
  <2>1. of \in Surjection(S, T)
    BY DEF Surjection
  <2>. QED
    BY <2>1, FS_Surjection
<1>3. \A t \in T : IsFiniteSet(t)
  BY <1>1
<1>4. Units(b) = UNION T
  BY DEF Units
<1>5. IsFiniteSet(Units(b))
  BY <1>2, <1>3, <1>4, FS_UNION
<1>6. TotalBalance(b) \in Nat
  BY <1>5, FS_CardinalityType DEF TotalBalance
<1>7. ASSUME NEW a \in S
      PROVE  b[a] \in 0 .. TotalBalance(b)
  <2>1. of[a] \subseteq Units(b)
    BY <1>4
  <2>2. Cardinality(of[a]) <= Cardinality(Units(b))
    BY <1>5, <2>1, FS_Subset
  <2>3. b[a] \in Nat /\ b[a] <= TotalBalance(b)
    BY <1>1, <2>2 DEF TotalBalance
  <2>. QED
    BY <1>6, <2>3
<1>. QED
  BY <1>6, <1>7

\* Crediting and debiting, where no bound of the balances is known beforehand.
LEMMA CreditAdds ==
    ASSUME NEW S, IsFiniteSet(S), NEW b \in [S -> Nat], NEW a \in S, NEW n \in Nat
    PROVE  /\ Credit(b, a, n) \in [S -> Nat]
           /\ TotalBalance(Credit(b, a, n)) = TotalBalance(b) + n
<1>1. TotalBalance(b) \in Nat /\ b \in [S -> 0 .. TotalBalance(b)]
  BY TotalIsBound
<1>2. TotalBalance(Credit(b, a, n)) = TotalBalance(b) + n
  BY <1>1, CreditTotal
<1>. QED
  BY <1>2 DEF Credit

LEMMA DebitTakes ==
    ASSUME NEW S, IsFiniteSet(S), NEW b \in [S -> Nat], NEW a \in S, NEW n \in Nat, n <= b[a]
    PROVE  /\ Debit(b, a, n) \in [S -> Nat]
           /\ TotalBalance(Debit(b, a, n)) = TotalBalance(b) - n
<1>1. TotalBalance(b) \in Nat /\ b \in [S -> 0 .. TotalBalance(b)]
  BY TotalIsBound
<1>2. TotalBalance(Debit(b, a, n)) = TotalBalance(b) - n
  BY <1>1, DebitTotal
<1>. QED
  BY <1>2 DEF Debit

\* CreditAdds for every account and amount: two credits one after the other cite it
\* for two balances.
CreditsAdd(S, b) ==
    \A a \in S, n \in Nat : /\ Credit(b, a, n) \in [S -> Nat]
                            /\ TotalBalance(Credit(b, a, n)) = TotalBalance(b) + n

LEMMA CreditsAddIsTrue ==
    ASSUME NEW S, IsFiniteSet(S), NEW b \in [S -> Nat]
    PROVE  CreditsAdd(S, b)
<1>. SUFFICES ASSUME NEW a \in S, NEW n \in Nat
              PROVE  /\ Credit(b, a, n) \in [S -> Nat]
                     /\ TotalBalance(Credit(b, a, n)) = TotalBalance(b) + n
  BY DEF CreditsAdd
<1>. QED
  BY ONLY IsFiniteSet(S), CreditAdds

\* A payment in two parts moves what it takes.
SplitMoved(b, payer, payee, wallet, net, tax) ==
    Credit(Credit(Debit(b, payer, net + tax), payee, net), wallet, tax)

LEMMA SplitMoves ==
    ASSUME NEW S, IsFiniteSet(S), NEW b \in [S -> Nat], NEW payer \in S, NEW payee \in S,
           NEW wallet \in S, NEW net \in Nat, NEW tax \in Nat, net + tax <= b[payer]
    PROVE  SplitMoved(b, payer, payee, wallet, net, tax) \in [S -> Nat]
           /\ TotalBalance(SplitMoved(b, payer, payee, wallet, net, tax)) = TotalBalance(b)
<1>. DEFINE d == Debit(b, payer, net + tax)
            e == Credit(d, payee, net)
            f == Credit(e, wallet, tax)
<1>1. TotalBalance(b) \in Nat /\ net + tax \in Nat
  BY TotalIsBound
<1>2. d \in [S -> Nat] /\ TotalBalance(d) = TotalBalance(b) - (net + tax)
  BY <1>1, DebitTakes
<1>. HIDE DEF d
<1>3. CreditsAdd(S, d)
  BY ONLY IsFiniteSet(S), <1>2, CreditsAddIsTrue
<1>4. e \in [S -> Nat] /\ TotalBalance(e) = TotalBalance(d) + net
  BY ONLY payee \in S, net \in Nat, <1>3 DEF CreditsAdd, e
<1>. HIDE DEF e
<1>5. CreditsAdd(S, e)
  BY ONLY IsFiniteSet(S), <1>4, CreditsAddIsTrue
<1>6. f \in [S -> Nat] /\ TotalBalance(f) = TotalBalance(e) + tax
  BY ONLY wallet \in S, tax \in Nat, <1>5 DEF CreditsAdd, f
<1>. HIDE DEF f
<1>7. TotalBalance(f) = TotalBalance(b)
  BY <1>1, <1>2, <1>4, <1>6
<1>. QED
  BY <1>6, <1>7 DEF SplitMoved, d, e, f

-----------------------------------------------------------------------------
\* Amounts in a list.

\* The values of two lists, one after the other: the units of the second are
\* counted again, each `n` places further on.
THEOREM TotalOfJoin ==
    ASSUME NEW n \in Nat, NEW k \in Nat, NEW M \in Nat,
           NEW f \in [1 .. n -> 0 .. M], NEW g \in [1 .. k -> 0 .. M],
           NEW h \in [1 .. (n + k) -> 0 .. M],
           \A i \in 1 .. n : h[i] = f[i], \A i \in 1 .. k : h[n + i] = g[i]
    PROVE  TotalBalance(h) = TotalBalance(f) + TotalBalance(g)
<1>. DEFINE moved == UNION {{n + i} \X (1 .. g[i]) : i \in 1 .. k}
            shift == [u \in Units(g) |-> <<n + u[1], u[2]>>]
<1>1. IsFiniteSet(Units(f)) /\ IsFiniteSet(Units(g))
  <2>1. IsFiniteSet(1 .. n) /\ IsFiniteSet(1 .. k)
    BY FS_Interval
  <2>. QED
    BY <2>1, UnitsFinite
<1>2. Units(h) = Units(f) \cup moved
  <2>1. Units(h) = UNION {{i} \X (1 .. h[i]) : i \in 1 .. (n + k)}
    BY DEF Units
  <2>2. Units(f) = UNION {{i} \X (1 .. h[i]) : i \in 1 .. n}
    BY DEF Units
  <2>3. moved = UNION {{i} \X (1 .. h[i]) : i \in (n + 1) .. (n + k)}
    <3>1. \A i \in 1 .. k : n + i \in (n + 1) .. (n + k) /\ h[n + i] = g[i]
      OBVIOUS
    <3>2. \A j \in (n + 1) .. (n + k) : j - n \in 1 .. k /\ n + (j - n) = j /\ h[j] = g[j - n]
      OBVIOUS
    <3>3. \A u \in moved : u \in UNION {{j} \X (1 .. h[j]) : j \in (n + 1) .. (n + k)}
      <4>. SUFFICES ASSUME NEW i \in 1 .. k, NEW u \in {n + i} \X (1 .. g[i])
                    PROVE  u \in UNION {{j} \X (1 .. h[j]) : j \in (n + 1) .. (n + k)}
        OBVIOUS
      <4>1. u \in {n + i} \X (1 .. h[n + i])
        OBVIOUS
      <4>. QED
        BY <3>1, <4>1
    <3>4. \A j \in (n + 1) .. (n + k) : {j} \X (1 .. h[j]) \subseteq moved
      <4>. SUFFICES ASSUME NEW j \in (n + 1) .. (n + k)
                    PROVE  {j} \X (1 .. h[j]) \subseteq moved
        OBVIOUS
      <4>. DEFINE i == j - n
      <4>1. i \in 1 .. k /\ n + i = j /\ h[j] = g[i]
        BY <3>2
      <4>. HIDE DEF i
      <4>. QED
        BY <4>1, ZenonT(30)
    <3>. QED
      BY <3>3, <3>4
  <2>4. 1 .. (n + k) = (1 .. n) \cup ((n + 1) .. (n + k))
    OBVIOUS
  <2>. QED
    BY <2>1, <2>2, <2>3, <2>4, ZenonT(30)
<1>3. Units(f) \cap moved = {}
  <2>1. \A u \in Units(f) : u[1] \in 1 .. n
    BY DEF Units
  <2>2. \A u \in moved : u[1] > n
    OBVIOUS
  <2>. QED
    BY <2>1, <2>2
<1>4. IsFiniteSet(moved) /\ Cardinality(moved) = Cardinality(Units(g))
  <2>1. \A u \in Units(g) : u = <<u[1], u[2]>> /\ u[1] \in 1 .. k /\ u[2] \in 1 .. g[u[1]]
    BY DEF Units
  <2>2. \A u \in Units(g) : shift[u] \in moved
    BY <2>1
  <2>3. \A u, v \in Units(g) : shift[u] = shift[v] => u = v
    <3>. SUFFICES ASSUME NEW u \in Units(g), NEW v \in Units(g), shift[u] = shift[v]
                  PROVE  u = v
      OBVIOUS
    <3>1. n + u[1] = n + v[1] /\ u[2] = v[2]
      OBVIOUS
    <3>2. u[1] = v[1]
      BY <2>1, <3>1
    <3>. QED
      BY <2>1, <3>1, <3>2
  <2>4. \A w \in moved : \E u \in Units(g) : shift[u] = w
    <3>. SUFFICES ASSUME NEW i \in 1 .. k, NEW w \in {n + i} \X (1 .. g[i])
                  PROVE  \E u \in Units(g) : shift[u] = w
      OBVIOUS
    <3>1. PICK j \in 1 .. g[i] : w = <<n + i, j>>
      OBVIOUS
    <3>2. <<i, j>> \in {i} \X (1 .. g[i]) /\ i \in DOMAIN g
      OBVIOUS
    <3>3. <<i, j>> \in Units(g)
      BY <3>2 DEF Units
    <3>4. shift[<<i, j>>] = <<n + i, j>>
      BY <3>3
    <3>. QED
      BY <3>1, <3>3, <3>4
  <2>5. shift \in Bijection(Units(g), moved)
    <3>. HIDE DEF moved
    <3>1. shift \in [Units(g) -> moved]
      BY <2>2
    <3>. HIDE DEF shift
    <3>. QED
      BY <2>3, <2>4, <3>1 DEF Bijection, Injection, Surjection, IsInjective
  <2>. QED
    BY <1>1, <2>5, FS_Bijection DEF ExistsBijection
<1>. HIDE DEF moved, shift
<1>5. Cardinality(Units(f) \cap moved) = 0
  BY <1>3, FS_EmptySet
<1>6. Cardinality(Units(f) \cup moved)
        = Cardinality(Units(f)) + Cardinality(moved) - Cardinality(Units(f) \cap moved)
  BY <1>1, <1>4, FS_Union
<1>7. Cardinality(Units(f)) \in Nat /\ Cardinality(moved) \in Nat
  BY <1>1, <1>4, FS_CardinalityType
<1>. QED
  BY <1>2, <1>4, <1>5, <1>6, <1>7 DEF TotalBalance

\* A list of one amount, and lists of none.
LEMMA TotalOfOne ==
    ASSUME NEW v \in Nat, NEW f, DOMAIN f = {1}, f[1] = v
    PROVE  TotalBalance(f) = v
<1>1. Units(f) = {1} \X (1 .. v)
  BY DEF Units
<1>. QED
  BY <1>1, UnitsOfOne DEF TotalBalance

LEMMA TotalOfZeros ==
    ASSUME NEW f, \A i \in DOMAIN f : f[i] = 0
    PROVE  TotalBalance(f) = 0
<1>1. \A i \in DOMAIN f : {i} \X (1 .. f[i]) = {}
  OBVIOUS
<1>2. Units(f) = {}
  BY <1>1 DEF Units
<1>. QED
  BY <1>2, FS_EmptySet DEF TotalBalance

-----------------------------------------------------------------------------
\* The tax.

\* What \div means for natural numbers.
LEMMA DivMul ==
    ASSUME NEW n \in Nat, NEW d \in Nat \ {0}
    PROVE  n \div d \in Nat /\ d * (n \div d) <= n /\ n < d * (n \div d) + d
BY Z3

\* A product with a positive factor tells the order of the other factors.
LEMMA LessByFactor ==
    ASSUME NEW d \in Nat \ {0}, NEW p \in Int, NEW q \in Int, d * p < d * q
    PROVE  p < q
BY Z3

\* Rounding up the rest of an amount, after a tax that is not above the amount,
\* leaves at most the amount and takes away at most the tax (tax_deduction).
LEMMA NetInRange ==
    ASSUME NEW amount \in Nat, NEW taken \in Nat, taken <= amount * One
    PROVE  LET net == CeilUint(amount * One - taken)
           IN  net \in 0 .. amount /\ One * (amount - net) <= taken
<1>. USE RatesAssumption
<1>. DEFINE n == amount * One - taken + One - 1
            q == n \div One
<1>1. amount * One \in Nat /\ amount * One = One * amount
  BY Z3
<1>2. n \in Nat
  BY <1>1
<1>3. q \in Nat /\ One * q <= n /\ n < One * q + One
  BY <1>2, DivMul
<1>4. CeilUint(amount * One - taken) = q
  BY DEF CeilUint
<1>. HIDE DEF q
<1>5. One * (amount + 1) = amount * One + One /\ One * q \in Int
  BY <1>1, <1>3, Z3
<1>6. One * q < One * (amount + 1)
  BY <1>1, <1>3, <1>5
<1>7. q < amount + 1
  BY <1>3, <1>6, LessByFactor
<1>8. One * (amount - q) = amount * One - One * q
  BY <1>1, <1>3, Z3
<1>9. One * (amount - q) <= taken
  BY <1>1, <1>3, <1>5, <1>8
<1>. QED
  BY <1>3, <1>4, <1>7, <1>9

-----------------------------------------------------------------------------
\* A tax info with natural rates has natural rates.
LEMMA RateType ==
    ASSUME NEW c \in TaxCondition, NEW a
    PROVE  TaxRate(c, a) \in Nat
BY DEF TaxCondition, NeverCondition, AlwaysCondition, ContractCodeCondition, TaxRate, IsTaxed

\* deduct_tax never creates or loses a unit: where it does not fail, net and tax
\* are natural numbers that make up the amount.
THEOREM DeductTaxSplits ==
    ASSUME NEW t \in TaxInfo, NEW src, NEW dst, NEW amount \in Nat,
           DeductTaxOk(t, src, dst, amount)
    PROVE  LET s == DeductTax(t, src, dst, amount)
           IN  s.net \in Nat /\ s.tax \in Nat /\ s.net + s.tax = amount
<1>1. CASE MovementTaxed(t, src, dst)
  <2>. DEFINE taken == TaxRate(t.src_cond, src) * amount
              net == CeilUint(amount * One - taken)
  <2>1. t.src_cond \in TaxCondition
    BY DEF TaxInfo
  <2>2. TaxRate(t.src_cond, src) \in Nat
    BY <2>1, RateType
  <2>3. taken \in Nat
    BY <2>2, Z3
  <2>4. taken <= amount * One
    BY <1>1 DEF DeductTaxOk, Deductible
  <2>5. net \in 0 .. amount
    <3>. HIDE DEF taken
    <3>. QED
      BY <2>3, <2>4, NetInRange
  <2>6. DeductTax(t, src, dst, amount) = [net |-> net, tax |-> amount - net]
    BY <1>1 DEF DeductTax, TaxDeduction, Split
  <2>. QED
    <3>. HIDE DEF net
    <3>. QED
      BY <2>5, <2>6
<1>2. CASE ~MovementTaxed(t, src, dst)
  BY <1>2 DEF DeductTax, Split
<1>. QED
  BY <1>1, <1>2
=============================================================================
