------------------------------ MODULE TaxRules ------------------------------
(***************************************************************************)
(* The tax rules of tax.rs: which movement of tokens is taxed, at which    *)
(* rate, and how the gross amount is split into the net amount the         *)
(* recipient gets and the tax.  No state: the token contract (Cw20Taxed)   *)
(* keeps a tax map in its store and asks these operators.                  *)
(*                                                                         *)
(* Amounts are Uint128 base units.  A rate is a Decimal, kept as its       *)
(* number of atomics: the rate r stands for r / One.                       *)
(*                                                                         *)
(* A definition under the comment "Wrong:" is a bug the code does not have,*)
(* a variant of the definition it stands before.                           *)
(***************************************************************************)
EXTENDS Integers, Addresses

CONSTANTS
    CodeIdOf,   \* CodeIdOf[a]: the code id of the contract at a, None for a wallet
    One,        \* the atomics of Decimal::one(), 10^18 in the code
    MaxUint     \* Uint128::MAX, 2^128 - 1 in the code

ASSUME RatesAssumption ==
    /\ One \in Nat \ {0}
    /\ MaxUint \in Nat
    /\ NoAddr \notin Addr
    /\ None \notin Nat
    /\ CodeIdOf \in [Addr -> Nat \cup {None}]

-----------------------------------------------------------------------------
\* Tax conditions, the tax info of one endpoint, the tax map of the token.

NeverCondition == [kind : {"Never"}]
AlwaysCondition == [kind : {"Always"}, tax_rate : Nat]
ContractCodeCondition ==
    [kind : {"ContractCode"}, code_ids : SUBSET Nat, tax_rate : Nat]
TaxCondition == NeverCondition \cup AlwaysCondition \cup ContractCodeCondition

TaxInfo == [src_cond : TaxCondition, dst_cond : TaxCondition, proceeds : AnyAddr]

TaxMap == [on_transfer : TaxInfo, on_transfer_from : TaxInfo,
           on_send : TaxInfo, on_send_from : TaxInfo, admin : AnyAddr]

\* impl Default for TaxInfo and TaxMap: nothing is taxed, nobody is admin.
DefaultTaxInfo == [src_cond |-> [kind |-> "Never"], dst_cond |-> [kind |-> "Never"],
                   proceeds |-> NoAddr]
DefaultTaxMap == [on_transfer |-> DefaultTaxInfo, on_transfer_from |-> DefaultTaxInfo,
                  on_send |-> DefaultTaxInfo, on_send_from |-> DefaultTaxInfo,
                  admin |-> NoAddr]

\* validate: a rate lies between 0 and 1.
ValidCondition(c) == c.kind # "Never" => c.tax_rate <= One
ValidTaxInfo(t) == ValidCondition(t.src_cond) /\ ValidCondition(t.dst_cond)
ValidTaxMap(m) == /\ ValidTaxInfo(m.on_transfer)
                  /\ ValidTaxInfo(m.on_transfer_from)
                  /\ ValidTaxInfo(m.on_send)
                  /\ ValidTaxInfo(m.on_send_from)

-----------------------------------------------------------------------------
\* is_taxed: an address falls under a condition.  The contract info query
\* fails for a wallet, which then is not taxed.
IsTaxed(c, a) ==
    \/ c.kind = "Always"
    \/ c.kind = "ContractCode" /\ CodeIdOf[a] \in c.code_ids

\* tax_rate
TaxRate(c, a) == IF IsTaxed(c, a) THEN c.tax_rate ELSE 0

\* Wrong: a tax above the amount is not refused.
DeductibleAnyRate(c, a, amount) == amount * One <= MaxUint

\* tax_deduction: the amount fits a Decimal, and the tax is at most the amount
\* (the unwrap of the product panics beyond MaxUint, which is further away).
Deductible(c, a, amount) ==
    /\ amount * One <= MaxUint
    /\ TaxRate(c, a) * amount <= amount * One

\* Wrong: Decimal::to_uint_floor.
FloorUint(n) == n \div One

\* Decimal::to_uint_ceil on n atomics.
CeilUint(n) == (n + One - 1) \div One

\* The two halves of a payment.
Split(net, tax) == [net |-> net, tax |-> tax]

\* Wrong: the net amount and the tax are both rounded up.
TaxDeductionBothUp(c, a, amount) ==
    Split(CeilUint(amount * One - TaxRate(c, a) * amount), CeilUint(TaxRate(c, a) * amount))

\* tax_deduction: the net amount is rounded up, so the tax is rounded down.
TaxDeduction(c, a, amount) ==
    LET net == CeilUint(amount * One - TaxRate(c, a) * amount)
    IN  Split(net, amount - net)

-----------------------------------------------------------------------------
\* Wrong: payments to the proceeds wallet are taxed too.
MovementTaxedToProceeds(t, src, dst) == IsTaxed(t.src_cond, src) /\ IsTaxed(t.dst_cond, dst)

\* deduct_tax: source and destination both fall under the conditions, and the
\* destination is not the proceeds wallet.  The rate is the one of the source.
MovementTaxed(t, src, dst) ==
    /\ IsTaxed(t.src_cond, src)
    /\ IsTaxed(t.dst_cond, dst)
    /\ t.proceeds # dst

DeductTaxOk(t, src, dst, amount) ==
    MovementTaxed(t, src, dst) => Deductible(t.src_cond, src, amount)

DeductTax(t, src, dst, amount) ==
    IF MovementTaxed(t, src, dst)
    THEN TaxDeduction(t.src_cond, src, amount)
    ELSE Split(amount, 0)
=============================================================================
