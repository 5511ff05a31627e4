------------------------------ MODULE TaxShares ------------------------------
(***************************************************************************)
(* The arithmetic of deduct_tax (TaxRules), for one payment whose amount   *)
(* grows unit by unit: how the tax compares with the exact share, with the *)
(* taxes of the parts of the payment, and with the tax of one unit more.   *)
(***************************************************************************)
EXTENDS TaxRules

CONSTANT TaxInfos   \* the tax infos considered, validated or not

VARIABLES info, src, dst, amount    \* the arguments of deduct_tax

tax_vars == <<info, src, dst, amount>>

ASSUME SharesAssumption == \A t \in TaxInfos : t \in TaxInfo

TaxInit == info \in TaxInfos /\ src \in Addr /\ dst \in Addr /\ amount = 0

Grow ==
    /\ amount < MaxUint
    /\ amount' = amount + 1
    /\ UNCHANGED <<info, src, dst>>

TaxSpec == TaxInit /\ [][Grow]_tax_vars

-----------------------------------------------------------------------------
\* Properties.

Deducted(n) == DeductTax(info, src, dst, n)
Accepted(n) == DeductTaxOk(info, src, dst, n)

\* The tax is the rate's share of the amount, rounded down to a whole unit, or
\* nothing; net and tax make up the amount (deduct_tax, tax_deduction).
FloorOfShare ==
    LET from == info.src_cond
        to == info.dst_cond
        rate == IF /\ from.kind # "Never" /\ to.kind # "Never"
                   /\ from.kind = "ContractCode" => CodeIdOf[src] \in from.code_ids
                   /\ to.kind = "ContractCode" => CodeIdOf[dst] \in to.code_ids
                   /\ dst # info.proceeds
                THEN from.tax_rate ELSE 0
    IN  Accepted(amount) =>
            Deducted(amount) = Split(amount - (rate * amount) \div One, (rate * amount) \div One)

\* Cutting a payment in two saves at most one unit of tax, and never costs more.
SplittingSavesAtMostOne ==
    Accepted(amount) => \A k \in 0 .. amount :
        LET cut == Deducted(k).tax + Deducted(amount - k).tax
        IN  Accepted(k) /\ cut \in {Deducted(amount).tax, Deducted(amount).tax - 1}

\* One unit more is one unit more for the recipient or for the proceeds wallet;
\* neither of them ever gets less for a larger amount.
MoreIsMore ==
    [][Accepted(amount') =>
          /\ Accepted(amount)
          /\ Deducted(amount').tax - Deducted(amount).tax \in {0, 1}
          /\ Deducted(amount').net - Deducted(amount).net \in {0, 1}]_tax_vars
=============================================================================
