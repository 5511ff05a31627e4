------------------------------- MODULE MCParts -------------------------------
(***************************************************************************)
(* The parts of the token that share no item with its payments, checked on *)
(* their own for TLC, side by side: the arithmetic of a tax (TaxShares),   *)
(* the initial accounts (InitialAccounts), the marketing data (Marketing). *)
(* A behaviour is one of a single part.                                    *)
(***************************************************************************)
EXTENDS TaxShares, InitialAccounts, Marketing

CONSTANTS
    alice, pool, treasury, text, other,
    CoinAmounts,    \* the amounts of the coins considered
    MaxCoins        \* bound: coins of a message

MCAddr == {alice, pool, treasury}
MCCodeIdOf == [a \in MCAddr |-> IF a = pool THEN 7 ELSE None]

VARIABLE part       \* the part that runs

parts_vars == <<part, tax_vars, accounts_vars, marketing_vars>>

-----------------------------------------------------------------------------
\* The tax: every rate from 0 to beyond One, several kinds of conditions and of
\* accounts; the amount goes up to MaxUint.

Conditions(rate) ==
    {[kind |-> "Never"], [kind |-> "Always", tax_rate |-> rate],
     [kind |-> "ContractCode", code_ids |-> {7}, tax_rate |-> rate]}

MCTaxInfos ==
    UNION {[src_cond : Conditions(rate), dst_cond : Conditions(0), proceeds : {treasury}] :
              rate \in 0 .. One + 1}

NoPayment == info = DefaultTaxInfo /\ src = alice /\ dst = alice /\ amount = 0

-----------------------------------------------------------------------------
\* The initial accounts: every list of up to MaxCoins coins, addresses that are
\* not valid and addresses that repeat included.

MCCoinLists ==
    UNION {[1 .. n -> [address : AnyAddr, amount : CoinAmounts]] : n \in 0 .. MaxCoins}

NoAccounts == coins = <<>> /\ row = 0 /\ saved = [a \in Addr |-> 0] /\ total_supply = 0

-----------------------------------------------------------------------------
\* The marketing data: good and bad logos, tokens with and without a record.

Svg(header, size) == [kind |-> "svg", header |-> header, size |-> size]
Png(header, size) == [kind |-> "png", header |-> header, size |-> size]
Url(u) == [kind |-> "url", url |-> u]

MCLogos ==
    {Url(text), Url(other)} \cup {Svg(h, n) : h \in BOOLEAN, n \in {1, LOGO_SIZE_CAP + 1}}
    \cup {Png(TRUE, LOGO_SIZE_CAP), Png(FALSE, 1)}

Record(project, description, marketing, l) ==
    [project |-> project, description |-> description, marketing |-> marketing, logo |-> l]

MCRecords ==
    {None, Record(None, None, None, None), Record(Blank, None, alice, None),
     Record(text, other, alice, Url(text)), Record(text, None, pool, Png(TRUE, 1)),
     Record(text, None, NoAddr, None), Record(None, None, alice, Svg(FALSE, 1)),
     Record(None, None, alice, Png(TRUE, LOGO_SIZE_CAP + 1))}

NoRecord == marketing_info = None /\ logo = None

-----------------------------------------------------------------------------
PartsInit ==
    \/ part = "tax" /\ TaxInit /\ NoAccounts /\ NoRecord
    \/ part = "accounts" /\ NoPayment /\ AccountsInit /\ NoRecord
    \/ part = "marketing" /\ NoPayment /\ NoAccounts /\ Init

PartsNext ==
    \/ part = "tax" /\ Grow /\ UNCHANGED <<part, accounts_vars, marketing_vars>>
    \/ part = "accounts" /\ SaveRow /\ UNCHANGED <<part, tax_vars, marketing_vars>>
    \/ part = "marketing" /\ Next /\ UNCHANGED <<part, tax_vars, accounts_vars>>

PartsSpec == PartsInit /\ [][PartsNext]_parts_vars
=============================================================================
