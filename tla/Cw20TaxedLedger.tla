-------------------------- MODULE Cw20TaxedLedger --------------------------
(***************************************************************************)
(* Cw20Taxed implements TaxedLedger.  A tax on its way counts as the       *)
(* wallet's from the moment it is taken: an account is worth its balance   *)
(* and what the pending forwards will bring it, and the contract is worth  *)
(* its balance without what they will take.  So a forward changes nothing, *)
(* or, where it is taxed itself, takes from the wallet it was bound for.   *)
(***************************************************************************)
EXTENDS Cw20Taxed

\* What the pending messages of the token to itself will bring to an account.
OwedTo(msgs, a) ==
    TotalBalance([i \in DOMAIN msgs |->
        IF msgs[i].op = "transfer" /\ msgs[i].sender = Self /\ msgs[i].recipient = a
        THEN msgs[i].amount ELSE 0])

\* What an account has and will get, and the contract has and will not forward.
WorthIn(b, msgs) ==
    [a \in AnyAddr |->
        (IF a = NoAddr THEN 0 ELSE b[a]) + OwedTo(msgs, a)
        - (IF a = Self THEN Owed(msgs) ELSE 0)]

Ledger ==
    INSTANCE TaxedLedger WITH
        worth <- WorthIn(balances, pending),
        supply <- token_info.total_supply,
        saved <- [worth |-> WorthIn(committed.balances, <<>>),
                  supply |-> committed.token_info.total_supply]

\* Every behaviour of the token, with its escrow, its forwards that may be taxed
\* again, its re-entrant contracts and its rollbacks, is one of the simple ledger.
ImplementsLedger == Ledger!Spec
=============================================================================
