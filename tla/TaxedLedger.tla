---------------------------- MODULE TaxedLedger ----------------------------
(***************************************************************************)
(* What the taxed token promises its holders, without the way it works: a  *)
(* payment takes the gross amount from one account and gives, in the same  *)
(* step, the net amount to the recipient and the tax to the proceeds       *)
(* wallet.  The token contract is an account like any other; it is never   *)
(* seen with tokens that are another's.  A transaction that is not over may*)
(* still be undone as a whole, back to what was saved when it began, and it*)
(* has to be while a tax has no wallet to go to.                           *)
(*                                                                         *)
(* Cw20TaxedLedger shows that Cw20Taxed implements this.                   *)
(***************************************************************************)
EXTENDS Balances

CONSTANTS
    Addr,   \* the addresses of the chain
    NoAddr  \* where a tax goes that has no wallet

VARIABLES
    worth,  \* what each account has
    supply, \* the total supply
    saved   \* worth and supply at the end of the last transaction

ledger_vars == <<worth, supply, saved>>

Accounts == Addr \cup {NoAddr}

\* A tax without a wallet keeps the transaction from ending.
Settled(w) == w[NoAddr] = 0

Now == [worth |-> worth, supply |-> supply]

Init ==
    /\ worth \in [Accounts -> Nat]
    /\ Settled(worth)
    /\ supply = TotalBalance(worth)
    /\ saved = Now

-----------------------------------------------------------------------------
\* The transaction goes on, or this was its last step.
Continue ==
    \/ UNCHANGED saved
    \/ Settled(worth') /\ saved' = Now'

\* A payment of `payer` to `payee`, with a tax for `wallet`.
Pay(payer, payee, wallet) ==
    /\ \E net \in 0 .. worth[payer] : \E tax \in 0 .. worth[payer] - net :
          worth' = Credit(Credit(Debit(worth, payer, net + tax), payee, net), wallet, tax)
    /\ UNCHANGED supply
    /\ Continue

Mint(a) ==
    /\ supply' \in Nat /\ supply' >= supply
    /\ worth' = Credit(worth, a, supply' - supply)
    /\ Continue

Burn(a) ==
    /\ supply' \in Nat /\ supply' <= supply
    /\ supply - supply' <= worth[a]
    /\ worth' = Debit(worth, a, supply - supply')
    /\ Continue

\* A step that moves no tokens: allowances, roles, policies, the forward of a tax.
Rest == UNCHANGED <<worth, supply>> /\ Continue

Undo ==
    /\ worth' = saved.worth
    /\ supply' = saved.supply
    /\ UNCHANGED saved

Next ==
    \/ Rest
    \/ Undo
    \/ \E a \in Addr : Mint(a) \/ Burn(a)
    \/ \E payer, payee, wallet \in Accounts : Pay(payer, payee, wallet)

Spec == Init /\ [][Next]_ledger_vars

-----------------------------------------------------------------------------
\* Nobody has less than nothing, and together the accounts have the supply.
Balanced == worth \in [Accounts -> Nat] /\ TotalBalance(worth) = supply
=============================================================================
