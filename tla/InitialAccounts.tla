--------------------------- MODULE InitialAccounts ---------------------------
(***************************************************************************)
(* create_accounts (contract.rs), row by row: the loop that turns the coins*)
(* of an instantiate message into the balances and the supply Cw20Taxed    *)
(* starts from.  A row that fails ends it for good, and with it the token. *)
(***************************************************************************)
EXTENDS Instantiation

CONSTANT CoinLists  \* the lists of initial coins considered

VARIABLES
    coins,          \* accounts: the list
    row,            \* how many of its rows are done
    saved,          \* BALANCES
    total_supply    \* the sum it returns

accounts_vars == <<coins, row, saved, total_supply>>

ASSUME AccountsAssumption ==
    /\ IsFiniteSet(Addr)
    /\ \A list \in CoinLists : list \in Seq(Coin)

AccountsInit ==
    /\ coins \in CoinLists
    /\ row = 0
    /\ saved = [a \in Addr |-> 0]
    /\ total_supply = 0

\* validate_accounts comes before the first row, the address of a row before it is
\* saved; the addition panics beyond Uint128.
SaveRow ==
    LET coin == coins[row + 1]
    IN  /\ row < Len(coins)
        /\ ValidAccounts(coins)
        /\ coin.address \in Addr
        /\ total_supply + coin.amount <= MaxUint
        /\ row' = row + 1
        /\ saved' = [saved EXCEPT ![coin.address] = coin.amount]
        /\ total_supply' = total_supply + coin.amount
        /\ UNCHANGED coins

AccountsSpec == AccountsInit /\ [][SaveRow]_accounts_vars

-----------------------------------------------------------------------------
\* Properties.

\* The supply create_accounts returns is the sum of the balances it saved, the
\* order of the coins notwithstanding: SupplyConserved holds from the start.
SupplyMatchesAccounts == TotalBalance(saved) = total_supply

\* Every account has what the message says: no later row takes its balance back.
EveryCoinSaved == \A i \in 1 .. row : saved[coins[i].address] = coins[i].amount
=============================================================================
