---------------------------- MODULE Instantiation ----------------------------
(***************************************************************************)
(* What an instantiate message is asked before anything is stored: the     *)
(* checks of msg.rs and validate_accounts of contract.rs.  A name is given *)
(* by its length in bytes, a symbol by its bytes.                          *)
(***************************************************************************)
EXTENDS TaxRules, Balances, Sequences

-----------------------------------------------------------------------------
\* InstantiateMsg::validate

HasValidName(length) == length \in 3 .. 50

\* '-', 'A' .. 'Z', 'a' .. 'z'
SymbolBytes == {45} \cup 65 .. 90 \cup 97 .. 122
HasValidSymbol(bytes) ==
    Len(bytes) \in 3 .. 12 /\ \A i \in DOMAIN bytes : bytes[i] \in SymbolBytes

Validate(msg) == HasValidName(msg.name) /\ HasValidSymbol(msg.symbol) /\ msg.decimals <= 18

-----------------------------------------------------------------------------
\* The initial accounts.

Coin == [address : AnyAddr, amount : 0 .. MaxUint]

\* Wrong: the addresses are not sorted before dedup, which compares neighbours.
ValidAccountsUnsorted(coins) ==
    \A i \in 1 .. Len(coins) - 1 : coins[i].address # coins[i + 1].address

\* validate_accounts
ValidAccounts(coins) ==
    \A i, j \in DOMAIN coins : coins[i].address = coins[j].address => i = j
=============================================================================
