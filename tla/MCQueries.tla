------------------------------ MODULE MCQueries ------------------------------
(***************************************************************************)
(* A small instance of Queries for TLC: alice grants, lowers and grants    *)
(* again allowances to three spenders, bob grants one, tokens are sent to  *)
(* new accounts, while the client lists.                                   *)
(***************************************************************************)
EXTENDS Queries, MCCw20Taxed

MCRank == [a \in MCAddr |-> CASE a = pool -> 1 [] a = alice -> 2 [] a = token -> 3
                              [] a = bob -> 4 [] a = treasury -> 5]

MCListings ==
    {[of |-> "owner", address |-> alice, limit |-> n] : n \in {None, 3}}
    \cup {[of |-> "spender", address |-> pool, limit |-> 1],
          [of |-> "accounts", limit |-> 2]}

QueriesInstantiations == {Token(Holding(alice, 1, bob, 0), None, None, None)}
QueriesTxs ==
    Alone({IncreaseOf(alice, a, 1, None) : a \in {bob, pool, treasury}}
          \cup {DecreaseOf(alice, a, 1, None) : a \in {bob, pool, treasury}}
          \cup {IncreaseOf(bob, pool, 1, None), TransferFromOf(pool, alice, bob, 1),
                SendOf(alice, treasury, 1), SendOf(alice, pool, 1)})
=============================================================================
