------------------------------ MODULE Balances ------------------------------
(***************************************************************************)
(* The BALANCES map of the token: a function from addresses to amounts,    *)
(* where an address without an entry has the balance 0.  Crediting,        *)
(* debiting and the sum of all balances.                                   *)
(***************************************************************************)
EXTENDS Integers, FiniteSets

\* BALANCES.update with `balance.unwrap_or_default() + n`.
Credit(b, a, n) == [b EXCEPT ![a] = @ + n]

\* BALANCES.update with `balance.unwrap_or_default().checked_sub(n)`; the
\* caller has checked that the balance suffices.
Debit(b, a, n) == [b EXCEPT ![a] = @ - n]

\* The sum of the values of b, counted unit by unit: the units held by a are
\* <<a, 1>> .. <<a, b[a]>>.  (A sum written as a recursion would be out of the
\* prover's reach; MCCw20Taxed assumes that the two agree, and TLC evaluates it.)
Units(b) == UNION {{a} \X (1 .. b[a]) : a \in DOMAIN b}
TotalBalance(b) == Cardinality(Units(b))
=============================================================================
