---------------------------- MODULE MCCw20Taxed ----------------------------
(***************************************************************************)
(* Small instances of Cw20Taxed for TLC.  Two wallets, a pool contract, a  *)
(* treasury wallet and the token itself; each .cfg picks the transactions, *)
(* the calls of the pool and the instantiations of one question.           *)
(***************************************************************************)
EXTENDS Cw20TaxedLedger, Forms
LOCAL INSTANCE Functions

CONSTANTS alice, bob, pool, treasury, token

MCAddr == {alice, bob, pool, treasury, token}

\* The units counted by TotalBalance are the sum of the balances.
ASSUME TotalIsTheSum ==
    \A b \in [MCAddr -> 0 .. 2] : TotalBalance(b) = FoldFunction(LAMBDA x, y : x + y, 0, b)

\* The pool has the code id 7, the token the code id 1; the others are wallets.
MCCodeIdOf == [a \in MCAddr |-> CASE a = pool -> 7 [] a = token -> 1 [] OTHER -> None]

-----------------------------------------------------------------------------
\* Each of the messages as a transaction of its own.
Alone(msgs) == {<<m>> : m \in msgs}

-----------------------------------------------------------------------------
\* Tax policies.  Rates are quarters: One is 4 in every .cfg.

OnPool(rate) == [kind |-> "ContractCode", code_ids |-> {7}, tax_rate |-> rate]
UntaxedInfo == Info(NoTax, NoTax, NoAddr)

\* One wallet for every tax: half of a transfer, selling to the pool and buying
\* from it are taxed.
OneWallet ==
    MapOf(Info(Always(2), Always(2), treasury), Info(Always(2), OnPool(2), treasury),
          Info(Always(2), OnPool(0), treasury), Info(Always(1), OnPool(0), treasury), alice)

\* Another wallet for each endpoint, the full amount as tax of a transfer: the
\* forward of a send is taxed again.
ManyWallets ==
    MapOf(Info(Always(4), Always(4), treasury), Info(Always(2), Always(2), pool),
          Info(Always(2), Always(2), bob), Info(Always(2), OnPool(0), token), pool)

\* A proceeds wallet that is no address: default text left in the map.
NoWallet ==
    MapOf(UntaxedInfo, UntaxedInfo, Info(Always(2), OnPool(2), NoAddr), UntaxedInfo, NoAddr)

-----------------------------------------------------------------------------
\* Instantiations.

Holding(a, n, b, k) ==
    [x \in Addr |-> CASE x = a -> n [] x = b -> k [] OTHER -> 0]

Token(initial, mint, tax_map, whale) ==
    [creator |-> alice, initial_balances |-> initial, mint |-> mint,
     tax_map |-> tax_map, whale_info |-> whale]

-----------------------------------------------------------------------------
\* Run payments: taxed payments of the four endpoints, a pool that calls the
\* token when it is notified, three policies, a limit of 3/4 of the supply.
PaymentsInstantiations ==
    {Token(Holding(alice, 4, bob, 2), None, t, Whale(3, {treasury}, NoAddr)) :
        t \in {OneWallet, ManyWallets, NoWallet}}
PaymentsTxs ==
    Alone({TransferOf(alice, bob, 2), TransferOf(bob, alice, 3), TransferOf(bob, token, 2),
           SendOf(alice, pool, 3), SendOf(bob, pool, 2), SendOf(alice, bob, 1),
           TransferOf(alice, NoAddr, 1)})
    \cup {<<IncreaseOf(alice, bob, 2, None), SendFromOf(bob, alice, pool, 2)>>,
          <<IncreaseOf(bob, alice, 2, None), TransferFromOf(alice, bob, pool, 2)>>,
          <<SendOf(bob, pool, 2), TransferOf(bob, alice, 2)>>}
PaymentsReactions ==
    Alone({TransferOf(pool, alice, 2), SendOf(pool, pool, 2)})
    \cup {<<TransferOf(pool, bob, 1), SendOf(pool, pool, 2)>>}

\* Run allowances: alice's allowances to bob and pool while the height grows:
\* raised, lowered, spent by the three *_from endpoints, expired, raised again.
\* Transfers from alice are taxed by half, to her own account as well.
AllowancesInstantiations ==
    {Token(Holding(alice, 3, bob, 0), None,
           MapOf(UntaxedInfo, Info(Always(2), Always(0), treasury), UntaxedInfo,
                 UntaxedInfo, NoAddr), None)}
AllowancesTxs ==
    Alone({IncreaseOf(alice, bob, 3, e) : e \in {None, Never, 1, 2}}
          \cup {IncreaseOf(alice, alice, 1, None), IncreaseOf(alice, pool, 1, None)}
          \cup {DecreaseOf(alice, bob, n, e) : n \in {1, 3}, e \in {None, 1}}
          \cup {TransferFromOf(bob, alice, r, 2) : r \in {alice, treasury}}
          \cup {BurnFromOf(bob, alice, 1), SendFromOf(bob, alice, pool, 1),
                TransferOf(treasury, alice, 1)})
AllowancesReactions ==
    {<<TransferFromOf(pool, alice, pool, 1)>>, <<TransferOf(pool, alice, 1)>>}

\* Run supply: a capped minter, the pool, that mints when it is notified, hands
\* its role over or gives it up, while tokens are burned.  Where there is a limit,
\* half of the supply, alice is above it from the start.
SupplyInstantiations ==
    {Token(Holding(alice, 3, bob, 1), [minter |-> a, cap |-> c], OneWallet, w) :
        a \in {pool, bob, NoAddr}, c \in {None, 3, 6},
        w \in {None, Whale(2, {treasury}, NoAddr)}}
SupplyTxs ==
    Alone({MintOf(s, r, 2) : s \in {alice, bob}, r \in {bob, NoAddr}}
          \cup {BurnOf(a, 1) : a \in {alice, bob, treasury}}
          \cup {UpdateMinterOf(bob, a) : a \in {alice, pool, NoAddr, None}}
          \cup {SendOf(a, pool, 2) : a \in {alice, bob}} \cup {TransferOf(bob, alice, 1)})
SupplyReactions ==
    Alone({MintOf(pool, bob, 2), UpdateMinterOf(pool, bob), BurnOf(pool, 1)})
    \cup {<<MintOf(pool, pool, 2), UpdateMinterOf(pool, None)>>}

\* Run policy: alice and the pool administer the two policies; the pool also
\* while a tax it is about to receive or to pay is on its way.
PolicyInstantiations ==
    {Token(Holding(alice, 2, bob, 4), None, t, w) :
        t \in {OneWallet, ManyWallets}, w \in {None, Whale(4, {}, pool)}}
PolicyTxs ==
    Alone({SetTaxMapOf(alice, t) : t \in {None, ManyWallets, NoWallet,
                                          MapOf(Info(Always(5), Always(5), bob), UntaxedInfo,
                                                UntaxedInfo, UntaxedInfo, alice)}}
          \cup {SetTaxAdminOf(alice, a) : a \in {None, NoAddr, pool}}
          \cup {SetWhaleInfoOf(alice, w) : w \in {None, Whale(3, {pool}, NoAddr),
                                                  Whale(5, {}, alice)}}
          \cup {SetWhaleAdminOf(alice, a) : a \in {None, NoAddr, pool}}
          \cup {SendOf(a, pool, 2) : a \in {alice, bob}}
          \cup {TransferOf(bob, alice, 4)})
PolicyReactions ==
    Alone({SetTaxMapOf(pool, None), SetTaxMapOf(pool, OneWallet), SetTaxAdminOf(pool, None),
           SetWhaleAdminOf(pool, alice), TransferOf(pool, alice, 2)})
    \cup {<<SetTaxMapOf(pool, OneWallet), SendOf(pool, pool, 2)>>}
=============================================================================
