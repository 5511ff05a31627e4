----------------------------- MODULE MCMigration -----------------------------
(***************************************************************************)
(* Small instances of Migration for TLC: one token as each kind of old     *)
(* code may have left it, with an allowance of alice to bob, and what a    *)
(* comment of migrate says and migrate does not do.                        *)
(***************************************************************************)
EXTENDS Migration, MCCw20Taxed

Code(contract, version) == [contract |-> contract, version |-> version]

Granted(n, expires) ==
    [k \in Addr \X Addr |->
        IF k = <<alice, bob>> THEN [allowance |-> n, expires |-> expires] ELSE None]

Legacy(code, mint, tax_map, whale) ==
    [contract_info |-> code, balances |-> Holding(alice, 3, bob, 1), mint |-> mint,
     allowances |-> Granted(2, 1), tax_info |-> tax_map, whale_info |-> whale]

\* Factory tokens, the stock contract, the token before it kept a whale info, and
\* the versions that have everything; unknown and newer code, which stays.
Factory == {Code("terraport-token", <<0, 0, 0, 0>>), Code("terraswap-token", <<0, 0, 0, 0>>)}
Stock == {Code(CONTRACT_NAME, v) : v \in {<<0, 0, 0, 0>>, <<1, 0, 1, 0>>, <<1, 1, 0, 0>>}}
Unknown == {Code("other", <<1, 1, 0, 0>>), Code("terraport-token", <<1, 0, 0, 0>>),
            Code(CONTRACT_NAME, <<1, 0, 0, 0>>), Code(CONTRACT_NAME, <<1, 1, 2, 0>>)}
Taxed001 == Code(CONTRACT_NAME, <<1, 1, 0, 1>>)

MCLegacyTokens ==
    {Legacy(c, None, None, None) : c \in Factory \cup Stock \cup Unknown}
    \cup {Legacy(Taxed001, [minter |-> alice, cap |-> 5], t, w) :
             t \in {OneWallet, ManyWallets}, w \in {None, Whale(3, {alice}, NoAddr)}}
    \cup {Legacy(Code(CONTRACT_NAME, v), [minter |-> alice, cap |-> None], NoWallet,
                 Whale(4, {}, alice)) : v \in WithPolicies}

MCInstantiations ==
    {Token(Holding(alice, 3, bob, 1), [minter |-> alice, cap |-> 5], OneWallet, None)}

Policies(t, w, info) == [tax_map |-> t, whale_info |-> w, new_info |-> info]
MCMigrateMsgs ==
    {Policies(None, None, None), Policies(OneWallet, Whale(3, {}, alice), None),
     Policies(None, None, [mint |-> None]),
     Policies(OneWallet, None, [mint |-> [minter |-> bob, cap |-> 3]])}

MigrationTxs ==
    Alone({IncreaseOf(alice, bob, 1, e) : e \in {None, Never}}
          \cup {DecreaseOf(alice, bob, 1, None), MintOf(alice, bob, 2), MintOf(bob, bob, 1),
                TransferFromOf(bob, alice, treasury, 1), BurnFromOf(bob, alice, 1),
                SendOf(alice, pool, 2),
                SetTaxAdminOf(alice, None), SetWhaleInfoOf(alice, Whale(4, {bob}, NoAddr))})
MigrationReactions == Alone({TransferOf(pool, alice, 1)})

\* contract.rs on `original_version < 0.14.0`: "Build reverse map of allowances
\* per spender".  ensure_known_upgrade_path has replaced the version of a factory
\* token by 1.1.0 before it is compared, so nothing is built.
ReverseMapBuilt ==
    [][contract_info # Current /\ contract_info' = Current /\ ~KeepsSpenders(contract_info)
       => AllowancesMirrored']_migration_vars
=============================================================================
