----------------------------- MODULE Migration -----------------------------
(***************************************************************************)
(* The migrate entry point (contract.rs, state.rs migrate_v1): a token     *)
(* that ran other code, or an older version of this one, gets this code.   *)
(* Its store is what the other code left behind: perhaps without a tax map,*)
(* without a whale info, without the allowances by spender.  From then on  *)
(* it runs as Cw20Taxed; an instantiated token may be migrated as well, at *)
(* any time between two transactions.                                      *)
(*                                                                         *)
(* A definition under the comment "Wrong:" is a bug the code does not have.*)
(***************************************************************************)
EXTENDS Cw20Taxed

CONSTANTS
    LegacyTokens,   \* the tokens, as their old code left them
    MigrateMsgs     \* the migrate messages considered

VARIABLE contract_info  \* the cw2 item: name and version of the code

migration_vars == <<vars, contract_info>>

-----------------------------------------------------------------------------
\* Versions: major, minor, patch, and the number n of the build metadata
\* "+taxed00n" (0: none).  Rust's semver orders the build metadata too.
Version == Nat \X Nat \X Nat \X Nat

\* Wrong: build metadata does not count, as semver.org has it.
BelowByPrecedence(v, w) ==
    \E i \in 1 .. 3 : v[i] < w[i] /\ \A j \in 1 .. i - 1 : v[j] = w[j]

Below(v, w) == \E i \in 1 .. 4 : v[i] < w[i] /\ \A j \in 1 .. i - 1 : v[j] = w[j]

\* CONTRACT_NAME and CONTRACT_VERSION: "crates.io:cw20-base" is the name of the
\* upstream contract and of this one.
CONTRACT_NAME == "cw20-base"
CONTRACT_VERSION == <<1, 1, 0, 4>>
Current == [contract |-> CONTRACT_NAME, version |-> CONTRACT_VERSION]

ContractInfo == [contract : {CONTRACT_NAME, "terraport-token", "terraswap-token", "other"},
                 version : Version]

LegacyToken == [contract_info : ContractInfo, balances : [Addr -> Uint],
                mint : Minter \cup {None}, allowances : AllowanceMap,
                tax_info : TaxMap \cup {None}, whale_info : WhaleInfo \cup {None}]

MigrateMsg == [tax_map : TaxMap \cup {None}, whale_info : WhaleInfo \cup {None},
               new_info : [mint : Minter \cup {None}] \cup {None}]

\* The versions of this contract that store both policies when instantiated.
WithPolicies == {<<1, 1, 0, n>> : n \in 2 .. 4}

\* Only a token of such a version is known to have both.
ASSUME MigrationAssumption ==
    /\ \A t \in LegacyTokens : t \in LegacyToken
    /\ \A m \in MigrateMsgs : m \in MigrateMsg
    /\ \A t \in LegacyTokens :
          /\ TotalBalance(t.balances) <= MaxUint
          /\ t.contract_info.contract = CONTRACT_NAME /\ t.contract_info.version \in WithPolicies
             => t.tax_info # None /\ t.whale_info # None

-----------------------------------------------------------------------------
\* The versions before 0.14.0 did not keep the allowances by spender.
KeepsSpenders(info) == ~Below(info.version, <<0, 14, 0, 0>>)

SpendersOf(map) == [k \in Addr \X Addr |-> map[<<k[2], k[1]>>]]

MigrationInit ==
    \/ Init /\ contract_info = Current
    \/ /\ \E t \in LegacyTokens :
             /\ contract_info = t.contract_info
             /\ balances = t.balances
             /\ token_info = [total_supply |-> TotalBalance(t.balances), mint |-> t.mint]
             /\ allowances = t.allowances
             /\ allowances_spender = IF KeepsSpenders(t.contract_info)
                                     THEN SpendersOf(t.allowances)
                                     ELSE [k \in Addr \X Addr |-> None]
             /\ tax_info = t.tax_info
             /\ whale_info = t.whale_info
       /\ committed = Store
       /\ pending = <<>>
       /\ reactions = 0
       /\ height = 0

-----------------------------------------------------------------------------
\* ensure_known_upgrade_path: what may be migrated, and the version it counts as.

IsFactoryToken(info) ==
    info.contract \in {"terraport-token", "terraswap-token"} /\ info.version = <<0, 0, 0, 0>>

\* is_cw20_taxed_v0: also true of the stock contract from 1.1.0 on.
IsTaxedToken(info) ==
    info.contract = CONTRACT_NAME /\ ~Below(info.version, <<1, 1, 0, 0>>)

IsOldBase(info) ==
    info.contract = CONTRACT_NAME /\ info.version \in {<<0, 0, 0, 0>>, <<1, 0, 1, 0>>}

KnownUpgradePath(info) == IsFactoryToken(info) \/ IsTaxedToken(info) \/ IsOldBase(info)

Normalized(info) ==
    IF IsTaxedToken(info) THEN info
                          ELSE [contract |-> CONTRACT_NAME, version |-> <<1, 1, 0, 0>>]

\* cw2::ensure_from_older_version fails for another contract or a newer version;
\* else the item becomes Current.
FromOlderVersion(info) ==
    info.contract = CONTRACT_NAME /\ ~Below(CONTRACT_VERSION, info.version)

MigrateOk(info) == KnownUpgradePath(info) /\ FromOlderVersion(Normalized(info))

\* The default a migrated token gets; unlike an instantiated one it has no admin.
OrElse(item, default) == IF item = None THEN default ELSE item

\* Wrong: the policies of the message replace what the token has.
PoliciesReplaced(msg) ==
    /\ tax_info' = OrElse(msg.tax_map, OrElse(tax_info, DefaultTaxMap))
    /\ whale_info' = OrElse(msg.whale_info, OrElse(whale_info, DefaultWhaleInfo(NoAddr)))

\* Policies are added where there are none.  Neither is validated.
PoliciesAdded(msg) ==
    IF Below(Normalized(contract_info).version, <<1, 1, 0, 2>>)
    THEN /\ tax_info' = OrElse(tax_info, OrElse(msg.tax_map, DefaultTaxMap))
         /\ whale_info' = OrElse(whale_info, OrElse(msg.whale_info, DefaultWhaleInfo(NoAddr)))
    ELSE UNCHANGED <<tax_info, whale_info>>

\* The allowances by spender are built for versions below 0.14.0; what counts
\* is the normalized version.
SpendersBuilt ==
    IF ~KeepsSpenders(Normalized(contract_info))
    THEN allowances_spender' = SpendersOf(allowances)
    ELSE UNCHANGED allowances_spender

Migrate(msg) ==
    /\ pending = <<>>
    /\ MigrateOk(contract_info)
    /\ contract_info' = Current
    /\ SpendersBuilt
    /\ PoliciesAdded(msg)
    /\ token_info' = IF msg.new_info = None THEN token_info
                     ELSE [token_info EXCEPT !.mint = msg.new_info.mint]
    /\ UNCHANGED <<balances, allowances, pending, reactions, height>>
    /\ committed' = Store'

\* What the old code did before the migration is in LegacyTokens.
MigrationNext ==
    \/ \E msg \in MigrateMsgs : Migrate(msg)
    \/ contract_info = Current /\ Next /\ UNCHANGED contract_info

MigrationSpec == MigrationInit /\ [][MigrationNext]_migration_vars

-----------------------------------------------------------------------------
\* Properties.

\* A migrated token has everything its handlers load: the order of versions, the
\* normalization and the policies added leave no token without a tax map or a
\* whale info, without which no payment would ever succeed.
MigratedTypeOK ==
    /\ contract_info \in ContractInfo
    /\ contract_info = Current => TypeOK

\* Where the two allowance maps differ (a factory token keeps no allowances by
\* spender, and migrate does not build them), the map by spender has the
\* smaller amount: no spender sees more than the owner granted.  (AuthorizedDebit,
\* that a debit takes from both, is checked of migrated tokens too.)
Amount(entry) == EntryOf(entry).allowance
SpenderWithinOwner ==
    \A owner, spender \in Addr :
        Amount(allowances_spender[<<spender, owner>>]) <= Amount(allowances[<<owner, spender>>])

\* Migrations replace the minter and its cap without a look at the supply; still
\* the supply never grows beyond the cap of the moment.  Under a cap below the supply
\* nothing can be minted: the cap is compared with all of it (see CapAllows), where
\* state.rs:31, "how many more tokens can be issued", would allow as many again.
GrowsWithinCap ==
    [][Execute /\ token_info'.total_supply > token_info.total_supply
       => CapAllows(token_info'.mint, token_info'.total_supply)]_migration_vars

\* A policy whose admin gave it up survives every later migration and message.
PoliciesStay ==
    [][/\ committed.tax_info # None /\ committed.tax_info.admin = NoAddr
          => committed'.tax_info = committed.tax_info
       /\ committed.whale_info # None /\ committed.whale_info.admin = NoAddr
          => committed'.whale_info = committed.whale_info]_migration_vars
=============================================================================
