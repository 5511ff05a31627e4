# cw20-taxed in TLA+

A model of the taxed CW20 token of this repository (`contracts/cw20-taxed`, a
CosmWasm contract in Rust): every entry point, query and migration, checked with
TLC on small instances. For every instance, TLAPS proves the safety properties of
the runs: of payments, supply, allowances, roles, the whale limit, taxes,
migrations, marketing and listings, that the token implements a plain ledger, and
that each step of a transaction leaves less of it to do.
Paths below are relative to `src/contracts/cw20-taxed/src/`.

## The system

The contract is a cw20-base token with two extensions: payments can be taxed,
and no account may hold more than a share of the supply. It has no threads; what
is hard about it is the *transaction*. A handler writes to the store and returns
messages; the chain runs them after the handler, depth first, and undoes
everything if one of them fails. A taxed payment therefore happens in steps, with
the code of another contract between them:

1. the handler (`execute_send`, ...) debits the payer with the gross amount,
   credits the recipient with the net amount and parks the tax in the balance of
   the token contract itself;
2. for `Send` and `SendFrom`, the recipient contract is notified with
   `Cw20ReceiveMsg`, and may call the token in turn: pay, mint, even replace the
   tax map if it is its admin;
3. the token executes `Transfer` on itself, which moves the parked tax to the
   proceeds wallet. This is an ordinary transfer: it asks the tax map and the
   whale policy once more and may be taxed itself.

| Component | State | Operations | What makes it correct |
| --- | --- | --- | --- |
| Tax rules (`tax.rs`) | none (the tax map is data) | `deduct_tax`, `tax_deduction`, `is_taxed`, `tax_rate`, `validate`, defaults | net + tax is the amount; the tax is the share rounded down; larger amounts never yield less |
| Payments (`contract.rs`, `allowances.rs`) | `BALANCES` | transfer, transfer_from, send, send_from | no unit created or lost; every parked tax can be forwarded, and none stays; nobody pays without consent; a notification promises what arrived; seen from outside, payment and tax are one step |
| Allowances (`allowances.rs`) | `ALLOWANCES`, `ALLOWANCES_SPENDER` | increase, decrease, deduct (in the three `*_from`) | the two maps agree; expired allowances are not spent, and come back only by their owner's word |
| Supply and minter (`contract.rs`) | `TOKEN_INFO` | mint, burn, burn_from, update_minter | balances add up to the supply; the cap holds; no minter is for ever no minter |
| Tax policy | `TAX_INFO` | set_tax_map, set_tax_admin | only the admin, never after renouncing; a change in mid-payment does no harm |
| Anti-whale policy (`whale.rs`) | `ANTI_WHALE_INFO` | assert_no_whale, set_whale_info, set_whale_admin | no payment leaves its recipient above the limit |
| Instantiation | all of them | instantiate, create_accounts, the checks of `msg.rs` | no account twice; the supply is the sum of the accounts |
| Migration (`contract.rs`, `state.rs::migrate_v1`) | contract version, all items | migrate, ensure_known_upgrade_path | known paths only; every item the handlers load is there; what was renounced stays |
| Marketing and logo | `MARKETING_INFO`, `LOGO` | update_marketing, upload_logo | only the marketing account; record and logo agree |
| Queries, enumeration (`enumerable.rs`) | none | read-only, paginated | a client that pages sees every lasting entry, once |
| Unit tests (`mod tests` of most files) | none | scripts of calls and queries | the model answers as they assert |
| Deploy script (`src/deploy.js`) | none | builds an instantiate message | the tax map taxes what the options say |

Components share one store: every payment reads both policies and the supply,
`burn_from` crosses allowances, balances and supply, a forward reads the tax map
that a message between may have replaced, and a migration leaves a store that the
handlers load from then on. Only marketing and logo are on their own.

## The modules

| Module | What it is |
| --- | --- |
| `Addresses` | addresses and the sentinels `NoAddr`, `None` |
| `TaxRules` | `tax.rs`: conditions, tax info, tax map, validation, `DeductTax` |
| `TaxShares` | one payment that grows unit by unit: how its tax compares with the exact share and with the taxes of its parts |
| `Balances` | crediting, debiting, and the sum of a balance map |
| `Cw20Taxed` | the contract and the transactions of the chain: state, one action per endpoint, properties |
| `TaxedLedger` | the abstract specification: a ledger in which a payment and its tax are one step and nothing is in transit |
| `Cw20TaxedLedger` | the refinement mapping from `Cw20Taxed` to `TaxedLedger` |
| `Migration` | `Cw20Taxed` with the versions and stores of older code, and `Migrate` |
| `Queries` | `Cw20Taxed` with the queries and a client that pages through listings |
| `Marketing` | the marketing record and the logo, a machine of their own |
| `Instantiation` | the checks of an instantiate message, `validate_accounts` |
| `InitialAccounts` | `create_accounts`, row by row |
| `Replays` | unit tests as scripts, run on `Migration`, `Queries` and `Marketing` together |
| `AllowanceTests`, `ContractTests`, `MarketingTests`, `RuleTests` | the 82 scripts, by the file the tests are in |
| `Forms` | how messages and policies are written, for the modules that list some |
| `Cw20TaxedClaims` | sentences of comments and of the deploy script that the code does not live up to |
| `MCCw20Taxed`, `MCMigration`, `MCQueries`, `MCParts`, `MCReplays` | the instances for TLC; `MCParts` runs the parts without a share in the payments side by side |
| `AmountsProofs` | lemmas on sums of balances and on the split of an amount |
| `Cw20TaxedProofs`, `Cw20TaxedSafetyProofs`, `Cw20TaxedEscrowProofs`, `Cw20TaxedLedgerProofs` | theorems about the token: types and supply; allowances and their expiration, cap, roles, debits; escrow, taxes passed on, whale limit and the end of transactions; the ledger |
| `MigrationProofs`, `QueriesProofs`, `PartsProofs` | theorems about migrated tokens, about listings, and about taxes, initial accounts and marketing |

A definition under the comment `Wrong:` is a bug the code does not have, next to
the definition it is a variant of: a check dropped, taken at the wrong time, a map
not updated. Each property of a run has one; with it in place of the real
definition, the run finds the property violated.

### The token: `Cw20Taxed`

`balances`, `token_info`, `allowances`, `allowances_spender`, `tax_info`,
`whale_info` are the storage items of `state.rs`. A missing balance is 0 (the
handlers read `unwrap_or_default()`), a missing allowance is `None` (there the
code tells absence from zero). `pending` is the rest of the running transaction,
its head the message to execute; `committed` is the store as it was when no
transaction ran, which a failure restores; `height` is the block.

Each handler is one action (`Transfer`, `SendFrom`, `SetTaxMap`, ...) with a
predicate of the same name and the ending `Ok`, the conjunction of its early
returns and errors. A handler that fails is the action `Fail`, enabled exactly
when the message at hand is not `Accepted`. `Return(msgs)` puts the messages of a
`Response` before what is pending and commits when nothing is left. `Receive` is
the code of a notified contract (external): it does nothing, makes one of the
sequences of calls in `Reactions` (its own, or of contracts it calls), or fails for
a reason of its own. The proceeds wallet, the recipient, the payer and the
contract may be one account; nothing in the actions keeps them apart.

Running out of gas needs no action of its own: it leads to the same state as
`Fail`. That would happen at any message, so `TxEnds` is a statement about
transactions that do not run out of gas.

### The ledger: `TaxedLedger` and the mapping

`TaxedLedger` is what a holder may think the token is: `Pay` takes the gross
amount from one account and gives, in the same step, the net amount to the
recipient and the tax to the wallet. It knows no escrow, forwards, notifications,
allowances or policies, and it may undo a transaction that is not over. What it
promises is `Balanced`: nobody has less than nothing, and all together have the supply.
That is proved of the ledger; of the token it is `SupplyConserved` and `EscrowCovered`.

`Cw20TaxedLedger` maps the token to it: an account is *worth* its balance and what
the pending forwards will bring it, the contract its balance without what they will
take. So the wallet has the tax from the moment it is taken, and a forward is a
stutter. The mapping also says what happens where a forward is taxed itself: it is
a payment of the wallet it was bound for, with the tax of the tax. A tax whose
wallet is no address is worth something to `NoAddr`; `Settled` says a transaction
cannot end while it is, for the forward will fail.

### Migration

`MigrationInit` is an instantiated token, or one of `LegacyTokens`: the code's name
and version and the store that code leaves, perhaps without a tax map, a whale
info, or the allowances by spender. `Migrate` is the whole entry point: the known
upgrade paths, the version they are normalized to, `cw2`'s refusal of newer code,
the reverse map, the policies that are missing, the new minter. Versions carry the
number of their build metadata, since Rust's `semver` orders it (`1.1.0` is below
`1.1.0+taxed002`). After a migration, and again before the next, the token takes
the steps of `Cw20Taxed`. Legacy steps are not modelled: any well-typed store
is a possible input, and the run picks one per kind of old code.

### Queries

A query sees the store of the last finished transaction (`committed`). `accounts`
adds what balances of 0 would hide: which keys `BALANCES` has (`Touched`: every
address a handler updates or saves, the contract included when a tax of 0 is
parked). `Rank` is the order of the keys' bytes. The client asks for a listing
(allowances of an owner, of a spender, all accounts) and then for page after page,
each starting after the last key of the one before. An empty page is the last; the
client may also stop at a page that is shorter than the one it asked for *and* than
`MAX_LIMIT` (`Short`). It has to know `MAX_LIMIT`: the code cuts a larger limit without
a word, and a client that asks for 50 and takes 30 for the end misses the rest, which
no property says it does not.
`throughout` is a history variable: the keys that were there all that time.

### Marketing, instantiation, replays

`Marketing` has no transactions: no other handler reads or writes its two items,
and its handlers return no messages, so each message is one step or none.
`Instantiation` says which messages are accepted; `ValidAccounts` is what the sorted
comparison of neighbours in `validate_accounts` amounts to. `InitialAccounts` is the
loop of `create_accounts`: each row overwrites a balance and adds to the sum, and a
row that fails ends it for good. The balances after the last row are the
`initial_balances` of `Cw20Taxed!Init`.
`TaxShares` has no counterpart in time: its steps raise the amount of one payment, so
that properties can compare `deduct_tax` at neighbouring amounts.

A replayed test is a script: a token, calls with the outcome the test expects of
each, and the facts it asserts after it. `Call` puts the message of a call at hand
and drops what the call before returned: nothing executes returned messages in a
unit test, so a tax stays parked. `Answer` is the step of the component.

### Abstractions

* `Addr` is a finite set; `NoAddr` stands for every text that is not a valid
  address (`addr_validate` fails on it). The code stores the proceeds wallet, the
  whitelist and the admins of a tax map or whale info without validating them,
  so these fields range over `AnyAddr`.
* Amounts are `0 .. MaxUint`; a rate or threshold is a number of atomics, `One`
  is `Decimal::one()`. Where the code fails because a number does not fit
  (`Decimal::from_atomics`, `checked_sub`, the panics of `Uint128` arithmetic)
  the guard says so with `MaxUint`.
* `CodeIdOf` is the answer of the contract info query; it does not change.
* `Expiration` is a height or `Never`; `AtTime` behaves alike and is left out.
* A contract that catches the failure of its own call (`reply_on_error`) and goes
  on is not modelled: a failure undoes the whole transaction. The token itself
  only uses `add_message`, which does not catch.
* Name, symbol and decimals are read by one query and by the checks of
  `Instantiation`; the token's state has none. The `msg` of a send and all
  attributes are left out: no guard reads them.
* A logo is a URL or a picture: its kind, whether it starts as such a file does,
  and its size. A text is a model value, or `Blank` (white space only).

## What TLC checks

Five accounts: `alice`, `bob` and `treasury` (wallets), `pool` (a contract with
code id 7) and `token` (the contract itself, code id 1); `parts` has three.

| Run | States | Shows |
| --- | --- | --- |
| `payments` | 7 297 | Three tax policies, all payment endpoints, a pool that pays and sends while it is notified, a limit of 3/4. `TypeOK`; `SupplyConserved`; `EscrowCovered`: the contract always has what its pending forwards will take; `SelfNeverPays`: nothing else ever leaves the contract; `NotifiedInFull`; `NoWhale`; and `ImplementsLedger` |
| `allowances` | 270 723 | Allowances raised, lowered, spent, expired and raised again over three blocks. `AllowancesMirrored`; `AuthorizedDebit`: who pays has sent the message, or loses a live allowance of the same size in both maps; `OnlyOwnerRevives`: what has expired can be spent again only if the owner names a new expiration for that spender |
| `supply` | 103 718 | Capped and uncapped minters, minting and burning from within a notification, handing over the role, with and without a limit of half the supply, which alice is above from the start. `CapRespected`, `RenouncedForever`; `WhalesStopGrowing`: no payment adds to an account above the limit; and `ImplementsLedger` with a supply that changes, which implies that the balances add up to it (`LedgerIsBalanced`) |
| `policy` | 36 785 | Both admins replace their policies and roles, the pool also between the parking and the forwarding of a tax. `EscrowCovered`, `RenouncedForever`, `ImplementsLedger`; `NoTaxKept`: nobody pays the contract itself in this run, so no transaction leaves a tax in it, not where the wallet is no address or a whale either; `RunsDown`: each step leaves less to do, unless a notified contract makes calls; and `TxEnds`: forwards do not tax each other for ever |
| `migration` | 609 663 | Factory tokens, stock cw20-base tokens, earlier taxed versions and unknown code, migrated, used, migrated again. `MigratedTypeOK`: every item is there; `SpenderWithinOwner` and `AuthorizedDebit`, where the allowance maps have diverged; `GrowsWithinCap`: caps replaced by migrations, also by one below the supply, bind every mint; `PoliciesStay`: renounced policies survive; `ImplementsLedger`, with a pool that pays while it is notified |
| `queries` | 62 220 | Allowances and accounts listed while transactions add, remove and restore them. `NothingMissed`, for clients that stop at an empty page and for those that stop at a short one; `NothingTwice`, `HoldersHaveEntries`, and `ListingEnds` |
| `parts` | 114 497 | All rates 0 .. 1.1 in tenths, several kinds of conditions, all amounts 0 .. 130: `FloorOfShare` (against the plain rounded-down share), `SplittingSavesAtMostOne`, `MoreIsMore`. All lists of up to four initial coins: `SupplyMatchesAccounts`, `EveryCoinSaved`. All marketing messages of three accounts: `TypeOK`, `LogoInSync`, `GoneForGood` |
| `replays` | 302 | 82 unit tests of the repository: `Outcomes`, the same calls fail; `Observations`, the queries and returned messages are what `assert_eq!` says |

That a transaction that fails leaves nothing behind is no property: it is what `Fail`
does, as the chain does it. What the code has to do for it is to *let* a transaction
fail, as `NoTaxKept` says of a tax that cannot be forwarded.

An increase with a new expiration makes what was left of an expired allowance
spendable again, as part of the sum (`allowances.rs`, the closure of
`execute_increase_allowance` adds to the old amount without a look at its
expiration). So `OnlyOwnerRevives` does not say that expired tokens are gone for good;
it says that neither an increase without an expiration, nor a decrease, a payment or a
rollback brings them back.
It is stated of tokens that were instantiated: in a migrated token whose maps differ,
a decrease writes the owner's entry over the spender's.

`NoWhale` belongs to a run without mint, burn and new whale policies: those move
the limit or a balance past the check, and the code does not promise `NoWhale` there
(see "acquired" below). What it does promise then is `WhalesStopGrowing`: a burn may
leave an account above the limit, but no payment adds to it. The contract itself may
be above the limit while it holds a tax; `NoWhale` says it is not once the
transaction is over.

`SpenderWithinOwner` is what is left of `AllowancesMirrored` for a migrated token.
A factory token keeps no allowances by spender and migrate builds none (see
`claim_reverse_map`), so the two maps differ; the property says the difference is
harmless to the owner.

Bounds, and why they are enough:

* `MaxReactions` (0 to 2): how many notifications of one transaction lead to
  calls. Two let the pool send to itself while notified and call again within that,
  with a tax parked by each level. In `migration` one notification leads to a payment;
  in `queries` nobody reacts: a query cannot happen inside a transaction, and what a
  notified contract does to the store is the matter of the other runs.
* `One = 4`, `MaxUint` from 1 to 31: quarters are enough for rates that round and
  for the rates 0 and 1; amounts beyond `MaxUint \div One` are refused as in
  `Decimal::from_atomics`. `MaxUint = 8` makes minting and allowances meet the
  width of `Uint128`, and is the least that lets a payment of 2 be taxed; in `queries` only what is there counts, not how much.
  `parts` has finer rates and all amounts.
* `MaxHeight` (0 to 2): allowances that expire in the next block, the one after,
  or never.
* `MAX_LIMIT = 2`, `DEFAULT_LIMIT = 1` (30 and 10 in the code): pages shorter than
  the listing, at the limit and cut by it, with entries removed at the key a page
  starts after. `LOGO_SIZE_CAP = 2`: logos at the cap and above.
* `MaxCoins = 4`, amounts 0, 60, 90 of at most 130: a repeated address need not be
  next to its first coin, and two coins overflow the supply.
* `replays` runs with percents (`One = 100`), amounts up to 2^31 and the real limits
  of pages and logos, as far as the tests have them.
* The transactions of each run are one or two messages; histories are unbounded,
  any number of transactions may follow each other.

Fairness: `WF_vars(TxStep)`, since a chain executes the messages of a transaction
without waiting for anything: a transaction that is running takes its next step.
Nobody is obliged to send one (`Submit`) and blocks need not come. In `Queries`
also `WF_query_vars(NextPage)`: a client that began a listing asks for the next
page. Nothing makes the chain wait for the client, and `ListingEnds` holds all the
same, for `start_after` only grows.

`Next` deadlocks nowhere in the runs of the token. Deadlock is not checked in
`parts` (amounts and coins end; who gave up the marketing role can do nothing) and
in `migration` and `claim_reverse_map` (a token of unknown or newer code cannot be
migrated and stays as it is).

### Findings

Runs that end with a counterexample, each for one sentence of the repository:

* `claim_whale_admin_reset`: `msg.rs:240` says an empty message resets the whale
  admin. The dispatch (`contract.rs:281`) answers Ok and does nothing, for any
  sender. The whale admin can hence not be renounced by this message.
* `claim_threshold`: `whale.rs:38` multiplies unchecked "as threshold is between
  0 and 1", but `instantiate` (`contract.rs:181`) does not validate it. The
  product overflows and the payments to accounts outside the whitelist fail.
* `claim_sell_tax`: `deploy.js:191` puts the sell tax into the condition whose
  rate is never used (`tax.rs:180`); a sale pays nothing, though `deploy.js:147`
  prints the tax.
* `claim_reverse_map`: `contract.rs:782` builds the "reverse map of allowances per
  spender" for versions below 0.14.0, but `ensure_known_upgrade_path` has replaced
  the version by 1.1.0 before line 781 compares it. A factory token is left without
  the map, and its spenders cannot spend what they were granted until the owner
  grants again.

Read from the code while modelling, and not run: `SetWhaleInfo` without a value is
a success without effect too (`contract.rs:272`), where `msg.rs:237` says it resets;
the threshold limits what "can be acquired by a single address" (`whale.rs:14`),
but a mint (`contract.rs:463`) is not limited; "the proceeds wallet receives all
taxes" (`README.md:96`), but a forward is a transfer and is taxed where `on_transfer`
covers the contract (the ledger's mapping says by how much); the tax depends on the
source wallet (`README.md:3`), but `send_from` asks for its caller
(`allowances.rs:260`), `transfer_from` for the owner.

The cap has two readings. `state.rs:31` says of `MinterData`, which the store keeps and
a migrate message brings, that "cap is how many more tokens can be issued by the
minter"; `msg.rs:95` speaks of the "hard cap on maximum tokens after minting". The code
compares the cap with the whole supply after the mint (`contract.rs:454`) and never
lowers it. (The test of `contract.rs:1355`, "if it exceeds cap (even over multiple
rounds), it fails", exceeds it in both readings.) They differ whenever there are tokens
when the cap is set: with a supply of 100, a cap of 150 allows 50 more, not 150. Most of
all after a migration, which may set a cap below the supply (`contract.rs:831`): with a
supply of 100 and a cap of 50, `state.rs:31` would allow a supply of 150, the code allows
no mint at all. `CapRespected` and `GrowsWithinCap` state the second reading, which is
what the code does, so that they hold says nothing for the comment of `state.rs:31`: the
code does not do what it says.

## What is proved

For every finite set of accounts, every set of transactions, notified contracts
and calls they make, every `One`, `MaxUint` and bound:

| Theorem | Statement |
| --- | --- |
| `Cw20TaxedProofs!TypeCorrectness` | `Spec => []TypeOK`. No formality: balances stay in `Uint128`, though the payment handlers add without a check (`unwrap_or_default() + tax`), which would abort |
| `Cw20TaxedProofs!SupplyIsConserved` | `Spec => []SupplyConserved` |
| `Cw20TaxedSafetyProofs!AllowancesAreMirrored`, `!CapIsRespected` | `Spec => []AllowancesMirrored`, `Spec => []CapRespected` |
| `Cw20TaxedSafetyProofs!RenouncedRolesStay`, `!DebitsAreAuthorized`, `!ExpiredStaysExpired` | `Spec => RenouncedForever`, of the committed stores; `Spec => AuthorizedDebit`; `Spec => OnlyOwnerRevives` |
| `Cw20TaxedEscrowProofs!EscrowIsCovered`, `!NotificationsInFull`, `!ContractPaysNothing` | `Spec => []EscrowCovered`, `Spec => []NotifiedInFull`, `Spec => SelfNeverPays` |
| `Cw20TaxedEscrowProofs!TaxesPassOn` | `Spec /\ [][NobodyPaysSelf]_vars => NoTaxKept`: no handler gives tokens to the contract by name, whether the payment is an account's or a forward to the contract as its own wallet |
| `Cw20TaxedEscrowProofs!NoWhaleWhileTheLimitStands` | `Spec /\ NoWhale /\ [][LimitStands]_vars => []NoWhale`: no handler mints, lowers the limit or shortens the whitelist |
| `Cw20TaxedEscrowProofs!NoWhaleByPayments` | `Spec /\ NoWhale => []NoWhale`, if `Txs` and `Reactions` have no mint, burn or new whale policy (`NobodyMovesLimit`), as in `payments` |
| `Cw20TaxedEscrowProofs!WhalesGrowOnlyByMint` | `Spec => WhalesStopGrowing`, wherever the limit moves |
| `Cw20TaxedEscrowProofs!TransactionsRunDown` | `Spec => RunsDown`, also where the policy is replaced while taxes are on their way |
| `Cw20TaxedLedgerProofs!TokenImplementsLedger` | `Spec => ImplementsLedger`: every behaviour of the token is one of the plain ledger |
| `Cw20TaxedLedgerProofs!LedgerIsBalanced` | `Ledger!Spec => []Ledger!Balanced`: what the abstract specification promises |
| `MigrationProofs!MigratedTokensAreComplete`, `!MigratedSupplyIsConserved`, `!SpendersSeeNoMore` | `MigrationSpec => []MigratedTypeOK`, `[]SupplyConserved`, `[]SpenderWithinOwner` |
| `MigrationProofs!RenouncedPoliciesStay`, `!MigratedSupplyGrowsWithinCap`, `!MigratedDebitsAreAuthorized`, `!MigratedWhalesGrowOnlyByMint`, `!MigratedTransactionsRunDown` | `MigrationSpec => PoliciesStay`, `GrowsWithinCap`, `AuthorizedDebit`, `WhalesStopGrowing`, `RunsDown` |
| `MigrationProofs!MigrationBuildsNoSpenders` | no migration, from whichever name and version, changes the allowances by spender: the finding `claim_reverse_map`, for every token |
| `MigrationProofs!MigratedEscrowIsCovered`, `!MigratedNotificationsInFull`, `!MigratedContractPaysNothing`, `!MigratedTokensImplementLedger` | `[]EscrowCovered`, `[]NotifiedInFull`, `SelfNeverPays` and `ImplementsLedger` of migrated tokens, if no legacy token has granted allowances of its own tokens (`OldCodeGrantedNothing`) |
| `QueriesProofs!ListingMissesNothing`, `!ListingRepeatsNothing`, `!HoldersAreListed` | `NothingMissed`, `NothingTwice`, `HoldersHaveEntries`, for every order of the keys and every page length |
| `QueriesProofs!ListingGoesOn` | `QuerySpec => ListingAdvances`: every page but the last leaves fewer addresses that may still come |
| `PartsProofs!TaxIsFloorOfShare`, `!SplittingSavesLittle`, `!OneUnitIsTaxedOrReceived` | `FloorOfShare`, `SplittingSavesAtMostOne`, `MoreIsMore`, for every rate, width and amount |
| `PartsProofs!SupplyStartsConserved`, `!AccountsStartAsGiven` | `SupplyMatchesAccounts`, `EveryCoinSaved`, for every list of coins |
| `PartsProofs!MarketingTypes`, `!LogoStaysInSync`, `!RoleGoneForGood` | `TypeOK`, `LogoInSync`, `GoneForGood` of `Marketing` |
| `AmountsProofs!DeductTaxSplits`, `!TotalOfUpdate` | where `deduct_tax` does not fail, net and tax make up the amount, for any rates, validated or not; the sum of all balances changes by what one balance changes |

**Types and supply** need each other. That a credit does not overflow follows from
the sum: what is credited was debited before and the sum is at most the supply, a
`Uint128` (`CreditTotal`, `BoundedByTotal`); that the sum is the supply needs the
types, for `Cardinality` says nothing about infinite sets. And both must hold of
`committed`, which `Fail` puts back. So the inductive invariant is `IInv`: `Sound`
(type and sum) for the store and for `committed`, messages that are messages,
counters in their bounds; it is equivalent to `TypeOK /\ SupplyConserved`, which is
what TLC checks. There is one lemma per action. The payments share `PaidSound`,
which is where `DeductTaxSplits` is used, and `ReturnKeepsInv`.

**Allowances, cap and roles** add `SInv`. Allowances and cap must hold of
`committed` for the sake of `Fail`. Roles change within a transaction, and what is
promised is about the stores between transactions: the link is
`RolesKept(committed, Store)`, that the running transaction has so far kept the
roles of the last committed store. It composes (`RolesKeptTransitive`), so each
handler only has to keep the roles of the store it finds (`HandlerKeeps`), and a
commit inherits it.

**Expired allowances.** A handler alone revives nothing without the owner
(`KeepsExpiry`): the entry it writes keeps the expiration of the old one, or has a new
one that `ExpiresOk` found not to be over, or is gone. A failure could still bring back
a live entry in place of an expired one, if a transaction could let one expire. It
cannot, the block being the same: `LapseInv` says that what has expired now has expired
in `committed`. The maps are mirrored, so one of them is enough.

**The escrow** adds `EInv`. `EscrowCovered` alone is not inductive: a transaction
may begin with tokens that the contract owns itself (anybody may send it some),
and a failure must find them again. Hence
`committed.balances[Self] + Owed(pending) <= balances[Self]`. Besides, the contract
has granted no allowance (`NoGrants`), so only its own forwards take from it; every
other pending message is somebody else's or one of those forwards; and a
notification comes first and alone (`Queued`), so nothing has moved the tokens it
announces. Each handler *settles*: what it adds to the contract's balance is what
the messages it returns will take (`ReturnSettles`). `Owed` is a sum over a
sequence; the lemmas about concatenation come from `TotalOfJoin`.

**Taxes pass on** is the other half. Where nobody pays the contract, the funds that are
its own, `balances[Self] - Owed(pending)`, do not grow in any step: a payment parks
exactly the tax its forward takes (`OwedAfterPayment`), and a forward that is taxed
itself parks that tax again. So at a commit, when nothing is owed, the contract has no
more than before (`KInv`), and by `SelfNeverPays` no less.

**The whale limit.** `NoWhale` says nothing of the contract while a transaction runs,
and of the others only what they hold now; neither carries over a step. `WInv` says
of the store that every account is within the limit, the contract apart from
`Owed(pending)`; of `committed` that all are, since `Fail` puts it back; and that the
limit of `committed` is no higher than the present one and its whitelist no longer
(`LimitKept`), so that what was no whale then is none now. Where the recipient is
measured before the tax is parked (`execute_send`), the contract as recipient may be
past the limit by exactly the tax it owes (`PaymentStaysWithin`). The hypotheses of
`NoWhaleByPayments` are those of run `payments`, where TLC finds that they are met:
its tokens begin without a whale. `WhalesGrowOnlyByMint` needs none of this: it
looks at one handler, and rests on `IInv` for the arithmetic.

**Transactions run down.** `WorkLeft` weighs what is pending: 4 for a message of an
account, 2 for a forward, 1 for a notification. A payment returns at most a
notification and a forward, which weigh 3. A forward that is taxed returns another
forward, and the sum alone would not fall. But the second one is bound for the
wallet of the transfer tax, whose payments `deduct_tax` exempts, and it is the next
message, so that nothing can name another wallet before it runs: such a forward at
the head counts 1 less. Only `Receive` can add work, when it makes calls, and it counts
them in `reactions`: how many a transaction has is the contracts' business (the gas
they pay for). `IInv` is all the argument needs, and no step is exempt: `Fail`
leaves nothing to do.

**Migrated tokens.** `Migration` has no sound store to start from: a legacy store may
lack both policies, and its allowance maps may differ. `MInv` says what is always so
(`Migratable`, the sum included, and `SpenderWithinOwner` of both stores), and that at
the current version the store satisfies `IInv`. The step that matters is `Migrate`
itself: whichever version it starts from, either it is below the one that adds the
policies, and they are added, or the code of that version had them (`LegacyTokens`,
`MigrationAssumption`). From there on the handlers take the steps of `Cw20Taxed`, and
the lemmas about handlers are used as they are; the theorems about debits need no
more than `IInv`. Escrow rests on `NoGrants`, a fact
about the past: for a token of this code it follows from the handlers, of old code it
is a hypothesis. An allowance is granted by a message of its owner, and none of the
old contracts sends one in its own name (the taxed ones send themselves transfers
only), so what is left out is a store that no old code would leave. To the ledger, a
migration is a step that moves nothing.

**Taxes.** The net amount is a division rounded up and the tax is the rest. `NetIsRest`
shows that rest to be the rate's product rounded down (`Share`), by the uniqueness of
the quotient (`DivIs`). Of two shares and the share of the sum one then only needs
`One * Share <= rate * amount < One * Share + One` (`SharesAdd`, `NextShare`), which is
linear once the products are named. That a part of an accepted amount is accepted
(`PartAccepted`) is where an unvalidated rate matters: acceptance of any amount but 0
implies a rate up to `One`.

**Initial accounts.** `AInv` says of the rows done that they are saved and of accounts
without a row that they have nothing; `ValidAccounts` makes the account of the next
row one of those, so the sum grows by the amount (`TotalOfUpdate`).

**The ledger.** The argument is a balance sheet. What a step changes in the worth of
an account is what it changes in its balance and in the pending forwards to it
(`ReturnShifts`). `EInv` gives that the contract is never worth less than nothing.
Then there is one lemma per kind of step: payments and taxed forwards are `Pay`,
mints and burns their namesakes, `Fail` is `Undo`, the rest is `Rest` or a stutter.
That the ledger adds up is a fact about the ledger alone: `LInv` says so of what it has
now and of what `Undo` brings back, and `Pay` takes what it gives (`SplitMoves`, where
payer, payee and wallet may be one).

**The listings.** `Caught`: of the keys that were there throughout, the client has
exactly those up to the key it stopped at. A page takes the least keys after that
one (`LeastKey`, from the well-foundedness of the naturals), so it leaves no gap.
The next page begins after the last key of this one, so the addresses up to it are
past for good, whether or not their entries are set again (`ListingAdvances`).
That holders have entries is an invariant with `IInv`: every handler that credits an
address touches it.

The assumptions are those of the modules: `RatesAssumption` (`One` is positive),
`ChainAssumption` (accounts are finite, sentinels are no values),
`MessagesAssumption` (only the contract sends as itself, the inputs are well
typed), `MigrationAssumption` (what stores old code leaves), `QueriesAssumption`
(keys are ordered, pages are not empty), `SharesAssumption`, `AccountsAssumption` and
`MarketingAssumption` (inputs are well typed). TLC evaluates them in every run of their modules. The sum is
defined by counting (`Units`), since a recursive sum is out of the prover's reach;
`MCCw20Taxed` states as an assumption, which TLC evaluates, that it equals the
folded sum on a small domain.

Only model-checked: `TxEnds` and `ListingEnds`, since liveness under fairness is
beyond the prover. What makes them true is proved: by `RunsDown` and `ListingAdvances`
each step lowers a number, and `reactions` is bounded by `MaxReactions`. Left to
TLC is the conclusion, that a step which is always possible is taken until the number
is used up. Only model-checked are also the replays (`Observations`, `Outcomes`), which
are about 82 particular scripts.

## Coverage

`PROJECT.json` maps definitions to lines of the implementation, about nine tenths of
them. A large part of that is the unit tests, which live in the source files: the
scripts of the replays map to them. What they say is checked (`replays`), but it is
no further behaviour of the contract; the contract's own code is what the other
modules map to.

## Not modelled, and what is left

* Failures caught by contracts (`reply_on_error`): a savepoint per call in place of
  one `committed`. The token's handlers would stay as they are; the invariants
  about `committed` would have to hold of every savepoint.
* The order of transactions of several blocks beyond heights: `AtTime` expirations.

Left out for good: JSON and schema generation, errors' wording and kinds,
attributes of responses, the bytes of logos, the scripts that build and publish,
the deploy script apart from its tax map, gas and everything else the chain does.
Of the unit tests, those of attributes, `test_whale_info_is_allowed` (a list
lookup), and the snapshot test of `state.rs`, which tests a library.
