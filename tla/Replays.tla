------------------------------ MODULE Replays ------------------------------
(***************************************************************************)
(* The unit tests of the repository, replayed on the model.  A test        *)
(* prepares a token, calls its entry points one after the other, and       *)
(* asserts which calls fail, what they return and what the queries answer  *)
(* then.  A call is a step of a component; the messages it returns do not  *)
(* run, as nothing runs them in a unit test.  Two properties compare the   *)
(* model with the assertions.  The tests are in the modules AllowanceTests,*)
(* ContractTests, MarketingTests and RuleTests.                            *)
(***************************************************************************)
EXTENDS Migration, Queries, Forms
LOCAL INSTANCE Functions

CONSTANT Tests  \* the replayed tests: a record with one script per test

VARIABLES
    test,       \* the test that runs
    at,         \* the number of calls made
    answered,   \* the last call has returned
    marketing_info, logo    \* those of Marketing

marketing_vars == <<marketing_info, logo>>
replay_vars == <<query_vars, contract_info, test, at, answered, marketing_vars>>

Market == INSTANCE Marketing
    WITH Blank <- "", Texts <- {}, LOGO_SIZE_CAP <- 5120, Logos <- {}, Instantiations <- {}

-----------------------------------------------------------------------------
\* Scripts.  Rates are percents (One is 100); a test starts at the height 12345.

HEIGHT == 12345

\* A call, whether it succeeds, and the facts asserted after it.
CallAt(block, msg, ok, facts) == [height |-> block, msg |-> msg, ok |-> ok, facts |-> facts]
Ok(msg, facts) == CallAt(HEIGHT, msg, TRUE, facts)
Err(msg, facts) == CallAt(HEIGHT, msg, FALSE, facts)
MigrateTo(tax_map, new_info) ==
    [op |-> "migrate", tax_map |-> tax_map, whale_info |-> None, new_info |-> new_info]

UpdateMarketingOf(s, project, description, marketing) ==
    [op |-> "update_marketing", sender |-> s, project |-> project,
     description |-> description, marketing |-> marketing]
UploadLogoOf(s, l) == [op |-> "upload_logo", sender |-> s, logo |-> l]

\* A token, the facts asserted of it before any call, and the calls.
Script(token, facts, calls) == [token |-> token, facts |-> facts, calls |-> calls]

\* What a test asserts.
Fact(of, key, is) == [of |-> of, key |-> key, is |-> is]
Balance(a, n) == Fact("balance", a, n)
Supply(n) == Fact("supply", None, n)
Minting(mint) == Fact("mint", None, mint)
Allowed(owner, spender, n, expires) ==
    Fact("allowance", <<owner, spender>>, [allowance |-> n, expires |-> expires])
NotAllowed(owner, spender) == Allowed(owner, spender, 0, Never)
Taxes(tax_map) == Fact("tax_map", None, tax_map)
Whales(info) == Fact("whale_info", None, info)
Returned(msgs) == Fact("messages", None, msgs)
WhaleChecked(a, n, ok) == Fact("assert_no_whale", <<a, n>>, ok)

Marketed(record) == Fact("marketing_info", None, record)
Downloaded(l) == Fact("download_logo", None, l)

\* The next page of a listing: accounts, or <<address, amount, expiration>>.
Paged(l, start, entries) == Fact("page", <<l, start>>, entries)
OwnedBy(a, limit) == [of |-> "owner", address |-> a, limit |-> limit]
SpentBy(a, limit) == [of |-> "spender", address |-> a, limit |-> limit]
AllAccounts(limit) == [of |-> "accounts", limit |-> limit]

\* What a rule without state answers: TRUE or FALSE, a rate, the halves of a payment.
Rule(answer, expected) == Fact("rule", answer, expected)

EntriesOf(l, start) ==
    LET keys == Page(KeysOf(l, Store, accounts.now), start, l.limit)
        Shown(a, entry) == <<a, entry.allowance, entry.expires>>
    IN  CASE l.of = "owner" -> {Shown(a, allowances[<<l.address, a>>]) : a \in keys}
          [] l.of = "spender" -> {Shown(a, allowances_spender[<<l.address, a>>]) : a \in keys}
          [] l.of = "accounts" -> keys

Queried(f) ==
    CASE f.of = "balance" -> QueryBalance(f.key)
      [] f.of = "supply" -> QueryTotalSupply
      [] f.of = "mint" -> QueryMinter
      [] f.of = "allowance" -> QueryAllowance(f.key[1], f.key[2])
      [] f.of = "tax_map" -> tax_info
      [] f.of = "whale_info" -> whale_info
      [] f.of = "messages" -> pending
      [] f.of = "page" -> EntriesOf(f.key[1], f.key[2])
      [] f.of = "assert_no_whale" -> WhaleOk(f.key[1], f.key[2])
      [] f.of = "marketing_info" -> Market!QueryMarketingInfo
      [] f.of = "download_logo" -> Market!QueryDownloadLogo
      [] f.of = "rule" -> f.key

-----------------------------------------------------------------------------
\* Tokens.

Only(a, n) == [x \in Addr |-> IF x = a THEN n ELSE 0]

\* instantiate, without its checks, by "creator"; no policy given: the default.
Instantiated(initial, mint, tax_map, whale) ==
    [contract_info |-> Current, balances |-> initial, mint |-> mint,
     tax_map |-> OrElse(tax_map, DefaultTaxMap),
     whale_info |-> OrElse(whale, DefaultWhaleInfo("creator")), marketing |-> None]

\* do_instantiate and do_instantiate_with_minter
Plain(a, n) == Instantiated(Only(a, n), None, None, None)
Minted(a, n, minter, cap) ==
    Instantiated(Only(a, n), [minter |-> minter, cap |-> cap], None, None)

\* Ten percent of everything to the wallet "proceeds".
FlatTax == Info(Always(10), Always(10), "proceeds")

\* The message of the recipient contract: from `a`, of n tokens.
Notify(contract, a, n) == [op |-> "receive", contract |-> contract, from |-> a, amount |-> n]

\* What a taxed payment of 76543 out of 12340000 leaves, the tax being parked in the
\* contract or forwarded to the proceeds wallet.
TaxedPayment(payer, payee, parked, forwarded) ==
    <<Balance(payer, 12340000 - 76543), Balance(payee, 68889),
      Balance("cosmos2contract", parked), Balance("proceeds", forwarded), Supply(12340000)>>

-----------------------------------------------------------------------------
\* The run of a test.

ReplayInit ==
    /\ test \in DOMAIN Tests
    /\ LET token == Tests[test].token
       IN  /\ contract_info = token.contract_info
           /\ balances = token.balances
           /\ token_info = [total_supply |-> SumFunction(token.balances), mint |-> token.mint]
           /\ tax_info = token.tax_map
           /\ whale_info = token.whale_info
           /\ Market!InitWith(token.marketing)
    /\ allowances = [k \in Addr \X Addr |-> None]
    /\ allowances_spender = [k \in Addr \X Addr |-> None]
    /\ accounts = LET holders == {a \in Addr : balances[a] > 0}
                  IN  [now |-> holders, saved |-> holders]
    /\ committed = Store
    /\ pending = <<>> /\ reactions = 0 /\ height = HEIGHT
    /\ listing = None /\ start_after = None /\ listed = {} /\ throughout = {}
    /\ complete = FALSE
    /\ at = 0
    /\ answered = TRUE

Calls == Tests[test].calls
TheCall == Calls[at]

\* What no action of Cw20Taxed handles.
Elsewhere == {"migrate", "update_marketing", "upload_logo"}

\* The next call of the test; what the last one returned is dropped.
Call ==
    /\ answered /\ at < Len(Calls)
    /\ answered' = FALSE
    /\ at' = at + 1
    /\ height' = Calls[at + 1].height
    /\ pending' = IF Calls[at + 1].msg.op \in Elsewhere THEN <<>> ELSE <<Calls[at + 1].msg>>
    /\ accounts' = [accounts EXCEPT !.saved = accounts.now]
    /\ UNCHANGED <<store, contract_info, reactions, client_vars, test, marketing_vars>>
    /\ committed' = Store

ExecuteMarketing(m) ==
    \/ /\ m.op = "update_marketing"
       /\ Market!UpdateMarketing(m.sender, m.project, m.description, m.marketing)
    \/ m.op = "upload_logo" /\ Market!UploadLogo(m.sender, m.logo)

FailMarketing(m) ==
    /\ m.op \in {"update_marketing", "upload_logo"}
    /\ m.op = "update_marketing" => ~Market!UpdateMarketingOk(m.sender, m.marketing)
    /\ m.op = "upload_logo" => ~Market!UploadLogoOk(m.sender, m.logo)
    /\ UNCHANGED marketing_vars

Answer ==
    /\ ~answered
    /\ answered' = TRUE
    /\ \/ Execute /\ EntriesTouched /\ UNCHANGED <<contract_info, marketing_vars>>
       \/ /\ Fail
          /\ accounts' = [accounts EXCEPT !.now = accounts.saved]
          /\ UNCHANGED <<contract_info, marketing_vars>>
       \/ /\ TheCall.msg.op = "migrate" /\ Migrate(TheCall.msg)
          /\ UNCHANGED <<accounts, marketing_vars>>
       \/ /\ ExecuteMarketing(TheCall.msg) \/ FailMarketing(TheCall.msg)
          /\ UNCHANGED <<vars, accounts, contract_info>>
    /\ UNCHANGED <<client_vars, test, at>>

\* A test that is over.
Over == answered /\ at = Len(Calls) /\ UNCHANGED replay_vars

ReplayNext == Call \/ Answer \/ Over

ReplaySpec == ReplayInit /\ [][ReplayNext]_replay_vars

-----------------------------------------------------------------------------
\* Properties.

\* The calls that fail are the ones the tests expect to fail (unwrap, unwrap_err,
\* is_ok, is_err), over all calls of a test.
Outcomes == [][~answered => (TheCall.ok <=> ~Fail /\ ~FailMarketing(TheCall.msg))]_replay_vars

\* After every call the queries and the returned messages are what assert_eq says.
Facts == IF at = 0 THEN Tests[test].facts ELSE TheCall.facts
Observations == answered => \A i \in DOMAIN Facts : Queried(Facts[i]) = Facts[i].is
=============================================================================
