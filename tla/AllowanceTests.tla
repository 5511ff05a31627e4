--------------------------- MODULE AllowanceTests ---------------------------
(***************************************************************************)
(* The unit tests of allowances.rs and enumerable.rs as scripts of Replays.*)
(* A time is given as a height: as far from HEIGHT, on the same side.      *)
(***************************************************************************)
EXTENDS Replays

\* do_instantiate_with_tax_on_transfer_from, do_instantiate_with_tax_on_send_from
TaxedTransferFrom(a, n) ==
    Instantiated(Only(a, n), None,
        MapOf(DefaultTaxInfo, FlatTax, DefaultTaxInfo, DefaultTaxInfo, NoAddr), None)
TaxedSendFrom(a, n) ==
    Instantiated(Only(a, n), None,
        MapOf(DefaultTaxInfo, DefaultTaxInfo, DefaultTaxInfo, FlatTax, NoAddr), None)

transfer_from_with_tax ==
    LET forward == TransferOf("cosmos2contract", "proceeds", 7654)
    IN  Script(TaxedTransferFrom("addr0001", 12340000),
               <<Supply(12340000), Balance("addr0001", 12340000)>>,
               <<Ok(IncreaseOf("addr0001", "addr0000", 76543, None), <<>>),
                 Ok(TransferFromOf("addr0000", "addr0001", "addr0002", 76543),
                    <<Returned(<<forward>>)>> \o TaxedPayment("addr0001", "addr0002", 7654, 0)),
                 Ok(forward,
                    <<Returned(<<>>)>> \o TaxedPayment("addr0001", "addr0002", 0, 7654))>>)

send_from_with_tax ==
    LET forward == TransferOf("cosmos2contract", "proceeds", 7654)
    IN  Script(TaxedSendFrom("addr0001", 12340000),
               <<Supply(12340000), Balance("addr0001", 12340000)>>,
               <<Ok(IncreaseOf("addr0001", "addr0000", 76543, None), <<>>),
                 Ok(SendFromOf("addr0000", "addr0001", "addr0002", 76543),
                    <<Returned(<<Notify("addr0002", "addr0000", 68889), forward>>)>>
                    \o TaxedPayment("addr0001", "addr0002", 7654, 0)),
                 Ok(forward,
                    <<Returned(<<>>)>> \o TaxedPayment("addr0001", "addr0002", 0, 7654))>>)

\* The far future, and more than any allowance (the test's 99988647623876347).
LATER == 88888888
PLENTY == 999999999

increase_decrease_allowances ==
    Script(Plain("addr0001", 12340000), <<NotAllowed("addr0001", "addr0002")>>,
        <<Ok(IncreaseOf("addr0001", "addr0002", 7777, 123456),
             <<Allowed("addr0001", "addr0002", 7777, 123456)>>),
          Ok(DecreaseOf("addr0001", "addr0002", 4444, None),
             <<Allowed("addr0001", "addr0002", 3333, 123456)>>),
          Ok(IncreaseOf("addr0001", "addr0002", 87654, LATER),
             <<Allowed("addr0001", "addr0002", 90987, LATER)>>),
          Ok(DecreaseOf("addr0001", "addr0002", PLENTY, None),
             <<NotAllowed("addr0001", "addr0002")>>)>>)

allowances_independent ==
    LET one == Allowed("addr0001", "addr0002", 7777, 123456)
        two == Allowed("addr0001", "addr0003", 87654, Never)
    IN  Script(Plain("addr0001", 12340000),
               <<NotAllowed("addr0001", "addr0002"), NotAllowed("addr0001", "addr0003"),
                 NotAllowed("addr0002", "addr0003")>>,
               <<Ok(IncreaseOf("addr0001", "addr0002", 7777, 123456), <<>>),
                 Ok(IncreaseOf("addr0001", "addr0003", 87654, None),
                    <<one, two, NotAllowed("addr0002", "addr0003")>>),
                 Ok(IncreaseOf("addr0002", "addr0003", 1821, LATER),
                    <<one, two, Allowed("addr0002", "addr0003", 1821, LATER)>>)>>)

no_self_allowance ==
    Script(Plain("addr0001", 12340000), <<>>,
        <<Err(IncreaseOf("addr0001", "addr0001", 7777, None), <<>>),
          Err(DecreaseOf("addr0001", "addr0001", 7777, None), <<>>)>>)

\* The three tests *_respects_limits differ in the endpoint, `Spend` by amount: part
\* of the allowance, more than is left, and what is left once it has expired.
RespectsLimits(Spend(_), paid) ==
    Script(Plain("addr0001", 999999), <<>>,
        <<Ok(IncreaseOf("addr0001", "addr0002", 77777, None), <<>>),
          Ok(Spend(44444),
             paid \o <<Balance("addr0001", 999999 - 44444),
                       Allowed("addr0001", "addr0002", 77777 - 44444, Never)>>),
          Err(Spend(33443), <<>>),
          Ok(IncreaseOf("addr0001", "addr0002", 1000, HEIGHT + 1), <<>>),
          CallAt(HEIGHT + 1, Spend(33443), FALSE, <<>>)>>)

transfer_from_respects_limits ==
    RespectsLimits(LAMBDA n : TransferFromOf("addr0002", "addr0001", "addr0003", n),
                   <<Balance("addr0003", 44444)>>)

burn_from_respects_limits ==
    RespectsLimits(LAMBDA n : BurnFromOf("addr0002", "addr0001", n), <<>>)

send_from_respects_limits ==
    RespectsLimits(LAMBDA n : SendFromOf("addr0002", "addr0001", "cool-dex", n),
                   <<Returned(<<Notify("cool-dex", "addr0002", 44444)>>),
                     Balance("cool-dex", 44444)>>)

no_past_expiration ==
    LET Grant(n, expires) == IncreaseOf("addr0001", "addr0002", n, expires)
    IN  Script(Plain("addr0001", 12340000), <<>>,
               <<Err(Grant(7777, HEIGHT), <<>>),
                 Err(Grant(7777, HEIGHT - 1), <<>>),
                 Ok(Grant(7777, HEIGHT + 1),
                    <<Allowed("addr0001", "addr0002", 7777, HEIGHT + 1)>>),
                 Ok(Grant(7777, HEIGHT + 10),
                    <<Allowed("addr0001", "addr0002", 15554, HEIGHT + 10)>>),
                 Err(Grant(7777, HEIGHT), <<>>),
                 Ok(DecreaseOf("addr0001", "addr0002", 7777, HEIGHT + 1),
                    <<Allowed("addr0001", "addr0002", 7777, HEIGHT + 1)>>)>>)

-----------------------------------------------------------------------------
\* enumerable.rs

query_all_owner_allowances_works ==
    LET earlier == <<"earlier", 7777, 123456>>
        later == <<"later", 54321, Never>>
    IN  Script(Plain("owner", 12340000), <<Paged(OwnedBy("owner", None), None, {})>>,
               <<Ok(IncreaseOf("owner", "earlier", 7777, 123456), <<>>),
                 Ok(IncreaseOf("owner", "later", 54321, None),
                    <<Paged(OwnedBy("owner", None), None, {earlier, later}),
                      Paged(OwnedBy("owner", 1), None, {earlier}),
                      Paged(OwnedBy("owner", 10000), "earlier", {later})>>)>>)

\* (The test instantiates a second time before the second owner's call.)
query_all_spender_allowances_works ==
    LET one == <<"owner1", 7777, 123456>>
        other == <<"owner2", 54321, Never>>
    IN  Script(Plain("owner1", 12340000), <<Paged(SpentBy("spender", None), None, {})>>,
               <<Ok(IncreaseOf("owner1", "spender", 7777, 123456), <<>>),
                 Ok(IncreaseOf("owner2", "spender", 54321, None),
                    <<Paged(SpentBy("spender", None), None, {one, other}),
                      Paged(SpentBy("spender", 1), None, {one}),
                      Paged(SpentBy("spender", 10000), "owner1", {other})>>)>>)

\* The contract is among the accounts: each transfer writes its entry, tax or not.
query_all_accounts_works ==
    Script(Plain("acct01", 12340000), <<>>,
        <<Ok(TransferOf("acct01", "zebra", 222222), <<>>),
          Ok(TransferOf("acct01", "nice", 333333), <<>>),
          Ok(TransferOf("acct01", "aaaardvark", 444444),
             <<Paged(AllAccounts(None), None,
                     {"aaaardvark", "acct01", "cosmos2contract", "nice", "zebra"}),
               Paged(AllAccounts(2), None, {"aaaardvark", "acct01"}),
               Paged(AllAccounts(1), "acct01", {"cosmos2contract"}),
               Paged(AllAccounts(777), "cosmos2contract", {"nice", "zebra"})>>)>>)
=============================================================================
