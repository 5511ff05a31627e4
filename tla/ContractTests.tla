---------------------------- MODULE ContractTests ----------------------------
(***************************************************************************)
(* The unit tests of contract.rs as scripts of Replays, except those of the*)
(* marketing module.  The lists of initial balances have one account.      *)
(***************************************************************************)
EXTENDS Replays

\* do_instantiate_with_tax_on_transfer, _on_send: ten percent to "proceeds".
TaxedTransfer(a, n) ==
    Instantiated(Only(a, n), None,
        MapOf(FlatTax, DefaultTaxInfo, DefaultTaxInfo, DefaultTaxInfo, NoAddr), None)
TaxedSend(a, n) ==
    Instantiated(Only(a, n), None,
        MapOf(DefaultTaxInfo, DefaultTaxInfo, FlatTax, DefaultTaxInfo, NoAddr), None)

\* do_instantiate_with_whale_info: nobody has more than a quarter.
Whale25 == Whale(25, {"whale1", "whale2"}, "whale_admin")
NoWhales(a, n) == Instantiated(Only(a, n), None, None, Whale25)

-----------------------------------------------------------------------------
\* instantiate

basic ==
    Script(Plain("addr0000", 11223344), <<Supply(11223344), Balance("addr0000", 11223344)>>, <<>>)

mintable ==
    Script(Minted("addr0000", 11223344, "asmodat", 511223344),
           <<Supply(11223344), Balance("addr0000", 11223344),
             Minting([minter |-> "asmodat", cap |-> 511223344])>>, <<>>)

instantiate_multiple_accounts ==
    LET two == [Only("addr0001", 11223344) EXCEPT !["addr0002"] = 7890987]
    IN  Script(Instantiated(two, None, None, None),
               <<Supply(11223344 + 7890987), Balance("addr0001", 11223344),
                 Balance("addr0002", 7890987)>>, <<>>)

queries_work ==
    Script(Plain("addr0001", 12340000),
           <<Supply(12340000), Balance("addr0001", 12340000), Balance("addr0002", 0)>>, <<>>)

-----------------------------------------------------------------------------
\* mint, update_minter

can_mint_by_minter ==
    Script(Minted("genesis", 11223344, "asmodat", 511223344), <<>>,
        <<Ok(MintOf("asmodat", "lucky", 222222222),
             <<Returned(<<>>), Balance("genesis", 11223344), Balance("lucky", 222222222)>>),
          Ok(MintOf("asmodat", "lucky", 0), <<>>),
          Err(MintOf("asmodat", "lucky", 333222222), <<>>)>>)

others_cannot_mint ==
    Script(Minted("genesis", 1234, "minter", None), <<>>,
        <<Err(MintOf("anyone else", "lucky", 222), <<>>)>>)

minter_can_update_minter_but_not_cap ==
    Script(Minted("genesis", 1234, "minter", 3000000), <<>>,
        <<Ok(UpdateMinterOf("minter", "new_minter"),
             <<Minting([minter |-> "new_minter", cap |-> 3000000])>>)>>)

others_cannot_update_minter ==
    Script(Minted("genesis", 1234, "minter", None), <<>>,
        <<Err(UpdateMinterOf("not the minter", "new_minter"), <<>>)>>)

unset_minter ==
    Script(Minted("genesis", 1234, "minter", None), <<>>,
        <<Ok(UpdateMinterOf("minter", None), <<Minting(None)>>),
          Err(MintOf("minter", "lucky", 222), <<>>)>>)

no_one_mints_if_minter_unset ==
    Script(Plain("genesis", 1234), <<>>, <<Err(MintOf("genesis", "lucky", 222), <<>>)>>)

-----------------------------------------------------------------------------
\* set_tax_map, set_tax_admin

mock_valid_tax_map(admin) == MapOf(FlatTax, DefaultTaxInfo, FlatTax, DefaultTaxInfo, admin)
mock_invalid_tax_map(admin) ==
    MapOf(Info(Always(110), Always(110), "proceeds"), DefaultTaxInfo, FlatTax, DefaultTaxInfo, admin)

AdminsMap == mock_valid_tax_map("admin")
Administered(facts, calls) ==
    Script(Instantiated(Only("addr0001", 12340000), None, AdminsMap, None), facts, calls)

can_set_valid_tax_map == Administered(<<Rule(ValidTaxMap(AdminsMap), TRUE)>>, <<>>)

cannot_set_tax_map_if_not_admin ==
    Administered(<<>>, <<Err(SetTaxMapOf("creator", AdminsMap), <<>>)>>)

can_set_valid_tax_map_if_admin ==
    Administered(<<>>, <<Ok(SetTaxMapOf("admin", AdminsMap), <<>>)>>)

cannot_set_invalid_tax_map_if_admin ==
    Administered(<<>>, <<Err(SetTaxMapOf("admin", mock_invalid_tax_map("admin")), <<>>)>>)

ensure_setting_empty_tax_map_preserves_admin ==
    Administered(<<>>, <<Ok(SetTaxMapOf("admin", None),
                            <<Taxes([DefaultTaxMap EXCEPT !.admin = "admin"])>>)>>)

tax_admin_can_update_tax_admin ==
    Administered(<<>>, <<Ok(SetTaxAdminOf("admin", "new_admin"),
                            <<Taxes(mock_valid_tax_map("new_admin"))>>)>>)

others_cannot_update_tax_admin ==
    Administered(<<>>, <<Err(SetTaxAdminOf("not_admin", "new_admin"), <<Taxes(AdminsMap)>>)>>)

ensure_sound_setting_of_empty_tax_admin ==
    Administered(<<>>, <<Ok(SetTaxAdminOf("admin", None), <<Taxes(mock_valid_tax_map(NoAddr))>>)>>)

-----------------------------------------------------------------------------
\* transfer, burn, send

\* What a payment of 76543 leaves of 12340000.
Untaxed(payee) ==
    <<Balance("addr0001", 12340000 - 76543), Balance(payee, 76543), Supply(12340000)>>

transfer ==
    Script(Plain("addr0001", 12340000), <<>>,
        <<Ok(TransferOf("addr0001", "addr0002", 0), <<>>),
          Err(TransferOf("addr0001", "addr0002", 12340321), <<>>),
          Err(TransferOf("addr0002", "addr0001", 76543), <<>>),
          Ok(TransferOf("addr0001", "addr0002", 76543),
             <<Returned(<<>>)>> \o Untaxed("addr0002"))>>)

transfer_with_tax ==
    Script(TaxedTransfer("addr0001", 12340000), <<Supply(12340000)>>,
        <<Ok(TransferOf("addr0001", "addr0002", 76543),
             <<Returned(<<TransferOf("cosmos2contract", "proceeds", 7654)>>)>>
             \o TaxedPayment("addr0001", "addr0002", 7654, 0))>>)

burn ==
    Script(Plain("addr0001", 12340000), <<>>,
        <<Ok(BurnOf("addr0001", 0), <<Supply(12340000)>>),
          Err(BurnOf("addr0001", 12340321), <<Supply(12340000)>>),
          Ok(BurnOf("addr0001", 76543),
             <<Returned(<<>>), Balance("addr0001", 12340000 - 76543),
               Supply(12340000 - 76543)>>)>>)

send ==
    Script(Plain("addr0001", 12340000), <<>>,
        <<Ok(SendOf("addr0001", "addr0002", 0), <<>>),
          Err(SendOf("addr0001", "addr0002", 12340321), <<>>),
          Ok(SendOf("addr0001", "addr0002", 76543),
             <<Returned(<<Notify("addr0002", "addr0001", 76543)>>)>> \o Untaxed("addr0002"))>>)

send_with_tax ==
    LET forward == TransferOf("cosmos2contract", "proceeds", 7654)
    IN  Script(TaxedSend("addr0001", 12340000), <<Supply(12340000)>>,
               <<Ok(SendOf("addr0001", "addr0002", 76543),
                    <<Returned(<<Notify("addr0002", "addr0001", 68889), forward>>)>>
                    \o TaxedPayment("addr0001", "addr0002", 7654, 0)),
                 Ok(forward,
                    <<Returned(<<>>)>> \o TaxedPayment("addr0001", "addr0002", 0, 7654))>>)

-----------------------------------------------------------------------------
\* Whales: the tests of send are those of transfer with the other endpoint, whose
\* message to the recipient is `notify`.

SuccessivePayments(Pay(_, _), notify) ==
    LET pay == Pay("addr0002", 100000)
    IN  Script(NoWhales("addr0001", 1000000), <<>>,
               <<Ok(pay, <<Returned(notify), Balance("addr0002", 100000)>>),
                 Ok(pay, <<Returned(notify), Balance("addr0002", 200000)>>),
                 Err(pay, <<>>)>>)
WhalePayment(pay) == Script(NoWhales("addr0001", 1000000), <<>>, <<Err(pay, <<>>)>>)
AllowedPayment(pay) ==
    Script(NoWhales("addr0001", 1000000), <<>>, <<Ok(pay, <<Balance("whale1", 300000)>>)>>)

transfer_successive_with_whale_info ==
    SuccessivePayments(LAMBDA r, n : TransferOf("addr0001", r, n), <<>>)
transfer_single_with_whale_info == WhalePayment(TransferOf("addr0001", "addr0002", 300000))
transfer_single_to_allowed_whale_with_whale_info ==
    AllowedPayment(TransferOf("addr0001", "whale1", 300000))

send_successive_with_whale_info ==
    SuccessivePayments(LAMBDA r, n : SendOf("addr0001", r, n),
                       <<Notify("addr0002", "addr0001", 100000)>>)
send_single_with_whale_info == WhalePayment(SendOf("addr0001", "addr0002", 300000))
send_single_to_allowed_whale_with_whale_info ==
    AllowedPayment(SendOf("addr0001", "whale1", 300000))

-----------------------------------------------------------------------------
\* migrate

test_migrate ==
    Script(Plain("sender", 100), <<Paged(OwnedBy("sender", None), None, {})>>,
        <<Ok(IncreaseOf("sender", "spender", 7777, 123456), <<>>),
          Ok(MigrateTo(None, None),
             <<Balance("sender", 100),
               Paged(SpentBy("spender", None), None, {<<"sender", 7777, 123456>>})>>)>>)

\* mock_dependencies_with_terraport_balances: the later height counts.
Terraport ==
    [contract_info |-> [contract |-> "terraport-token", version |-> <<0, 0, 0, 0>>],
     balances |-> [x \in Addr |-> CASE x = "addr1" -> 1233 [] x = "addr2" -> 1235
                                    [] x = "addr3" -> 4455 [] OTHER -> 0],
     mint |-> None, tax_map |-> None, whale_info |-> None, marketing |-> None]

FromTerraport(msg, facts) ==
    Script(Terraport, <<>>,
           <<Ok(msg, <<Balance("addr1", 1233), Balance("addr2", 1235)>> \o facts)>>)

test_migrate_from_terraport ==
    FromTerraport(MigrateTo(None, None), <<Taxes(DefaultTaxMap)>>)

test_migrate_from_terraport_with_explicit_tax_map ==
    LET tax == MapOf(Info(NoTax, NoTax, "proceeds1"), Info(NoTax, NoTax, "proceeds2"),
                     Info(NoTax, NoTax, "proceeds3"), Info(Always(1), NoTax, "proceeds4"), "admin")
    IN  FromTerraport(MigrateTo(tax, None), <<Taxes(tax)>>)

test_migrate_from_terraport_with_new_token_info ==
    LET mint == [minter |-> "minter", cap |-> 10000]
    IN  FromTerraport(MigrateTo(None, [mint |-> mint]), <<Minting(mint), Supply(6923)>>)
=============================================================================
