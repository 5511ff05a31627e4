------------------------------ MODULE RuleTests ------------------------------
(***************************************************************************)
(* The unit tests of tax.rs, whale.rs, state.rs and msg.rs, and the refused*)
(* instantiations of contract.rs.  Most ask a rule that reads no state:    *)
(* their token does not matter.                                            *)
(***************************************************************************)
EXTENDS Replays, Instantiation

RulesOf(facts) == Script(Plain("addr1", 1), facts, <<>>)

-----------------------------------------------------------------------------
\* tax.rs: "0", "1" and "2" are contracts, of that code id.

Listed == [kind |-> "ContractCode", code_ids |-> {0, 1}, tax_rate |-> 10]

test_tax_condition_is_taxed ==
    RulesOf(<<Rule(IsTaxed(NoTax, "0"), FALSE),
              Rule({a \in {"0", "1", "2", "3"} : IsTaxed(Listed, a)}, {"0", "1"}),
              Rule({a \in {"0", "1", "2", "3"} : IsTaxed(Always(10), a)},
                   {"0", "1", "2", "3"})>>)

test_tax_condition_tax_rate ==
    RulesOf(<<Rule(TaxRate(NoTax, "0"), 0),
              Rule([a \in {"0", "1", "2", "3"} |-> TaxRate(Listed, a)],
                   [a \in {"0", "1", "2", "3"} |-> IF a \in {"0", "1"} THEN 10 ELSE 0]),
              Rule([a \in {"0", "1", "2", "3"} |-> TaxRate(Always(10), a)],
                   [a \in {"0", "1", "2", "3"} |-> 10])>>)

test_tax_info_deduct_tax ==
    LET Deducted(src, dst, from, to, net, tax) ==
            Rule(DeductTax(Info(src, dst, "0"), from, to, 100), Split(net, tax))
    IN  RulesOf(<<Deducted(NoTax, NoTax, "0", "1", 100, 0),
                  Deducted(Listed, Always(10), "1", "0", 100, 0),
                  Deducted(Listed, Always(10), "0", "1", 90, 10),
                  Deducted(Listed, Always(10), "2", "2", 100, 0),
                  Deducted(Listed, Always(10), "3", "2", 100, 0),
                  Deducted(Always(10), Always(10), "1", "0", 100, 0),
                  Deducted(Always(10), Always(10), "1", "2", 90, 10),
                  Deducted(Always(10), Always(10), "2", "1", 90, 10),
                  Deducted(Always(10), Always(10), "3", "2", 90, 10)>>)

test_tax_condition_validate ==
    RulesOf(<<Rule(ValidCondition(Always(110)), FALSE), Rule(ValidCondition(Always(10)), TRUE),
              Rule(ValidCondition(NoTax), TRUE)>>)

Rated(src, dst) == Info(Always(src), Always(dst), "blubb")

test_tax_info_validate ==
    RulesOf(<<Rule(ValidTaxInfo(Rated(110, 10)), FALSE), Rule(ValidTaxInfo(Rated(110, 110)), FALSE),
              Rule(ValidTaxInfo(Rated(11, 110)), FALSE), Rule(ValidTaxInfo(Rated(11, 10)), TRUE)>>)

test_tax_map_validate ==
    LET valid == Rated(11, 10)
    IN  RulesOf(<<Rule(ValidTaxMap(MapOf(valid, valid, valid, valid, NoAddr)), TRUE),
                  Rule(ValidTaxMap(MapOf(valid, valid, Rated(110, 10), valid, NoAddr)), FALSE)>>)

-----------------------------------------------------------------------------
\* whale.rs; amounts in millions.

\* A token with a whale policy.
Guarded(info, facts, calls) ==
    Script(Instantiated(Only("creator", 1000000), None, None, info), facts, calls)

\* validate is part of set_whale_info: a policy is set or refused.
Replaced(threshold, ok) ==
    LET call == SetWhaleInfoOf("admin", Whale(threshold, {}, "admin"))
    IN  IF ok THEN Ok(call, <<Whales(call.whale_info)>>) ELSE Err(call, <<>>)
test_whale_info_validate ==
    Guarded(Whale(100, {}, "admin"), <<>>,
            <<Replaced(0, TRUE), Replaced(100, TRUE), Replaced(50, TRUE), Replaced(110, FALSE)>>)

Allowing(admin) == Whale(10, {"addr1", "addr2"}, admin)

test_whale_info_assert_no_whale ==
    Guarded(Allowing("admin"),
            <<WhaleChecked("addr1", 110000, TRUE), WhaleChecked("addr2", 110000, TRUE),
              WhaleChecked("addr1", 10000, TRUE), WhaleChecked("addr2", 10000, TRUE),
              WhaleChecked("addr3", 110000, FALSE), WhaleChecked("addr3", 10000, TRUE)>>, <<>>)

TwoWhales(admin) == Whale(10, {"whale1", "whale2"}, admin)

test_set_whale_info_works ==
    Guarded(Whale(100, {}, "admin"), <<>>,
            <<Ok(SetWhaleInfoOf("admin", TwoWhales("admin")), <<Whales(TwoWhales("admin"))>>)>>)

test_set_whale_info_rejects_no_admin ==
    Guarded(Whale(100, {}, "admin"), <<>>,
            <<Err(SetWhaleInfoOf("no_admin", TwoWhales("admin")), <<>>)>>)

test_set_whale_admin ==
    Guarded(TwoWhales("admin"), <<>>,
            <<Ok(SetWhaleAdminOf("admin", "admin2"), <<Whales(TwoWhales("admin2"))>>)>>)

test_set_whale_admin_unauthorized ==
    Guarded(TwoWhales("admin"), <<>>, <<Err(SetWhaleAdminOf("no_admin", "admin2"), <<>>)>>)

-----------------------------------------------------------------------------
\* state.rs

TokenOf(contract, version) == [contract |-> contract, version |-> version]

test_is_terraport_token_v0 ==
    LET Is(contract, version, answer) ==
            Rule(IsFactoryToken(TokenOf(contract, version)), answer)
    IN  RulesOf(<<Is("cw20-base", <<1, 0, 6, 0>>, FALSE), Is("cw20-base", <<0, 0, 0, 0>>, FALSE),
                  Is("terraport-token", <<0, 0, 0, 0>>, TRUE),
                  Is("terraport-token", <<1, 0, 0, 0>>, FALSE)>>)

test_is_terraswap_token_v0 ==
    LET Is(contract, version, answer) ==
            Rule(IsFactoryToken(TokenOf(contract, version)), answer)
    IN  RulesOf(<<Is("cw20-base", <<1, 0, 6, 0>>, FALSE), Is("cw20-base", <<0, 0, 0, 0>>, FALSE),
                  Is("terraswap-token", <<0, 0, 0, 0>>, TRUE),
                  Is("terraswap-token", <<1, 0, 0, 0>>, FALSE)>>)

test_is_cw20_base_1_0_1 ==
    LET Is(version, answer) == Rule(IsOldBase(TokenOf("cw20-base", version)), answer)
    IN  RulesOf(<<Is(<<1, 0, 6, 0>>, FALSE), Is(<<1, 0, 1, 0>>, TRUE), Is(<<1, 0, 0, 0>>, FALSE)>>)

-----------------------------------------------------------------------------
\* msg.rs: a name of n bytes; a symbol of n times the byte c.

Times(n, c) == [i \in 1 .. n |-> c]

validate_instantiatemsg_name ==
    RulesOf(<<Rule(HasValidName(2), FALSE), Rule(HasValidName(3), TRUE),
              Rule(HasValidName(51), FALSE)>>)

validate_instantiatemsg_symbol ==
    LET Valid(n, c, answer) == Rule(HasValidSymbol(Times(n, c)), answer)
    IN  RulesOf(<<Valid(2, 97, FALSE), Valid(3, 97, TRUE), Valid(13, 97, FALSE),
                  Valid(3, 64, FALSE), Valid(3, 91, FALSE), Valid(3, 123, FALSE)>>)

-----------------------------------------------------------------------------
\* contract.rs: instantiations that are refused; amounts in hundreds, rounded up.

InstantiatedWith(n, mint, tax_map) ==
    [creator |-> "creator", initial_balances |-> Only("addr0000", n), mint |-> mint,
     tax_map |-> tax_map, whale_info |-> None]

mintable_over_cap ==
    LET mint == [minter |-> "asmodat", cap |-> 112233]
    IN  RulesOf(<<Rule(InstantiateOk(InstantiatedWith(112234, mint, None)), FALSE)>>)

cannot_instantiate_with_invalid_tax_map ==
    LET invalid == MapOf(Rated(110, 110), DefaultTaxInfo, Rated(10, 10), DefaultTaxInfo, "admin")
    IN  RulesOf(<<Rule(InstantiateOk(InstantiatedWith(123400, None, invalid)), FALSE)>>)

\* The first half of instantiate_multiple_accounts.
duplicate_accounts ==
    LET Coins(a, b) == <<[address |-> a, amount |-> 112234], [address |-> b, amount |-> 78910]>>
    IN  RulesOf(<<Rule(ValidAccounts(Coins("addr0001", "addr0001")), FALSE),
                  Rule(ValidAccounts(Coins("addr0001", "addr0002")), TRUE)>>)
=============================================================================
