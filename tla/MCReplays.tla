----------------------------- MODULE MCReplays -----------------------------
(***************************************************************************)
(* All replayed tests, and the addresses they use, in the order of bytes.  *)
(***************************************************************************)
EXTENDS AllowanceTests, ContractTests, MarketingTests, RuleTests

ReplayAddrs ==
    <<"0", "1", "2", "3", "aaaardvark", "acct01", "addr0000", "addr0001", "addr0002", "addr0003",
      "addr1", "addr2", "addr3", "admin", "admin2", "anyone else", "asmodat", "blubb", "cool-dex",
      "cosmos2contract", "creator", "earlier", "genesis", "later", "lucky", "marketing", "minter",
      "new_admin", "new_minter", "nice", "no_admin", "not the minter", "not_admin", "owner",
      "owner1", "owner2", "proceeds", "proceeds1",
      "proceeds2", "proceeds3", "proceeds4", "sender", "spender", "whale1", "whale2", "whale_admin",
      "zebra">>

ReplayAddr == {ReplayAddrs[i] : i \in DOMAIN ReplayAddrs}
ReplayRank == [a \in ReplayAddr |-> CHOOSE i \in DOMAIN ReplayAddrs : ReplayAddrs[i] = a]

\* get_info of the tests of tax.rs: "0", "1", "2" are contracts.
ReplayCodeIdOf ==
    [a \in ReplayAddr |-> CASE a = "0" -> 0 [] a = "1" -> 1 [] a = "2" -> 2 [] OTHER -> None]

ReplayTests ==
    [transfer_from_with_tax |-> transfer_from_with_tax,
     send_from_with_tax |-> send_from_with_tax,
     increase_decrease_allowances |-> increase_decrease_allowances,
     allowances_independent |-> allowances_independent,
     no_self_allowance |-> no_self_allowance,
     transfer_from_respects_limits |-> transfer_from_respects_limits,
     burn_from_respects_limits |-> burn_from_respects_limits,
     send_from_respects_limits |-> send_from_respects_limits,
     no_past_expiration |-> no_past_expiration,
     query_all_owner_allowances_works |-> query_all_owner_allowances_works,
     query_all_spender_allowances_works |-> query_all_spender_allowances_works,
     query_all_accounts_works |-> query_all_accounts_works,
     basic |-> basic,
     mintable |-> mintable,
     instantiate_multiple_accounts |-> instantiate_multiple_accounts,
     queries_work |-> queries_work,
     can_mint_by_minter |-> can_mint_by_minter,
     others_cannot_mint |-> others_cannot_mint,
     minter_can_update_minter_but_not_cap |-> minter_can_update_minter_but_not_cap,
     others_cannot_update_minter |-> others_cannot_update_minter,
     unset_minter |-> unset_minter,
     no_one_mints_if_minter_unset |-> no_one_mints_if_minter_unset,
     can_set_valid_tax_map |-> can_set_valid_tax_map,
     cannot_set_tax_map_if_not_admin |-> cannot_set_tax_map_if_not_admin,
     can_set_valid_tax_map_if_admin |-> can_set_valid_tax_map_if_admin,
     cannot_set_invalid_tax_map_if_admin |-> cannot_set_invalid_tax_map_if_admin,
     ensure_setting_empty_tax_map_preserves_admin |-> ensure_setting_empty_tax_map_preserves_admin,
     tax_admin_can_update_tax_admin |-> tax_admin_can_update_tax_admin,
     others_cannot_update_tax_admin |-> others_cannot_update_tax_admin,
     ensure_sound_setting_of_empty_tax_admin |-> ensure_sound_setting_of_empty_tax_admin,
     transfer |-> transfer,
     transfer_with_tax |-> transfer_with_tax,
     burn |-> burn,
     send |-> send,
     send_with_tax |-> send_with_tax,
     transfer_successive_with_whale_info |-> transfer_successive_with_whale_info,
     transfer_single_with_whale_info |-> transfer_single_with_whale_info,
     transfer_single_to_allowed_whale_with_whale_info |-> transfer_single_to_allowed_whale_with_whale_info,
     send_successive_with_whale_info |-> send_successive_with_whale_info,
     send_single_with_whale_info |-> send_single_with_whale_info,
     send_single_to_allowed_whale_with_whale_info |-> send_single_to_allowed_whale_with_whale_info,
     test_migrate |-> test_migrate,
     test_migrate_from_terraport |-> test_migrate_from_terraport,
     test_migrate_from_terraport_with_explicit_tax_map |-> test_migrate_from_terraport_with_explicit_tax_map,
     test_migrate_from_terraport_with_new_token_info |-> test_migrate_from_terraport_with_new_token_info,
     instantiate_marketing |-> instantiate_marketing,
     invalid_marketing |-> invalid_marketing,
     update_unauthorised |-> update_unauthorised,
     update_project |-> update_project,
     clear_project |-> clear_project,
     update_description |-> update_description,
     clear_description |-> clear_description,
     update_marketing |-> update_marketing,
     update_marketing_invalid |-> update_marketing_invalid,
     clear_marketing |-> clear_marketing,
     update_logo_url |-> update_logo_url,
     update_logo_png |-> update_logo_png,
     update_logo_svg |-> update_logo_svg,
     update_logo_png_oversized |-> update_logo_png_oversized,
     update_logo_svg_oversized |-> update_logo_svg_oversized,
     update_logo_png_invalid |-> update_logo_png_invalid,
     update_logo_svg_invalid |-> update_logo_svg_invalid,
     test_tax_condition_is_taxed |-> test_tax_condition_is_taxed,
     test_tax_condition_tax_rate |-> test_tax_condition_tax_rate,
     test_tax_info_deduct_tax |-> test_tax_info_deduct_tax,
     test_tax_condition_validate |-> test_tax_condition_validate,
     test_tax_info_validate |-> test_tax_info_validate,
     test_tax_map_validate |-> test_tax_map_validate,
     test_whale_info_validate |-> test_whale_info_validate,
     test_whale_info_assert_no_whale |-> test_whale_info_assert_no_whale,
     test_set_whale_info_works |-> test_set_whale_info_works,
     test_set_whale_info_rejects_no_admin |-> test_set_whale_info_rejects_no_admin,
     test_set_whale_admin |-> test_set_whale_admin,
     test_set_whale_admin_unauthorized |-> test_set_whale_admin_unauthorized,
     test_is_terraport_token_v0 |-> test_is_terraport_token_v0,
     test_is_terraswap_token_v0 |-> test_is_terraswap_token_v0,
     test_is_cw20_base_1_0_1 |-> test_is_cw20_base_1_0_1,
     validate_instantiatemsg_name |-> validate_instantiatemsg_name,
     validate_instantiatemsg_symbol |-> validate_instantiatemsg_symbol,
     mintable_over_cap |-> mintable_over_cap,
     cannot_instantiate_with_invalid_tax_map |-> cannot_instantiate_with_invalid_tax_map,
     duplicate_accounts |-> duplicate_accounts]
=============================================================================
