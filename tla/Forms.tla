-------------------------------- MODULE Forms --------------------------------
(***************************************************************************)
(* How the messages of the token and the values they carry are written, for*)
(* the modules that list some: msg.rs, tax.rs, whale.rs.                   *)
(***************************************************************************)
-----------------------------------------------------------------------------
\* Messages.

TransferOf(s, r, n) == [op |-> "transfer", sender |-> s, recipient |-> r, amount |-> n]
SendOf(s, c, n) == [op |-> "send", sender |-> s, recipient |-> c, amount |-> n]
TransferFromOf(s, o, r, n) ==
    [op |-> "transfer_from", sender |-> s, owner |-> o, recipient |-> r, amount |-> n]
SendFromOf(s, o, c, n) ==
    [op |-> "send_from", sender |-> s, owner |-> o, recipient |-> c, amount |-> n]
BurnOf(s, n) == [op |-> "burn", sender |-> s, amount |-> n]
BurnFromOf(s, o, n) == [op |-> "burn_from", sender |-> s, owner |-> o, amount |-> n]
MintOf(s, r, n) == [op |-> "mint", sender |-> s, recipient |-> r, amount |-> n]
IncreaseOf(s, p, n, e) ==
    [op |-> "increase_allowance", sender |-> s, spender |-> p, amount |-> n, expires |-> e]
DecreaseOf(s, p, n, e) ==
    [op |-> "decrease_allowance", sender |-> s, spender |-> p, amount |-> n, expires |-> e]
UpdateMinterOf(s, a) == [op |-> "update_minter", sender |-> s, new_minter |-> a]
SetTaxMapOf(s, t) == [op |-> "set_tax_map", sender |-> s, tax_map |-> t]
SetTaxAdminOf(s, a) == [op |-> "set_tax_admin", sender |-> s, admin |-> a]
SetWhaleInfoOf(s, w) == [op |-> "set_whale_info", sender |-> s, whale_info |-> w]
SetWhaleAdminOf(s, a) == [op |-> "set_whale_admin", sender |-> s, admin |-> a]

-----------------------------------------------------------------------------
\* Conditions and policies.

NoTax == [kind |-> "Never"]
Always(rate) == [kind |-> "Always", tax_rate |-> rate]
Info(src, dst, wallet) == [src_cond |-> src, dst_cond |-> dst, proceeds |-> wallet]
MapOf(on_transfer, on_transfer_from, on_send, on_send_from, admin) ==
    [on_transfer |-> on_transfer, on_transfer_from |-> on_transfer_from,
     on_send |-> on_send, on_send_from |-> on_send_from, admin |-> admin]
Whale(threshold, whitelist, admin) ==
    [threshold |-> threshold, whitelist |-> whitelist, admin |-> admin]
=============================================================================
