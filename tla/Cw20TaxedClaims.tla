-------------------------- MODULE Cw20TaxedClaims --------------------------
(***************************************************************************)
(* What comments, the README and the deploy script say of the token and    *)
(* the code does not do.  Each property states one such sentence; its run  *)
(* ends with a counterexample.                                             *)
(***************************************************************************)
EXTENDS MCCw20Taxed

\* msg.rs on SetWhaleAdmin: `empty resets whale_admin to ""`.  The dispatch answers
\* an empty message with Ok and leaves the admin alone.
EmptyResetsWhaleAdmin ==
    [][SetWhaleAdmin /\ Head(pending).admin = None
          /\ Head(pending).sender = whale_info.admin
       => whale_info'.admin = NoAddr]_vars

\* whale.rs: "can used unchecked mul here, as threshold is between 0 and 1".
\* instantiate stores the whale info of its message without validate; the
\* product that does not fit a Uint128 panics, and no payment gets through.
UncheckedMulFits == MaxAllowed <= MaxUint

\* The tax map deploy.js builds from its arguments sellTax, buyTax and owner;
\* the pool id is the code id 7.
DeployTaxMap(sell, buy, owner) ==
    MapOf(Info(OnPool(buy), Always(0), owner), Info(Always(0), Always(0), NoAddr),
          Info(Always(0), OnPool(sell), owner), Info(Always(0), Always(0), NoAddr), owner)

\* deploy.js: "sell <=> send from seller to pool", with the sell tax it prints.
\* The script puts the rate into dst_cond; deduct_tax takes the rate of src_cond.
SalePaysSellTax ==
    [][Send => LET m == Head(pending)
               IN  m.recipient = pool /\ m.amount >= One /\ tax_info = DeployTaxMap(1, 2, treasury)
                   => SplitOf(m).tax > 0]_vars

-----------------------------------------------------------------------------
\* Instances: one token each.
ClaimInstantiations ==
    {Token(Holding(alice, 6, bob, 2), None, DeployTaxMap(1, 2, treasury), w) :
        w \in {Whale(2, {alice}, alice), Whale(16, {}, alice)}}
ClaimTxs ==
    Alone({SetWhaleInfoOf(alice, None), SetWhaleAdminOf(alice, None),
           SendOf(alice, pool, 2), SendOf(alice, pool, 4), BurnOf(alice, 1)})
ClaimReactions == Alone({TransferOf(pool, bob, 2)})
=============================================================================
