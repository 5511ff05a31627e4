------------------------ MODULE Cw20TaxedSafetyProofs ------------------------
(***************************************************************************)
(* Allowances, cap, roles, debits and expirations of Cw20Taxed, for every  *)
(* set of addresses, transactions and contracts, and every bound.          *)
(*                                                                         *)
(* The first three have one argument: a handler keeps what holds of the    *)
(* store it finds, a failure restores a store of which it held, and a      *)
(* commit takes over a store that kept the roles since the last one.       *)
(***************************************************************************)
EXTENDS Cw20TaxedProofs

\* The two allowance maps of a store are one, seen from both sides.
Mirrored(s) ==
    \A owner, spender \in Addr :
        s.allowances[<<owner, spender>>] = s.allowances_spender[<<spender, owner>>]

\* A store within the cap of its minter.
Capped(s) == CapAllows(s.token_info.mint, s.token_info.total_supply)

\* The inductive invariant, on top of IInv.
SInv ==
    /\ Mirrored(Store) /\ Mirrored(committed)
    /\ Capped(Store) /\ Capped(committed)
    /\ RolesKept(committed, Store)

\* What a handler does for SInv.
HandlerKeeps == Mirrored(Store') /\ Capped(Store') /\ RolesKept(Store, Store')

LEMMA RolesKeptReflexive == \A s : RolesKept(s, s)
BY DEF RolesKept

LEMMA RolesKeptTransitive ==
    ASSUME NEW r, NEW s, NEW t, RolesKept(r, s), RolesKept(s, t)
    PROVE  RolesKept(r, t)
BY DEF RolesKept

-----------------------------------------------------------------------------
\* Allowances.

LEMMA StoreIsMirroredNext ==
    Mirrored(Store') <=> \A owner, spender \in Addr :
                            allowances'[<<owner, spender>>] = allowances_spender'[<<spender, owner>>]
BY DEF Mirrored, Store

\* The same entry put into both maps.
LEMMA SameEntryMirrors ==
    ASSUME StoreSound, Mirrored(Store), NEW owner \in Addr, NEW spender \in Addr, NEW entry,
           allowances' = [allowances EXCEPT ![<<owner, spender>>] = entry],
           allowances_spender' = [allowances_spender EXCEPT ![<<spender, owner>>] = entry]
    PROVE  Mirrored(Store')
<1>1. /\ DOMAIN allowances = Addr \X Addr
      /\ DOMAIN allowances_spender = Addr \X Addr
  BY DEF StoreSound, AllowanceMap
<1>2. SUFFICES ASSUME NEW o \in Addr, NEW s \in Addr
               PROVE  allowances'[<<o, s>>] = allowances_spender'[<<s, o>>]
  BY StoreIsMirroredNext
<1>3. allowances[<<o, s>>] = allowances_spender[<<s, o>>]
  BY DEF Mirrored, Store
<1>4. CASE o = owner /\ s = spender
  BY <1>1, <1>4
<1>5. CASE ~(o = owner /\ s = spender)
  <2>1. <<o, s>> # <<owner, spender>> /\ <<s, o>> # <<spender, owner>>
    BY <1>5
  <2>. QED
    BY <1>1, <1>3, <2>1
<1>. QED
  BY <1>4, <1>5

\* deduct_allowance lowers the entries of one owner and one spender alike.
LEMMA DeductAllowanceMirrors ==
    ASSUME StoreSound, Mirrored(Store), NEW owner \in Addr, NEW spender \in Addr, NEW n,
           DeductAllowance(owner, spender, n)
    PROVE  Mirrored(Store')
<1>. DEFINE entry == [allowances[<<owner, spender>>] EXCEPT !.allowance = @ - n]
<1>1. allowances[<<owner, spender>>] = allowances_spender[<<spender, owner>>]
  BY DEF Mirrored, Store
<1>2. /\ allowances' = [allowances EXCEPT ![<<owner, spender>>] = entry]
      /\ allowances_spender' = [allowances_spender EXCEPT ![<<spender, owner>>] = entry]
  BY <1>1 DEF DeductAllowance, StoreSound, AllowanceMap
<1>. HIDE DEF entry
<1>. QED
  BY <1>2, SameEntryMirrors

LEMMA IncreaseAllowanceMirrors ==
    ASSUME IInv, Mirrored(Store), IncreaseAllowance
    PROVE  Mirrored(Store')
<1>. DEFINE m == Head(pending)
            entry == Raised(allowances[<<m.sender, m.spender>>], m)
<1>1. m.op = "increase_allowance" /\ pending # <<>> /\ m.spender \in Addr
  BY DEF IncreaseAllowance, Executing, IncreaseAllowanceOk
<1>2. m.sender \in Addr
  BY <1>1, HeadIsMessage, MessageByOp DEF AllowanceMsg
<1>3. StoreSound
  BY StoreIsSound DEF IInv
<1>4. allowances[<<m.sender, m.spender>>] = allowances_spender[<<m.spender, m.sender>>]
  BY <1>1, <1>2 DEF Mirrored, Store
<1>5. /\ allowances' = [allowances EXCEPT ![<<m.sender, m.spender>>] = entry]
      /\ allowances_spender' = [allowances_spender EXCEPT ![<<m.spender, m.sender>>] = entry]
  BY <1>1, <1>2, <1>3, <1>4 DEF IncreaseAllowance, StoreSound, AllowanceMap
<1>. HIDE DEF entry
<1>. QED
  BY <1>1, <1>2, <1>3, <1>5, SameEntryMirrors

LEMMA DecreaseAllowanceMirrors ==
    ASSUME IInv, Mirrored(Store), DecreaseAllowance
    PROVE  Mirrored(Store')
<1>. DEFINE m == Head(pending)
<1>1. m.op = "decrease_allowance" /\ pending # <<>> /\ m.spender \in Addr
  BY DEF DecreaseAllowance, Executing, DecreaseAllowanceOk
<1>2. m.sender \in Addr
  BY <1>1, HeadIsMessage, MessageByOp DEF AllowanceMsg
<1>3. StoreSound
  BY StoreIsSound DEF IInv
<1>4. /\ allowances' = [allowances EXCEPT ![<<m.sender, m.spender>>] = Lowered(m)]
      /\ allowances_spender' =
            [allowances_spender EXCEPT ![<<m.spender, m.sender>>] = Lowered(m)]
  BY DEF DecreaseAllowance
<1>. QED
  BY <1>1, <1>2, <1>3, <1>4, SameEntryMirrors

\* The handlers that spend an allowance.
LEMMA SpendingMirrors ==
    ASSUME IInv, Mirrored(Store), TransferFrom \/ SendFrom \/ BurnFrom
    PROVE  Mirrored(Store')
<1>. DEFINE m == Head(pending)
<1>1. /\ pending # <<>> /\ m.op \in {"transfer_from", "send_from", "burn_from"}
      /\ m.owner \in Addr /\ DeductAllowance(m.owner, m.sender, m.amount)
  BY DEF TransferFrom, SendFrom, BurnFrom, Executing, TransferFromOk, SendFromOk, BurnFromOk
<1>2. m.sender \in Addr
  BY <1>1, HeadIsMessage, MessageByOp DEF FromMsg, BurnFromMsg
<1>3. StoreSound
  BY StoreIsSound DEF IInv
<1>. QED
  BY <1>1, <1>2, <1>3, DeductAllowanceMirrors

LEMMA ExecuteMirrors ==
    ASSUME IInv, Mirrored(Store), Execute
    PROVE  Mirrored(Store')
<1>1. CASE IncreaseAllowance
  BY <1>1, IncreaseAllowanceMirrors
<1>2. CASE DecreaseAllowance
  BY <1>2, DecreaseAllowanceMirrors
<1>3. CASE TransferFrom \/ SendFrom \/ BurnFrom
  BY <1>3, SpendingMirrors
<1>4. CASE \/ Transfer \/ Send \/ Burn \/ Mint \/ UpdateMinter
           \/ SetTaxMap \/ SetTaxAdmin \/ SetWhaleInfo \/ SetWhaleAdmin
  <2>1. UNCHANGED <<allowances, allowances_spender>>
    BY <1>4 DEF Transfer, Send, Burn, Mint, UpdateMinter, SetTaxMap, SetTaxAdmin,
                SetWhaleInfo, SetWhaleAdmin
  <2>. QED
    BY <2>1 DEF Mirrored, Store
<1>. QED
  BY <1>1, <1>2, <1>3, <1>4 DEF Execute

-----------------------------------------------------------------------------
\* The cap.  A burn lowers the supply, a mint asks the cap, a new minter has the
\* cap of the old one.
LEMMA ExecuteCaps ==
    ASSUME IInv, Capped(Store), Execute
    PROVE  Capped(Store')
<1>. DEFINE m == Head(pending)
<1>1. token_info \in TokenInfo /\ token_info.total_supply \in Nat
  BY StoreIsSound, RatesAssumption DEF IInv, StoreSound, TokenInfo, Uint
<1>2. CapAllows(token_info.mint, token_info.total_supply)
  BY DEF Capped, Store
<1>3. SUFFICES CapAllows(token_info'.mint, token_info'.total_supply)
  BY DEF Capped, Store
<1>4. CASE Burn \/ BurnFrom
  <2>1. /\ pending # <<>> /\ m.op \in {"burn", "burn_from"}
        /\ token_info' = [token_info EXCEPT !.total_supply = @ - m.amount]
    BY <1>4 DEF Burn, BurnFrom, Executing
  <2>2. m.amount \in Nat
    BY <2>1, HeadIsMessage, MessageByOp, RatesAssumption DEF BurnMsg, BurnFromMsg, Uint
  <2>3. /\ token_info'.mint = token_info.mint
        /\ token_info'.total_supply = token_info.total_supply - m.amount
    BY <1>1, <2>1 DEF TokenInfo
  <2>4. token_info.mint # None /\ token_info.mint.cap # None => token_info.mint.cap \in Nat
    BY <1>1, RatesAssumption DEF TokenInfo, Minter, Uint
  <2>. QED
    BY <1>1, <1>2, <2>2, <2>3, <2>4 DEF CapAllows
<1>5. CASE Mint
  <2>1. /\ token_info'.mint = token_info.mint
        /\ token_info'.total_supply = token_info.total_supply + m.amount
    BY <1>1, <1>5 DEF Mint, TokenInfo
  <2>. QED
    BY <1>5, <2>1 DEF Mint, MintOk
<1>6. CASE UpdateMinter
  <2>1. token_info.mint \in Minter
    BY <1>1, <1>6 DEF UpdateMinter, UpdateMinterOk, IsMinter, TokenInfo
  <2>2. /\ token_info'.mint = NewMint(m)
        /\ token_info'.total_supply = token_info.total_supply
    BY <1>1, <1>6 DEF UpdateMinter, TokenInfo
  <2>3. token_info.mint # None
    BY <1>6 DEF UpdateMinter, UpdateMinterOk, IsMinter
  <2>4. NewMint(m) # None => NewMint(m).cap = token_info.mint.cap
    BY <2>1 DEF NewMint, Minter
  <2>. QED
    BY <1>2, <2>2, <2>3, <2>4 DEF CapAllows
<1>7. CASE \/ Transfer \/ TransferFrom \/ Send \/ SendFrom
           \/ IncreaseAllowance \/ DecreaseAllowance
           \/ SetTaxMap \/ SetTaxAdmin \/ SetWhaleInfo \/ SetWhaleAdmin
  <2>1. UNCHANGED token_info
    BY <1>7 DEF Transfer, TransferFrom, Send, SendFrom, IncreaseAllowance,
                DecreaseAllowance, SetTaxMap, SetTaxAdmin, SetWhaleInfo, SetWhaleAdmin
  <2>. QED
    BY <1>2, <2>1
<1>. QED
  BY <1>4, <1>5, <1>6, <1>7 DEF Execute

-----------------------------------------------------------------------------
\* The roles.

\* The minter and its cap.
LEMMA ExecuteKeepsMinter ==
    ASSUME IInv, Execute
    PROVE  /\ token_info.mint = None => token_info'.mint = None
           /\ token_info.mint # None /\ token_info'.mint # None
              => token_info'.mint.cap = token_info.mint.cap
<1>. DEFINE m == Head(pending)
<1>1. token_info \in TokenInfo
  BY StoreIsSound DEF IInv, StoreSound
<1>2. CASE UpdateMinter
  <2>1. token_info.mint \in Minter /\ token_info.mint # None
    BY <1>1, <1>2 DEF UpdateMinter, UpdateMinterOk, IsMinter, TokenInfo
  <2>2. token_info'.mint = NewMint(m)
    BY <1>1, <1>2 DEF UpdateMinter, TokenInfo
  <2>3. NewMint(m) # None => NewMint(m).cap = token_info.mint.cap
    BY <2>1 DEF NewMint, Minter
  <2>. QED
    BY <2>1, <2>2, <2>3
<1>3. CASE Burn \/ BurnFrom \/ Mint
  <2>1. token_info'.mint = token_info.mint
    BY <1>1, <1>3 DEF Burn, BurnFrom, Mint, TokenInfo
  <2>. QED
    BY <2>1
<1>4. CASE \/ Transfer \/ TransferFrom \/ Send \/ SendFrom
           \/ IncreaseAllowance \/ DecreaseAllowance
           \/ SetTaxMap \/ SetTaxAdmin \/ SetWhaleInfo \/ SetWhaleAdmin
  <2>1. UNCHANGED token_info
    BY <1>4 DEF Transfer, TransferFrom, Send, SendFrom, IncreaseAllowance,
                DecreaseAllowance, SetTaxMap, SetTaxAdmin, SetWhaleInfo, SetWhaleAdmin
  <2>. QED
    BY <2>1
<1>. QED
  BY <1>2, <1>3, <1>4 DEF Execute

\* Nobody is the admin of a policy whose admin is no address.
LEMMA ExecuteKeepsPolicies ==
    ASSUME IInv, Execute
    PROVE  /\ tax_info.admin = NoAddr => tax_info' = tax_info
           /\ whale_info.admin = NoAddr => whale_info' = whale_info
<1>. DEFINE m == Head(pending)
<1>1. CASE SetTaxMap \/ SetTaxAdmin
  <2>1. /\ pending # <<>> /\ m.op \in {"set_tax_map", "set_tax_admin"}
        /\ tax_info.admin = m.sender /\ UNCHANGED whale_info
    BY <1>1 DEF SetTaxMap, SetTaxAdmin, SetTaxMapOk, SetTaxAdminOk, Executing
  <2>2. m.sender \in Addr
    BY <2>1, HeadIsMessage, MessageByOp DEF SetTaxMapMsg, SetAdminMsg
  <2>. QED
    BY <2>1, <2>2, RatesAssumption
<1>2. CASE SetWhaleInfo \/ SetWhaleAdmin
  <2>1. /\ pending # <<>> /\ m.op \in {"set_whale_info", "set_whale_admin"}
        /\ whale_info' # whale_info => whale_info.admin = m.sender
        /\ UNCHANGED tax_info
    BY <1>2 DEF SetWhaleInfo, SetWhaleAdmin, SetWhaleInfoOk, SetWhaleAdminOk, Executing
  <2>2. m.sender \in Addr
    BY <2>1, HeadIsMessage, MessageByOp DEF SetWhaleInfoMsg, SetAdminMsg
  <2>. QED
    BY <2>1, <2>2, RatesAssumption
<1>3. CASE \/ Transfer \/ TransferFrom \/ Send \/ SendFrom \/ Burn \/ BurnFrom \/ Mint
           \/ IncreaseAllowance \/ DecreaseAllowance \/ UpdateMinter
  <2>1. UNCHANGED <<tax_info, whale_info>>
    BY <1>3 DEF Transfer, TransferFrom, Send, SendFrom, Burn, BurnFrom, Mint,
                IncreaseAllowance, DecreaseAllowance, UpdateMinter
  <2>. QED
    BY <2>1
<1>. QED
  BY <1>1, <1>2, <1>3 DEF Execute

LEMMA ExecuteKeepsRoles ==
    ASSUME IInv, Execute
    PROVE  RolesKept(Store, Store')
BY ExecuteKeepsMinter, ExecuteKeepsPolicies DEF RolesKept, Store

-----------------------------------------------------------------------------
\* The invariant.

\* A handler returned: the new store, committed or not, is as good as the old.
LEMMA ReturnKeepsSInv ==
    ASSUME SInv, HandlerKeeps, committed' \in {committed, Store'}
    PROVE  SInv' /\ RolesKept(committed, committed')
<1>1. RolesKept(committed, Store')
  BY RolesKeptTransitive DEF SInv, HandlerKeeps
<1>2. CASE committed' = committed
  <2>1. Mirrored(committed') /\ Capped(committed') /\ RolesKept(committed', Store')
    BY <1>1, <1>2 DEF SInv
  <2>. QED
    BY <1>2, <2>1, RolesKeptReflexive DEF SInv, HandlerKeeps
<1>3. CASE committed' = Store'
  <2>1. /\ Mirrored(committed') /\ Capped(committed') /\ RolesKept(committed', Store')
        /\ RolesKept(committed, committed')
    BY <1>1, <1>3, RolesKeptReflexive DEF HandlerKeeps
  <2>. QED
    BY <2>1 DEF SInv, HandlerKeeps
<1>. QED
  BY <1>2, <1>3

LEMMA ExecuteKeepsSInv ==
    ASSUME IInv, SInv, Execute
    PROVE  SInv' /\ RolesKept(committed, committed')
<1>1. committed' \in {committed, Store'}
  BY DEF Execute, Transfer, TransferFrom, Send, SendFrom, Burn, BurnFrom, Mint,
         IncreaseAllowance, DecreaseAllowance, UpdateMinter, SetTaxMap, SetTaxAdmin,
         SetWhaleInfo, SetWhaleAdmin, Return
<1>2. HandlerKeeps
  BY ExecuteMirrors, ExecuteCaps, ExecuteKeepsRoles DEF SInv, HandlerKeeps
<1>. QED
  BY <1>1, <1>2, ReturnKeepsSInv

\* The other steps leave the store alone or restore the committed one.
LEMMA OtherKeepsSInv ==
    ASSUME SInv, Submit \/ NextBlock \/ Receive \/ UNCHANGED vars
    PROVE  SInv' /\ RolesKept(committed, committed')
<1>1. Store' = Store
  BY DEF Submit, NextBlock, Receive, vars, store, Store
<1>2. committed' \in {committed, Store'}
  BY DEF Submit, NextBlock, Receive, Return, vars
<1>3. HandlerKeeps
  BY <1>1, RolesKeptReflexive DEF SInv, HandlerKeeps
<1>. QED
  BY <1>2, <1>3, ReturnKeepsSInv

LEMMA FailKeepsSInv ==
    ASSUME IInv, SInv, Fail
    PROVE  SInv' /\ RolesKept(committed, committed')
<1>1. Store' = committed
  BY DEF Fail, Store, IInv, Sound, StoreType
<1>2. committed' = committed
  BY DEF Fail
<1>3. /\ Mirrored(Store') /\ Mirrored(committed') /\ Capped(Store') /\ Capped(committed')
      /\ RolesKept(committed', Store')
  BY <1>1, <1>2, RolesKeptReflexive DEF SInv
<1>. QED
  BY <1>2, <1>3, RolesKeptReflexive DEF SInv

LEMMA NextKeepsSInv ==
    ASSUME IInv, SInv, [Next]_vars
    PROVE  SInv' /\ RolesKept(committed, committed')
BY ExecuteKeepsSInv, OtherKeepsSInv, FailKeepsSInv DEF Next, TxStep

LEMMA InitEstablishesSInv == Init => SInv
<1>. SUFFICES ASSUME Init
              PROVE  SInv
  OBVIOUS
<1>1. Mirrored(Store)
  BY DEF Init, Mirrored, Store
<1>2. Capped(Store)
  BY DEF Init, Capped, Store, InstantiateOk
<1>3. committed = Store
  BY DEF Init
<1>. QED
  BY <1>1, <1>2, <1>3, RolesKeptReflexive DEF SInv

LEMMA SInvIsInvariant == Spec => []SInv
<1>1. Init => SInv
  BY InitEstablishesSInv
<1>2. IInv /\ SInv /\ [Next]_vars => SInv'
  BY NextKeepsSInv
<1>. QED
  BY <1>1, <1>2, InvIsInvariant, PTL DEF Spec

\* However allowances are raised, lowered, spent and rolled back, owner and
\* spender see the same ones (allowances.rs: ALLOWANCES, ALLOWANCES_SPENDER).
THEOREM AllowancesAreMirrored == Spec => []AllowancesMirrored
<1>1. SInv => AllowancesMirrored
  BY DEF SInv, Mirrored, Store, AllowancesMirrored
<1>. QED
  BY <1>1, SInvIsInvariant, PTL

\* Whoever mints, burns or hands over the minter role, and whatever fails: the
\* supply, not what is issued beside it, is within the cap (contract.rs: execute_mint,
\* execute_update_minter; state.rs:31 says otherwise, see CapAllows).
THEOREM CapIsRespected == Spec => []CapRespected
<1>1. SInv => CapRespected
  BY DEF SInv, Capped, Store, CapRespected
<1>. QED
  BY <1>1, SInvIsInvariant, PTL

\* From one committed store to the next, no renounced role comes back and no
\* policy without an admin changes (contract.rs, whale.rs: the admin checks).
THEOREM RenouncedRolesStay == Spec => RenouncedForever
<1>1. IInv /\ SInv /\ [Next]_vars => [RolesKept(committed, committed')]_vars
  BY NextKeepsSInv
<1>. QED
  BY <1>1, InvIsInvariant, SInvIsInvariant, PTL DEF Spec, RenouncedForever
-----------------------------------------------------------------------------
\* Whose tokens move.

\* What AuthorizedDebit says of a step.
Authorized ==
    \A a \in Addr :
        LET m == Head(pending)
            lost == balances[a] - balances'[a]
        IN  lost > 0 =>
               \/ m.sender = a /\ lost <= m.amount
               \/ /\ lost <= Spent(allowances, <<a, m.sender>>)
                  /\ lost <= Spent(allowances_spender, <<m.sender, a>>)

\* At most the amount is taken, from one account.
TakenFrom(payer, n) ==
    \A a \in Addr : balances'[a] >= balances[a] - (IF payer = a THEN n ELSE 0)

LEMMA TakenFromSender ==
    ASSUME IInv, IInv', Head(pending).amount \in Nat,
           TakenFrom(Head(pending).sender, Head(pending).amount)
    PROVE  Authorized
<1>. SUFFICES ASSUME NEW a \in Addr, balances[a] - balances'[a] > 0
              PROVE  Head(pending).sender = a /\ balances[a] - balances'[a] <= Head(pending).amount
  BY DEF Authorized
<1>1. balances[a] \in Nat /\ balances'[a] \in Nat
  BY StoresNow, StoresNext, RatesAssumption DEF StoreSound, Uint
<1>2. balances'[a] >= balances[a] - (IF Head(pending).sender = a THEN Head(pending).amount ELSE 0)
  BY DEF TakenFrom
<1>. QED
  BY <1>1, <1>2

LEMMA TakenFromOwner ==
    ASSUME IInv, IInv', NEW owner \in Addr, Head(pending).sender \in Addr,
           Head(pending).amount \in Uint, TakenFrom(owner, Head(pending).amount),
           DeductAllowanceOk(owner, Head(pending).sender, Head(pending).amount),
           DeductAllowance(owner, Head(pending).sender, Head(pending).amount)
    PROVE  Authorized
<1>. DEFINE n == Head(pending).amount
            s == Head(pending).sender
            x == [allowances[<<owner, s>>] EXCEPT !.allowance = @ - n]
            y == [allowances_spender[<<s, owner>>] EXCEPT !.allowance = @ - n]
<1>1. /\ allowances' = [allowances EXCEPT ![<<owner, s>>] = x]
      /\ allowances_spender' = [allowances_spender EXCEPT ![<<s, owner>>] = y]
  BY DEF DeductAllowance
<1>2. /\ allowances[<<owner, s>>] \in Allowance /\ ~IsExpired(allowances[<<owner, s>>].expires)
      /\ allowances_spender[<<s, owner>>] \in Allowance
      /\ ~IsExpired(allowances_spender[<<s, owner>>].expires)
      /\ allowances \in AllowanceMap /\ allowances_spender \in AllowanceMap
  BY StoresNow DEF StoreSound, AllowanceMap, DeductAllowanceOk, Spendable
<1>3. /\ allowances'[<<owner, s>>] = x /\ allowances_spender'[<<s, owner>>] = y
  BY <1>1, <1>2 DEF AllowanceMap
<1>4. /\ x.allowance = allowances[<<owner, s>>].allowance - n
      /\ y.allowance = allowances_spender[<<s, owner>>].allowance - n
      /\ allowances[<<owner, s>>].allowance \in Nat
      /\ allowances_spender[<<s, owner>>].allowance \in Nat
      /\ n \in Nat
  BY <1>2, RatesAssumption DEF Allowance, Uint
<1>5. x # None /\ y # None
  BY <1>2, SpentEntry, ChainAssumption DEF DeductAllowanceOk
<1>6. allowances[<<owner, s>>] # None /\ allowances_spender[<<s, owner>>] # None
  BY <1>2, ChainAssumption
<1>. HIDE DEF x, y
<1>7. /\ Spent(allowances, <<owner, s>>)
              = allowances[<<owner, s>>].allowance - allowances'[<<owner, s>>].allowance
      /\ Spent(allowances_spender, <<s, owner>>)
              = allowances_spender[<<s, owner>>].allowance
                - allowances_spender'[<<s, owner>>].allowance
  BY <1>2, <1>3, <1>5, <1>6 DEF Spent
<1>8. Spent(allowances, <<owner, s>>) = n /\ Spent(allowances_spender, <<s, owner>>) = n
  BY <1>3, <1>4, <1>7
<1>. SUFFICES ASSUME NEW a \in Addr, balances[a] - balances'[a] > 0
              PROVE  a = owner /\ balances[a] - balances'[a] <= n
  BY <1>8 DEF Authorized
<1>9. balances[a] \in Nat /\ balances'[a] \in Nat
  BY StoresNow, StoresNext, RatesAssumption DEF StoreSound, Uint
<1>10. balances'[a] >= balances[a] - (IF owner = a THEN n ELSE 0)
  BY DEF TakenFrom
<1>. QED
  BY <1>4, <1>9, <1>10

LEMMA PaymentTakes ==
    ASSUME IInv, pending # <<>>, NEW payer \in Addr,
           Head(pending).op \in {"transfer", "transfer_from", "send", "send_from"},
           Head(pending).recipient \in Addr, Head(pending).amount \in Uint,
           TaxOk(Head(pending)), Head(pending).amount <= balances[payer],
           balances' = Paid(payer, Head(pending))
    PROVE  TakenFrom(payer, Head(pending).amount)
<1>1. StoreSound
  BY StoresNow
<1>2. TaxInfoOf(Head(pending)) \in TaxInfo
  BY <1>1, TaxInfoType
<1>. QED
  BY <1>1, <1>2, PaidAt DEF TakenFrom

LEMMA BurnTakes ==
    ASSUME IInv, NEW payer \in Addr, NEW n \in Nat, balances' = Debit(balances, payer, n)
    PROVE  TakenFrom(payer, n)
<1>1. balances \in [Addr -> Int]
  BY StoresNow, RatesAssumption DEF StoreSound, Uint
<1>. SUFFICES ASSUME NEW a \in Addr
              PROVE  balances'[a] >= balances[a] - (IF payer = a THEN n ELSE 0)
  BY DEF TakenFrom
<1>2. balances'[a] = balances[a] - (IF payer = a THEN n ELSE 0)
  BY <1>1 DEF Debit
<1>. QED
  BY <1>1, <1>2

LEMMA OwnPaymentsAreAuthorized ==
    ASSUME IInv, IInv', Transfer \/ Send \/ Burn
    PROVE  Authorized
<1>. DEFINE m == Head(pending)
<1>1. pending # <<>> /\ m \in Message
  BY HeadIsMessage DEF Transfer, Send, Burn, Executing
<1>2. CASE Transfer \/ Send
  <2>1. /\ m.op \in {"transfer", "send"} /\ m.recipient \in Addr /\ TaxOk(m)
        /\ m.amount <= balances[m.sender] /\ balances' = Paid(m.sender, m)
    BY <1>2 DEF Transfer, Send, TransferOk, SendOk, Executing
  <2>2. m.sender \in Addr /\ m.amount \in Uint
    BY <1>1, <2>1, MessageByOp DEF TransferMsg
  <2>3. TakenFrom(m.sender, m.amount)
    BY <1>1, <2>1, <2>2, PaymentTakes
  <2>. QED
    BY <2>2, <2>3, TakenFromSender, RatesAssumption DEF Uint
<1>3. CASE Burn
  <2>1. m.op = "burn" /\ balances' = Debit(balances, m.sender, m.amount)
    BY <1>3 DEF Burn, Executing
  <2>2. m.sender \in Addr /\ m.amount \in Nat
    BY <1>1, <2>1, MessageByOp, RatesAssumption DEF BurnMsg, Uint
  <2>. QED
    BY <2>1, <2>2, BurnTakes, TakenFromSender
<1>. QED
  BY <1>2, <1>3

LEMMA SpendingIsAuthorized ==
    ASSUME IInv, IInv', TransferFrom \/ SendFrom \/ BurnFrom
    PROVE  Authorized
<1>. DEFINE m == Head(pending)
<1>1. pending # <<>> /\ m \in Message
  BY HeadIsMessage DEF TransferFrom, SendFrom, BurnFrom, Executing
<1>2. /\ m.op \in {"transfer_from", "send_from", "burn_from"} /\ m.owner \in Addr
      /\ DeductAllowanceOk(m.owner, m.sender, m.amount)
      /\ DeductAllowance(m.owner, m.sender, m.amount)
  BY DEF TransferFrom, SendFrom, BurnFrom, TransferFromOk, SendFromOk, BurnFromOk, Executing
<1>3. m.sender \in Addr /\ m.amount \in Uint /\ m.amount \in Nat
  BY <1>1, <1>2, MessageByOp, RatesAssumption DEF FromMsg, BurnFromMsg, Uint
<1>4. CASE TransferFrom \/ SendFrom
  <2>1. /\ m.op \in {"transfer_from", "send_from"} /\ m.recipient \in Addr /\ TaxOk(m)
        /\ m.amount <= balances[m.owner] /\ balances' = Paid(m.owner, m)
    BY <1>4 DEF TransferFrom, SendFrom, TransferFromOk, SendFromOk, Executing
  <2>2. TakenFrom(m.owner, m.amount)
    BY <1>1, <1>2, <1>3, <2>1, PaymentTakes
  <2>. QED
    BY <1>2, <1>3, <2>2, TakenFromOwner
<1>5. CASE BurnFrom
  <2>1. balances' = Debit(balances, m.owner, m.amount)
    BY <1>5 DEF BurnFrom
  <2>2. TakenFrom(m.owner, m.amount)
    BY <1>2, <1>3, <2>1, BurnTakes
  <2>. QED
    BY <1>2, <1>3, <2>2, TakenFromOwner
<1>. QED
  BY <1>4, <1>5

LEMMA NothingTakenIsAuthorized ==
    ASSUME IInv, \/ UNCHANGED balances
                 \/ Mint
    PROVE  Authorized
<1>1. \A a \in Addr : balances[a] \in Int
  BY StoresNow, RatesAssumption DEF StoreSound, Uint
<1>2. ASSUME NEW a \in Addr
      PROVE  balances'[a] >= balances[a] /\ balances'[a] \in Int
  <2>1. CASE UNCHANGED balances
    BY <1>1, <2>1
  <2>2. CASE Mint
    <3>. DEFINE m == Head(pending)
    <3>1. /\ pending # <<>> /\ m.op = "mint" /\ m.recipient \in Addr
          /\ balances' = Credit(balances, m.recipient, m.amount)
      BY <2>2 DEF Mint, MintOk, Executing
    <3>2. m.amount \in Nat
      BY <3>1, HeadIsMessage, MessageByOp, RatesAssumption DEF MintMsg, Uint
    <3>3. balances \in [Addr -> Int]
      BY StoresNow, RatesAssumption DEF StoreSound, Uint
    <3>. QED
      BY <3>1, <3>2, <3>3, CreditIs
  <2>. QED
    BY <2>1, <2>2
<1>. SUFFICES ASSUME NEW a \in Addr
              PROVE  ~(balances[a] - balances'[a] > 0)
  BY DEF Authorized
<1>. QED
  BY <1>1, <1>2

LEMMA ExecuteIsAuthorized ==
    ASSUME IInv, IInv', Execute
    PROVE  Authorized
<1>1. CASE Transfer \/ Send \/ Burn
  BY <1>1, OwnPaymentsAreAuthorized
<1>2. CASE TransferFrom \/ SendFrom \/ BurnFrom
  BY <1>2, SpendingIsAuthorized
<1>3. CASE Mint \/ IncreaseAllowance \/ DecreaseAllowance \/ UpdateMinter \/ SetTaxMap
           \/ SetTaxAdmin \/ SetWhaleInfo \/ SetWhaleAdmin
  <2>1. UNCHANGED balances \/ Mint
    BY <1>3 DEF IncreaseAllowance, DecreaseAllowance, UpdateMinter, SetTaxMap, SetTaxAdmin,
       SetWhaleInfo, SetWhaleAdmin
  <2>. QED
    BY <2>1, NothingTakenIsAuthorized
<1>. QED
  BY <1>1, <1>2, <1>3 DEF Execute

\* An account loses tokens only to a message of its own, no more than it asked to
\* pay, or to an allowance that is lowered as much on both sides and not expired.
THEOREM DebitsAreAuthorized == Spec => AuthorizedDebit
<1>1. IInv /\ IInv' /\ Execute => Authorized
  BY ExecuteIsAuthorized
<1>2. Spec => [][Execute => Authorized]_vars
  BY <1>1, InvIsInvariant, PTL DEF Spec
<1>. QED
  BY <1>2 DEF AuthorizedDebit, Authorized
-----------------------------------------------------------------------------
\* Expired allowances.  The maps are mirrored, so it is enough to look at one.

\* There is an entry, and it has expired.
Lapsed(entry) == entry # None /\ IsExpired(entry.expires)

\* The owner names a new expiration for the spender.
NamedByOwner(owner, spender) ==
    LET m == Head(pending)
    IN  /\ IncreaseAllowance \/ DecreaseAllowance
        /\ m.sender = owner /\ m.spender = spender /\ m.expires # None

\* What a handler does to an entry.
KeepsExpiry(owner, spender) ==
    /\ Lapsed(allowances'[<<owner, spender>>]) => Lapsed(allowances[<<owner, spender>>])
    /\ Revived(allowances, <<owner, spender>>) => NamedByOwner(owner, spender)

\* The invariant, on top of SInv: what a failure would bring back has expired too.
LapseInv ==
    /\ pending = <<>> => committed.allowances = allowances
    /\ \A owner, spender \in Addr :
          Lapsed(allowances[<<owner, spender>>])
          => Lapsed(committed.allowances[<<owner, spender>>])

\* One entry is written: it is removed, keeps its expiration, or has a new one
\* that is not over.
LEMMA WrittenEntry ==
    ASSUME StoreSound, NEW owner \in Addr, NEW spender \in Addr, NEW x,
           allowances' = [allowances EXCEPT ![<<owner, spender>>] = x],
           \/ x = None
           \/ x.expires = EntryOf(allowances[<<owner, spender>>]).expires
           \/ NamedByOwner(owner, spender) /\ ~IsExpired(x.expires),
           NEW o \in Addr, NEW s \in Addr
    PROVE  KeepsExpiry(o, s)
<1>1. DOMAIN allowances = Addr \X Addr
  BY DEF StoreSound, AllowanceMap
<1>2. CASE o = owner /\ s = spender
  <2>1. allowances'[<<o, s>>] = x
    BY <1>1, <1>2
  <2>2. CASE x = None
    BY <2>1, <2>2 DEF KeepsExpiry, Lapsed, Revived
  <2>3. CASE x.expires = EntryOf(allowances[<<owner, spender>>]).expires
    BY <1>2, <2>1, <2>3 DEF KeepsExpiry, Lapsed, Revived, EntryOf, IsExpired
  <2>4. CASE NamedByOwner(owner, spender) /\ ~IsExpired(x.expires)
    BY <1>2, <2>1, <2>4 DEF KeepsExpiry, Lapsed
  <2>. QED
    BY <2>2, <2>3, <2>4
<1>3. CASE ~(o = owner /\ s = spender)
  <2>1. <<o, s>> # <<owner, spender>>
    BY <1>3
  <2>2. allowances'[<<o, s>>] = allowances[<<o, s>>]
    BY <1>1, <2>1
  <2>. QED
    BY <2>2 DEF KeepsExpiry, Revived
<1>. QED
  BY <1>2, <1>3

LEMMA IncreaseKeepsExpiry ==
    ASSUME IInv, IncreaseAllowance, NEW o \in Addr, NEW s \in Addr
    PROVE  KeepsExpiry(o, s)
<1>. DEFINE m == Head(pending)
            x == Raised(allowances[<<m.sender, m.spender>>], m)
<1>1. /\ m.op = "increase_allowance" /\ pending # <<>> /\ m.spender \in Addr /\ ExpiresOk(m)
  BY DEF IncreaseAllowance, Executing, IncreaseAllowanceOk
<1>2. m.sender \in Addr
  BY <1>1, HeadIsMessage, MessageByOp DEF AllowanceMsg
<1>3. allowances' = [allowances EXCEPT ![<<m.sender, m.spender>>] = x]
  BY DEF IncreaseAllowance
<1>4. m.expires = None => x.expires = EntryOf(allowances[<<m.sender, m.spender>>]).expires
  BY DEF Raised
<1>5. m.expires # None => NamedByOwner(m.sender, m.spender) /\ ~IsExpired(x.expires)
  BY <1>1 DEF Raised, ExpiresOk, NamedByOwner
<1>. HIDE DEF x
<1>. QED
  BY <1>1, <1>2, <1>3, <1>4, <1>5, StoresNow, WrittenEntry

LEMMA DecreaseKeepsExpiry ==
    ASSUME IInv, DecreaseAllowance, NEW o \in Addr, NEW s \in Addr
    PROVE  KeepsExpiry(o, s)
<1>. DEFINE m == Head(pending)
            x == Lowered(m)
            entry == allowances[<<m.sender, m.spender>>]
<1>1. /\ m.op = "decrease_allowance" /\ pending # <<>> /\ m.spender \in Addr
      /\ entry # None
      /\ Lowers(m) => ExpiresOk(m)
  BY DEF DecreaseAllowance, Executing, DecreaseAllowanceOk
<1>2. m.sender \in Addr
  BY <1>1, HeadIsMessage, MessageByOp DEF AllowanceMsg
<1>3. allowances' = [allowances EXCEPT ![<<m.sender, m.spender>>] = x]
  BY DEF DecreaseAllowance
<1>4. Lowers(m) /\ m.expires = None => x.expires = EntryOf(entry).expires
  BY <1>1 DEF Lowered, EntryOf
<1>5. Lowers(m) /\ m.expires # None => NamedByOwner(m.sender, m.spender) /\ ~IsExpired(x.expires)
  BY <1>1 DEF Lowered, ExpiresOk, NamedByOwner
<1>6. ~Lowers(m) => x = None
  BY DEF Lowered
<1>. HIDE DEF x
<1>. QED
  BY <1>1, <1>2, <1>3, <1>4, <1>5, <1>6, StoresNow, WrittenEntry

LEMMA SpendingKeepsExpiry ==
    ASSUME IInv, TransferFrom \/ SendFrom \/ BurnFrom, NEW o \in Addr, NEW s \in Addr
    PROVE  KeepsExpiry(o, s)
<1>. DEFINE m == Head(pending)
            x == [allowances[<<m.owner, m.sender>>] EXCEPT !.allowance = @ - m.amount]
<1>1. /\ pending # <<>> /\ m.op \in {"transfer_from", "send_from", "burn_from"}
      /\ m.owner \in Addr /\ DeductAllowanceOk(m.owner, m.sender, m.amount)
      /\ DeductAllowance(m.owner, m.sender, m.amount)
  BY DEF TransferFrom, SendFrom, BurnFrom, Executing, TransferFromOk, SendFromOk, BurnFromOk
<1>2. m.sender \in Addr
  BY <1>1, HeadIsMessage, MessageByOp DEF FromMsg, BurnFromMsg
<1>3. allowances' = [allowances EXCEPT ![<<m.owner, m.sender>>] = x]
  BY <1>1 DEF DeductAllowance
<1>4. /\ allowances[<<m.owner, m.sender>>] \in Allowance
      /\ EntryOf(allowances[<<m.owner, m.sender>>]) = allowances[<<m.owner, m.sender>>]
  BY <1>1, <1>2, StoresNow DEF StoreSound, AllowanceMap, DeductAllowanceOk, Spendable, EntryOf
<1>5. x.expires = EntryOf(allowances[<<m.owner, m.sender>>]).expires
  BY <1>4 DEF Allowance
<1>. HIDE DEF x
<1>. QED
  BY <1>1, <1>2, <1>3, <1>5, StoresNow, WrittenEntry

LEMMA ExecuteKeepsExpiry ==
    ASSUME IInv, Execute, NEW o \in Addr, NEW s \in Addr
    PROVE  KeepsExpiry(o, s)
<1>1. CASE IncreaseAllowance
  BY <1>1, IncreaseKeepsExpiry
<1>2. CASE DecreaseAllowance
  BY <1>2, DecreaseKeepsExpiry
<1>3. CASE TransferFrom \/ SendFrom \/ BurnFrom
  BY <1>3, SpendingKeepsExpiry
<1>4. CASE \/ Transfer \/ Send \/ Burn \/ Mint \/ UpdateMinter
           \/ SetTaxMap \/ SetTaxAdmin \/ SetWhaleInfo \/ SetWhaleAdmin
  <2>1. allowances' = allowances
    BY <1>4 DEF Transfer, Send, Burn, Mint, UpdateMinter, SetTaxMap, SetTaxAdmin,
                SetWhaleInfo, SetWhaleAdmin
  <2>. QED
    BY <2>1 DEF KeepsExpiry, Revived
<1>. QED
  BY <1>1, <1>2, <1>3, <1>4 DEF Execute

LEMMA NextKeepsLapse ==
    ASSUME IInv, LapseInv, [Next]_vars
    PROVE  /\ LapseInv'
           /\ \A o, s \in Addr : Revived(allowances, <<o, s>>) => NamedByOwner(o, s)
<1>1. CASE Execute \/ Receive
  <2>1. /\ committed' = IF pending' = <<>> THEN Store' ELSE committed
        /\ height' = height
    BY <1>1 DEF Execute, Receive, Transfer, TransferFrom, Send, SendFrom, Burn, BurnFrom,
       Mint, IncreaseAllowance, DecreaseAllowance, UpdateMinter, SetTaxMap, SetTaxAdmin,
       SetWhaleInfo, SetWhaleAdmin, Return
  <2>2. \A o, s \in Addr : KeepsExpiry(o, s)
    <3>1. CASE Execute
      BY <3>1, ExecuteKeepsExpiry
    <3>2. CASE Receive
      BY <3>2 DEF Receive, store, KeepsExpiry, Revived
    <3>. QED
      BY <1>1, <3>1, <3>2
  <2>3. CASE pending' = <<>>
    <3>1. committed'.allowances = allowances'
      BY <2>1, <2>3 DEF Store
    <3>. QED
      BY <2>2, <3>1 DEF LapseInv, KeepsExpiry
  <2>4. CASE pending' # <<>>
    <3>1. committed' = committed
      BY <2>1, <2>4
    <3>. QED
      BY <2>1, <2>2, <2>4, <3>1 DEF LapseInv, KeepsExpiry, Lapsed, IsExpired
  <2>. QED
    BY <2>3, <2>4
<1>2. CASE Fail
  <2>1. allowances' = committed.allowances /\ committed' = committed
    BY <1>2 DEF Fail
  <2>. QED
    BY <2>1 DEF LapseInv, Revived, Lapsed
<1>3. CASE Submit \/ NextBlock \/ UNCHANGED vars
  <2>1. /\ allowances' = allowances /\ committed' = committed
        /\ \/ pending = <<>>
           \/ pending' = pending /\ height' = height
    BY <1>3 DEF Submit, NextBlock, vars, store
  <2>2. \A o, s \in Addr : ~Revived(allowances, <<o, s>>)
    BY <2>1 DEF Revived
  <2>. QED
    BY <2>1, <2>2 DEF LapseInv, Lapsed, IsExpired
<1>. QED
  BY <1>1, <1>2, <1>3 DEF Next, TxStep

LEMMA LapseInvariant == Spec => []LapseInv
<1>1. Init => LapseInv
  BY DEF Init, LapseInv, Store
<1>2. IInv /\ LapseInv /\ [Next]_vars => LapseInv'
  BY NextKeepsLapse
<1>. QED
  BY <1>1, <1>2, InvIsInvariant, PTL DEF Spec

\* What one map shows, the other does.
LEMMA MirroredRevival ==
    ASSUME AllowancesMirrored, AllowancesMirrored', NEW o \in Addr, NEW s \in Addr,
           Revived(allowances_spender, <<s, o>>)
    PROVE  Revived(allowances, <<o, s>>)
<1>1. /\ allowances[<<o, s>>] = allowances_spender[<<s, o>>]
      /\ allowances'[<<o, s>>] = allowances_spender'[<<s, o>>]
  BY DEF AllowancesMirrored
<1>. QED
  BY <1>1 DEF Revived

\* An expired allowance stays expired until its owner names a new expiration for its
\* spender: raising or lowering keeps the old one, spending needs a live one, and what
\* a failed transaction brings back had expired as well (allowances.rs: the closures
\* update_fn of increase_allowance and deduct_allowance).
THEOREM ExpiredStaysExpired == Spec => OnlyOwnerRevives
<1>. DEFINE OnlyThen == \A owner, spender \in Addr :
                \/ Revived(allowances, <<owner, spender>>)
                \/ Revived(allowances_spender, <<spender, owner>>)
                => NamedByOwner(owner, spender)
<1>1. IInv /\ LapseInv /\ AllowancesMirrored /\ AllowancesMirrored' /\ [Next]_vars => OnlyThen
  BY NextKeepsLapse, MirroredRevival
<1>. HIDE DEF OnlyThen
<1>2. Spec => [][OnlyThen]_vars
  BY <1>1, InvIsInvariant, LapseInvariant, AllowancesAreMirrored, PTL DEF Spec
<1>. QED
  BY <1>2 DEF OnlyOwnerRevives, OnlyThen, NamedByOwner
=============================================================================
